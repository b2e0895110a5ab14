----------------------- MODULE CommittedReadersProofs -----------------------
(***************************************************************************)
(* Proofs about the committed readers of Readers, step by step: where the  *)
(* watermark does not move back and no segment is rewritten under a reader *)
(* that relies on it, what a reader serves and in which order.             *)
(***************************************************************************)
EXTENDS ReadersProofs

USE Zenon

-----------------------------------------------------------------------------
(* The steps of a committed reader.                                        *)

\* A reader whose segment was replaced is built anew (readOne, newSourceReader).
LEMMA AgainOK ==
  ASSUME LogShape, NEW r \in Readers, CommittedOK(cr[r])
  PROVE  CommittedOK(Again(r))
<1> DEFINE c == cr[r]
           d == Again(r)
           p == classifyReadError
<1>1. c \in CommittedReader
  BY DEF CommittedOK
<1>2. p \in {"resolve", "closed"}
  BY DEF classifyReadError
<1>3. d = [Leaves(c, p) EXCEPT !.hw = -1]
  BY DEF Again
<1> HIDE DEF d, p
<1>4. /\ d \in CommittedReader /\ d.pc = p /\ d.seg = None /\ d.hwSeg = None /\ d.raw = -1
      /\ d.snap = {} /\ d.hw = -1 /\ d.at = c.at /\ d.offset = c.offset /\ d.above = c.above
  BY <1>1, <1>2, <1>3 DEF Leaves, CommittedReader
<1> HIDE DEF c
<1>5. CommittedOK(c)
  BY DEF c
<1> QED BY <1>2, <1>4, <1>5, LeavesOK DEF d

\* A lookup of an offset that its segment reaches fails only when the segment was
\* replaced or shut.
LEMMA FindEntryOK ==
  ASSUME LogShape, NEW r \in Readers, CommittedOK(cr[r]), NEW s, NEW o, From(s, o) # {}, NEW found,
         ~Unreadable(s) => CommittedOK(found)
  PROVE  CommittedOK(findEntry(r, s, o, found))
BY AgainOK DEF findEntry

\* A reader that leaves a wait, or a bounded read that ends.
LEMMA WaitLeavesOK ==
  ASSUME LogShape, NEW c, CommittedOK(c), NEW p,
         \/ p = "closed"
         \/ p \in {"readonly", "ended"} /\ c.pc \in {"register", "parked", "clamp"}
  PROVE  CommittedOK(Leaves(c, p))
<1> DEFINE d == Leaves(c, p)
<1>1. c \in CommittedReader
  BY DEF CommittedOK
<1>2. /\ d \in CommittedReader /\ d.pc = p /\ d.seg = None /\ d.hwSeg = None /\ d.raw = -1
      /\ d.snap = {} /\ d.hw = c.hw /\ d.at = c.at /\ d.offset = c.offset /\ d.above = c.above
  BY <1>1 DEF Leaves, CommittedReader
<1> HIDE DEF d
<1> QED BY <1>2, LeavesOK DEF d

\* NewReader, and newReaderCommitted up to the list.
LEMMA OpenOK ==
  ASSUME LogShape, NEW c, CommittedOK(c), NEW d \in CommittedReader,
         d.seg = c.seg, d.hwSeg = c.hwSeg, d.hw = c.hw, d.at = c.at,
         \/ c.pc \in {"new", "resolve"} /\ d.pc = "list" /\ d.raw = hw /\ d.snap = c.snap
         \/ c.pc = "list" /\ d.pc = "open" /\ d.raw = c.raw /\ d.snap = bases
  PROVE  CommittedOK(d)
<1>1. /\ c.raw <= hw /\ c.hw <= hw /\ c.hw < next /\ c.at <= hw + 1 /\ c.seg = None /\ c.hwSeg = None
      /\ c.snap # {} => Walks(c)
  BY DEF CommittedOK, AtStep
<1>2. hw <= hw
  BY LogNumbers, SMT
<1>3. d.snap # {} => Walks(d)
  <2>1. CASE d.snap = c.snap
    BY <1>1, <2>1 DEF Walks
  <2>2. CASE d.snap = bases
    BY <1>1, <2>2, SnapNow DEF Walks
  <2> QED BY <2>1, <2>2
<1>4. AtStep(d) /\ Served(d)
  BY <1>1, SnapNow DEF AtStep, Served
<1> QED BY <1>1, <1>2, <1>3, <1>4 DEF CommittedOK

\* NewReader.
LEMMA NewReaderOK ==
  ASSUME LogShape, NEW r \in Readers, CommittedOK(cr[r]), NEW o \in Base, NEW f \in BOOLEAN,
         NewReader(r, o, f)
  PROVE  \E d : Becomes(r, d) /\ CommittedOK(d)
<1> DEFINE c == cr[r]
           d == [c EXCEPT !.pc = "list", !.raw = hw, !.offset = o, !.follow = f]
<1>1. Becomes(r, d) /\ c.pc = "new"
  BY DEF NewReader
<1>2. c \in CommittedReader /\ hw \in Offset \cup {-1}
  BY DEF CommittedOK, LogShape
<1>3. /\ d \in CommittedReader /\ d.pc = "list" /\ d.seg = c.seg /\ d.hwSeg = c.hwSeg /\ d.hw = c.hw
      /\ d.at = c.at /\ d.raw = hw /\ d.snap = c.snap
  BY <1>2, ZenonT(30) DEF CommittedReader
<1> HIDE DEF d
<1> QED BY <1>1, <1>3, OpenOK

\* newReaderCommitted, up to the list.
LEMMA NewReaderCommittedOK ==
  ASSUME LogShape, NEW r \in Readers, CommittedOK(cr[r]), newReaderCommitted(r)
  PROVE  \E d : Becomes(r, d) /\ CommittedOK(d)
<1> DEFINE c == cr[r]
<1>1. c \in CommittedReader /\ hw \in Offset \cup {-1} /\ bases \in SUBSET Base
  BY DEF CommittedOK, LogShape, List
<1>2. CASE c.pc = "resolve" /\ Becomes(r, [c EXCEPT !.pc = "list", !.raw = hw])
  <2> DEFINE d == [c EXCEPT !.pc = "list", !.raw = hw]
  <2>1. /\ d \in CommittedReader /\ d.pc = "list" /\ d.seg = c.seg /\ d.hwSeg = c.hwSeg /\ d.hw = c.hw
        /\ d.at = c.at /\ d.raw = hw /\ d.snap = c.snap
    BY <1>1 DEF CommittedReader
  <2> HIDE DEF d
  <2>2. Becomes(r, d)
    BY <1>2 DEF d
  <2> QED BY <1>2, <2>1, <2>2, OpenOK
<1>3. CASE c.pc = "list" /\ Becomes(r, [c EXCEPT !.pc = "open", !.snap = bases])
  <2> DEFINE d == [c EXCEPT !.pc = "open", !.snap = bases]
  <2>1. /\ d \in CommittedReader /\ d.pc = "open" /\ d.seg = c.seg /\ d.hwSeg = c.hwSeg /\ d.hw = c.hw
        /\ d.at = c.at /\ d.raw = c.raw /\ d.snap = bases
    BY <1>1 DEF CommittedReader
  <2> HIDE DEF d
  <2>2. Becomes(r, d)
    BY <1>3 DEF d
  <2> QED BY <1>3, <2>1, <2>2, OpenOK
<1> QED BY <1>2, <1>3 DEF newReaderCommitted

\* A reader that starts above the bound gets no place yet; one that does not gets its
\* bound (newReaderCommitted).
LEMMA PositionOK ==
  ASSUME LogShape, DroppedBelow, NEW r \in Readers, CommittedOK(cr[r]), Position(r)
  PROVE  \E d : Becomes(r, d) /\ CommittedOK(d)
<1> DEFINE c == cr[r]
           h == clampHW(c.snap, c.raw)
           o == c.offset
           t == findSegment(c.snap, h)
<1>1. /\ c \in CommittedReader /\ c.raw <= hw /\ c.pc = "open" /\ c.snap # {} /\ Walks(c)
      /\ c.seg = None /\ c.hwSeg = None
  BY DEF CommittedOK, AtStep, Position
<1>2. SnapOK(c.snap) /\ c.raw \in Offset \cup {-1}
  BY <1>1 DEF Walks, CommittedReader
<1>3. h \in Offset \cup {-1} /\ h <= c.raw /\ h <= hw /\ h < End(Max(c.snap)) /\ h < next
  BY <1>1, <1>2, ClampIs
<1> HIDE DEF h
<1>4. o \in Int /\ 0 <= o /\ hw \in Int /\ h \in Int /\ -1 <= hw
  <2>1. \A z \in Offset \cup {-1} : z \in Int
    BY ReadersAssumption, SMT DEF Offset
  <2> QED BY <1>1, <1>3, <2>1, ReaderNumbers, LogNumbers
<1>5. ASSUME h = -1 \/ o > h,
             Becomes(r, [c EXCEPT !.hw = h, !.raw = -1, !.pc = "read", !.snap = {}, !.at = h + 1,
                                  !.above = o > h + 1])
      PROVE  \E d : Becomes(r, d) /\ CommittedOK(d)
  <2> DEFINE a == o > h + 1
             d == [c EXCEPT !.hw = h, !.raw = -1, !.pc = "read", !.snap = {}, !.at = h + 1, !.above = a]
  <2>1. h + 1 \in Base /\ h + 1 <= hw + 1
    BY <1>3, <1>4, ReadersAssumption, SMT DEF Base, Offset
  <2>2. a \in BOOLEAN
    BY <1>4, SMT
  <2>3. /\ d \in CommittedReader /\ d.pc = "read" /\ d.seg = None /\ d.hwSeg = None /\ d.hw = h
        /\ d.at = h + 1 /\ d.offset = o /\ d.raw = -1 /\ d.snap = {} /\ d.above = a
    <3> HIDE DEF a
    <3> QED BY <1>1, <1>3, <2>1, <2>2 DEF CommittedReader
  <2> HIDE DEF d
  <2>4. AtStep(d)
    BY <2>3 DEF AtStep
  <2>5. Served(d)
    <3>1. ASSUME ~d.above
          PROVE  o <= h + 1 /\ o .. (h + 1) - 1 \subseteq dropped
      <4>1. ~(o > h + 1)
        BY <2>3, <3>1
      <4>2. o = h + 1
        BY <1>4, <1>5, <4>1, SMT
      <4>3. o <= h + 1 /\ \A z \in o .. (h + 1) - 1 : FALSE
        BY <1>4, <4>2, SMT
      <4> QED BY <4>3
    <3> QED BY <2>3, <3>1 DEF Served
  <2>6. Becomes(r, d)
    BY <1>5 DEF d
  <2> QED BY <1>3, <1>4, <2>1, <2>3, <2>4, <2>5, <2>6 DEF CommittedOK
<1>6. ASSUME h # -1, o <= h,
             Becomes(r, [c EXCEPT !.hw = h, !.raw = -1, !.pc = IF t = None THEN "failed" ELSE "openHW",
                                  !.above = FALSE, !.hwSeg = t])
      PROVE  \E d : Becomes(r, d) /\ CommittedOK(d)
  <2>1. h \in Nat
    BY <1>3, <1>6, ReadersAssumption, SMT DEF Offset
  <2>2. t # None /\ HoldsBound(t, h) /\ ~left(t) /\ t[1] \in c.snap
    BY <1>2, <1>3, <2>1, Locate
  <2>3. t \in Segment
    BY <2>2 DEF HoldsBound, Valid
  <2> HIDE DEF t
  <2> DEFINE d == [c EXCEPT !.hw = h, !.raw = -1, !.pc = "openHW", !.above = FALSE, !.hwSeg = t]
  <2>4. /\ d \in CommittedReader /\ d.pc = "openHW" /\ d.seg = None /\ d.hwSeg = t /\ d.hw = h
        /\ d.at = c.at /\ d.offset = o /\ d.raw = -1 /\ d.snap = c.snap
    BY <1>1, <1>3, <2>3 DEF CommittedReader
  <2>5. Becomes(r, d)
    BY <1>6, <2>2
  <2> HIDE DEF d
  <2>6. AtStep(d) /\ Served(d)
    BY <1>1, <1>6, <2>2, <2>4 DEF AtStep, Served
  <2>7. Walks(d)
    BY <1>2, <1>3, <2>2, <2>4 DEF Walks
  <2>8. c.at <= hw + 1
    BY DEF CommittedOK
  <2> QED BY <1>3, <1>4, <2>2, <2>4, <2>5, <2>6, <2>7, <2>8 DEF CommittedOK
<1> QED
  <2>1. \/ (h = -1 \/ o > h) /\ Becomes(r, [[c EXCEPT !.hw = h, !.raw = -1] EXCEPT !.pc = "read",
                                !.snap = {}, !.at = h + 1, !.above = o > h + 1])
        \/ h # -1 /\ o <= h /\ Becomes(r, [[c EXCEPT !.hw = h, !.raw = -1] EXCEPT
                                !.pc = IF t = None THEN "failed" ELSE "openHW",
                                !.above = FALSE, !.hwSeg = t])
    BY DEF Position, h
  <2> HIDE DEF t
  <2>2. \A a : [[c EXCEPT !.hw = h, !.raw = -1] EXCEPT !.pc = "read",
                      !.snap = {}, !.at = h + 1, !.above = a]
               = [c EXCEPT !.hw = h, !.raw = -1, !.pc = "read", !.snap = {}, !.at = h + 1, !.above = a]
    BY <1>1 DEF CommittedReader
  <2>3. \A p : [[c EXCEPT !.hw = h, !.raw = -1] EXCEPT !.pc = p, !.above = FALSE, !.hwSeg = t]
               = [c EXCEPT !.hw = h, !.raw = -1, !.pc = p, !.above = FALSE, !.hwSeg = t]
    BY <1>1 DEF CommittedReader
  <2> QED BY <1>5, <1>6, <2>1, <2>2, <2>3

\* The segment a search finds for an offset up to the bound is a place for the reader
\* (newReaderCommitted, getHWPos).
LEMMA FoundPlace ==
  ASSUME LogShape, DroppedBelow, NEW c, CommittedOK(c), c.hwSeg # None, c.snap # {},
         ~left(c.hwSeg), NEW x \in Nat, x <= c.hw
  PROVE  LET s == findSegment(c.snap, x)
         IN  /\ s # None /\ Valid(s) /\ ~left(s) /\ s[1] <= hw
             /\ s = c.hwSeg \/ s[1] < c.hwSeg[1]
             /\ From(s, x) # {} /\ x < End(s[1]) /\ x .. s[1] - 1 \subseteq dropped
<1> DEFINE s == findSegment(c.snap, x)
<1>1. /\ c \in CommittedReader /\ c.hw <= hw /\ HoldsBound(c.hwSeg, c.hw) /\ SnapOK(c.snap)
      /\ c.hw < End(Max(c.snap))
  BY DEF CommittedOK, Walks
<1>2. c.hw \in Int /\ x \in Int /\ hw \in Int /\ End(Max(c.snap)) \in Int
  <2>1. c.hw \in Int /\ hw \in Int /\ End(Max(c.snap)) \in Int
    BY <1>1, ReaderNumbers, LogNumbers, SnapEnds
  <2> QED BY <2>1, SMT
<1>3. x <= hw /\ x < End(Max(c.snap))
  BY <1>1, <1>2, SMT
<1>4. s # None /\ HoldsBound(s, x) /\ ~left(s) /\ x .. s[1] - 1 \subseteq dropped
  BY <1>1, <1>3, Locate
<1> HIDE DEF s
<1>5. s = c.hwSeg \/ s[1] < c.hwSeg[1]
  BY <1>1, <1>2, <1>4, FoundBefore
<1>6. Valid(s) /\ From(s, x) # {} /\ s[1] <= hw
  BY <1>4 DEF HoldsBound
<1>7. x < End(s[1])
  <2>1. PICK y \in Records(s) : y >= x
    BY <1>6 DEF From
  <2>2. y < End(s[1]) /\ y \in Int /\ End(s[1]) \in Int
    BY <1>6, RecordsIn, LogNumbers, Numbers DEF Valid
  <2> QED BY <1>2, <2>1, <2>2, SMT
<1> QED BY <1>4, <1>5, <1>6, <1>7 DEF s

\* newReaderCommitted, the two lookups.
LEMMA PositionSegmentOK ==
  ASSUME LogShape, DroppedBelow, NEW r \in Readers, CommittedOK(cr[r]), PositionSegment(r)
  PROVE  \E d : Becomes(r, d) /\ CommittedOK(d)
<1> DEFINE c == cr[r]
           o == c.offset
           s == findSegment(c.snap, o)
           placed == [c EXCEPT !.pc = "read", !.snap = {}, !.at = Max({o, c.seg[1]})]
<1>1. /\ c \in CommittedReader /\ c.hw <= hw /\ c.hw < next /\ c.raw <= hw /\ c.at <= hw + 1
      /\ c.hwSeg # None => HoldsBound(c.hwSeg, c.hw)
      /\ c.seg # None => InPlace(c)
      /\ c.snap # {} => Walks(c)
      /\ AtStep(c)
  BY DEF CommittedOK
<1>2. o \in Int /\ o \in Nat /\ c.hw \in Int /\ hw \in Int /\ o \in Base
  BY <1>1, ReaderNumbers, LogNumbers DEF CommittedReader
<1>3. CASE /\ c.pc = "openHW"
           /\ Becomes(r, findEntry(r, c.hwSeg, c.hw, [c EXCEPT !.pc = "openSeg", !.seg = s]))
  <2> DEFINE d == [c EXCEPT !.pc = "openSeg", !.seg = s]
  <2>1. /\ c.hwSeg # None /\ o <= c.hw /\ c.snap # {} /\ HoldsBound(c.hwSeg, c.hw) /\ Walks(c)
    BY <1>1, <1>3 DEF AtStep
  <2>2. ASSUME ~Unreadable(c.hwSeg)
        PROVE  CommittedOK(d)
    <3>1. ~left(c.hwSeg)
      BY <2>2 DEF Unreadable
    <3>2. /\ s # None /\ Valid(s) /\ ~left(s) /\ (s = c.hwSeg \/ s[1] < c.hwSeg[1])
          /\ From(s, o) # {} /\ o .. s[1] - 1 \subseteq dropped
      BY <1>2, <2>1, <3>1, FoundPlace
    <3>3. s \in Segment
      BY <3>2 DEF Valid
    <3> HIDE DEF s
    <3>4. /\ d \in CommittedReader /\ d.pc = "openSeg" /\ d.seg = s /\ d.hwSeg = c.hwSeg /\ d.hw = c.hw
          /\ d.at = c.at /\ d.offset = o /\ d.raw = c.raw /\ d.snap = c.snap
      BY <1>1, <3>3 DEF CommittedReader
    <3> HIDE DEF d
    <3>5. InPlace(d)
      BY <2>1, <3>1, <3>2, <3>4 DEF InPlace
    <3>6. AtStep(d) /\ Served(d)
      BY <2>1, <3>2, <3>4 DEF AtStep, Served
    <3>7. Walks(d)
      BY <2>1, <3>4 DEF Walks
    <3> QED BY <1>1, <3>4, <3>5, <3>6, <3>7 DEF CommittedOK
  <2>3. From(c.hwSeg, c.hw) # {}
    BY <2>1 DEF HoldsBound
  <2> HIDE DEF d
  <2>4. CommittedOK(findEntry(r, c.hwSeg, c.hw, d))
    BY <2>2, <2>3, FindEntryOK
  <2> QED BY <1>3, <2>4 DEF d
<1>4. CASE /\ c.pc = "openSeg"
           /\ Becomes(r, IF c.seg[1] <= o THEN findEntry(r, c.seg, o, placed) ELSE placed)
  <2>1. /\ c.seg # None /\ o <= c.hw /\ From(c.seg, o) # {} /\ o .. c.seg[1] - 1 \subseteq dropped
        /\ InPlace(c)
    BY <1>1, <1>4 DEF AtStep
  <2> DEFINE b == c.seg[1]
             m == Max({o, b})
  <2>2. Valid(c.seg) /\ b \in bases /\ b \in Base /\ b \in Int /\ c.hwSeg # None /\ End(b) \in Int /\ b <= End(b)
    BY <2>1, LogNumbers, EndLog DEF InPlace, Valid
  <2>3. m \in {o, b} /\ o <= m /\ b <= m
    <3>1. {o, b} \in SUBSET Base /\ {o, b} # {}
      BY <1>2, <2>2
    <3> QED BY <3>1, BaseMax
  <2> HIDE DEF m
  <2>4. m \in Base /\ m \in Int
    BY <1>2, <2>2, <2>3
  <2>5. b <= hw
    <3>1. c.hwSeg[1] <= hw /\ c.hwSeg[1] \in Int
      BY <1>1, <2>2, LogNumbers DEF HoldsBound, Valid
    <3>2. c.seg = c.hwSeg \/ b < c.hwSeg[1] \/ b = c.hwSeg[1]
      BY <2>1 DEF InPlace
    <3> QED BY <1>2, <2>2, <3>1, <3>2, SMT
  <2>6. o < End(b)
    <3>1. PICK y \in Records(c.seg) : y >= o
      BY <2>1 DEF From
    <3>2. y < End(b) /\ y \in Int
      BY <2>2, RecordsIn, Numbers
    <3> QED BY <1>2, <2>2, <3>1, <3>2, SMT
  <2>7. m <= End(b) /\ m <= hw + 1
    <3>1. /\ m \in Int /\ o \in Int /\ b \in Int /\ End(b) \in Int /\ hw \in Int /\ c.hw \in Int
          /\ m \in {o, b} /\ o < End(b) /\ b <= End(b) /\ o <= c.hw /\ c.hw <= hw /\ b <= hw
      BY <1>1, <1>2, <2>1, <2>2, <2>3, <2>4, <2>5, <2>6
    <3> QED BY <3>1, SMT
  <2>8. m .. b - 1 \subseteq dropped /\ o .. m - 1 \subseteq dropped
    <3>1. \A z \in m .. b - 1 : FALSE
      BY <2>2, <2>3, <2>4, SMT
    <3>2. CASE m = b
      BY <2>1, <3>1, <3>2
    <3>3. CASE m = o
      <4>1. \A z \in o .. m - 1 : FALSE
        BY <1>2, <3>3, SMT
      <4> QED BY <3>1, <4>1
    <3> QED BY <2>3, <3>2, <3>3
  <2>9. placed = [c EXCEPT !.pc = "read", !.snap = {}, !.at = m]
    BY DEF m
  <2> HIDE DEF placed
  <2> DEFINE d == placed
  <2>10. /\ d \in CommittedReader /\ d.pc = "read" /\ d.seg = c.seg /\ d.hwSeg = c.hwSeg /\ d.hw = c.hw
         /\ d.at = m /\ d.offset = o /\ d.raw = c.raw /\ d.snap = {} /\ d.above = c.above
    BY <1>1, <2>4, <2>9 DEF CommittedReader
  <2>11. InPlace(d)
    BY <1>4, <2>1, <2>7, <2>8, <2>10 DEF InPlace
  <2>12. AtStep(d)
    BY <2>1, <2>10 DEF AtStep
  <2>13. Served(d)
    BY <2>3, <2>8, <2>10 DEF Served
  <2>14. CommittedOK(d)
    BY <1>1, <2>7, <2>10, <2>11, <2>12, <2>13 DEF CommittedOK
  <2>15. CommittedOK(findEntry(r, c.seg, o, d))
    BY <2>1, <2>14, FindEntryOK
  <2> QED BY <1>4, <2>14, <2>15
<1> QED BY <1>3, <1>4 DEF PositionSegment

\* Read.
LEMMA ReadOK ==
  ASSUME LogShape, NEW r \in Readers, CommittedOK(cr[r]), Read(r)
  PROVE  \E d : Becomes(r, d) /\ CommittedOK(d)
<1> DEFINE c == cr[r]
           p == IF c.seg = None THEN "sync" ELSE "loop"
           d == [c EXCEPT !.pc = p, !.snap = bases]
<1>1. c.pc = "read" /\ Becomes(r, d)
  BY DEF Read
<1>2. c \in CommittedReader /\ AtStep(c) /\ c.raw <= hw
  BY DEF CommittedOK
<1>3. bases \in SUBSET Base /\ bases # {} /\ p \in {"sync", "loop"}
  BY SnapNow DEF LogShape, List
<1>4. (c.seg = None /\ p = "sync") \/ (c.seg # None /\ p = "loop")
  OBVIOUS
<1> HIDE DEF p
<1>5. /\ d \in CommittedReader /\ d.pc = p /\ d.seg = c.seg /\ d.hwSeg = c.hwSeg /\ d.hw = c.hw
      /\ d.at = c.at /\ d.offset = c.offset /\ d.raw = c.raw /\ d.snap = bases /\ d.above = c.above
  BY <1>2, <1>3 DEF CommittedReader
<1> HIDE DEF d
<1>6. AtStep(d)
  BY <1>1, <1>2, <1>3, <1>4, <1>5 DEF AtStep
<1>7. CommittedOK(d)
  BY <1>1, <1>2, <1>3, <1>5, <1>6, SamePlace
<1> QED BY <1>1, <1>7

\* The record a reader serves next is committed, although it is limited only in the
\* segment of its bound (readLoop).
LEMMA ServedBelow ==
  ASSUME LogShape, NEW c, CommittedOK(c), c.pc = "loop",
         ~(c.hwSeg = c.seg /\ c.at > Min(From(c.hwSeg, c.hw)))
  PROVE  /\ c.seg # None /\ c.hwSeg # None /\ Valid(c.seg)
         /\ From(c.seg, c.at) # {} =>
              /\ Min(From(c.seg, c.at)) \in Records(c.seg) /\ Min(From(c.seg, c.at)) \in Offset
              /\ Min(From(c.seg, c.at)) <= hw /\ Min(From(c.seg, c.at)) < End(c.seg[1])
              /\ c.seg[1] <= Min(From(c.seg, c.at)) /\ c.at <= Min(From(c.seg, c.at))
              /\ \A z \in From(c.seg, c.at) : Min(From(c.seg, c.at)) <= z
         /\ c.seg = c.hwSeg => From(c.seg, c.at) # {}
<1> DEFINE rest == From(c.seg, c.at)
           b == c.seg[1]
<1>1. c.seg # None /\ InPlace(c) /\ c \in CommittedReader
  BY DEF CommittedOK, AtStep
<1>2. c.hwSeg # None /\ Valid(c.seg) /\ HoldsBound(c.hwSeg, c.hw) /\ Valid(c.hwSeg)
  BY <1>1 DEF InPlace, CommittedOK, HoldsBound
<1>3. b \in bases /\ b \in Int /\ End(b) \in Int /\ hw \in Int /\ c.at \in Int /\ c.hw \in Int
  BY <1>1, <1>2, LogNumbers, ReaderNumbers DEF Valid
<1>4. Records(c.seg) \in SUBSET Offset /\ \A x \in Records(c.seg) : b <= x /\ x < End(b) /\ x \in Int
  BY <1>3, RecordsIn, Numbers
<1> DEFINE f == Min(From(c.hwSeg, c.hw))
<1>5. c.seg = c.hwSeg => f \in From(c.seg, c.hw) /\ f <= hw /\ f \in Int /\ f \in rest
  <2> SUFFICES ASSUME c.seg = c.hwSeg
               PROVE  f \in From(c.seg, c.hw) /\ f <= hw /\ f \in Int /\ f \in rest
    OBVIOUS
  <2>1. From(c.seg, c.hw) # {} /\ f <= hw /\ From(c.seg, c.hw) \in SUBSET Base
    BY <1>2, <1>4, Numbers DEF HoldsBound, From
  <2>2. f \in From(c.seg, c.hw)
    BY <2>1, BaseMin
  <2>3. f \in Records(c.seg) /\ f \in Int
    BY <1>4, <2>2 DEF From
  <2>4. f >= c.at
    BY <1>3, <2>3, SMT
  <2> HIDE DEF f
  <2> QED BY <2>1, <2>2, <2>3, <2>4 DEF From
<1>6. ASSUME rest # {}
      PROVE  /\ Min(rest) \in Records(c.seg) /\ Min(rest) \in Offset /\ Min(rest) <= hw
             /\ Min(rest) < End(b) /\ b <= Min(rest) /\ c.at <= Min(rest)
             /\ \A z \in rest : Min(rest) <= z
  <2>1. rest \in SUBSET Base /\ rest \subseteq Records(c.seg)
    BY <1>4, Numbers DEF From
  <2> DEFINE x == Min(rest)
  <2>2. x \in rest /\ \A z \in rest : x <= z
    BY <1>6, <2>1, BaseMin
  <2>3. x \in Records(c.seg) /\ x \in Offset /\ x \in Int /\ b <= x /\ x < End(b) /\ x >= c.at
    BY <1>4, <2>1, <2>2 DEF From
  <2> HIDE DEF x, f
  <2>4. x <= hw
    <3>1. CASE c.seg = c.hwSeg
      <4>1. f \in rest /\ f <= hw /\ f \in Int
        BY <1>5, <3>1
      <4>2. x <= f
        BY <2>2, <4>1
      <4> QED BY <1>3, <2>3, <4>1, <4>2, SMT
    <3>2. CASE b < c.hwSeg[1]
      <4>1. c.hwSeg[1] \in bases /\ c.hwSeg[1] <= hw /\ c.hwSeg[1] \in Int
        BY <1>2, LogNumbers DEF HoldsBound, Valid
      <4>2. c.hwSeg[1] > b
        BY <1>3, <3>2, <4>1, SMT
      <4>3. End(b) <= c.hwSeg[1]
        BY <1>3, <4>1, <4>2, EndLog
      <4> QED BY <1>3, <2>3, <4>1, <4>3, SMT
    <3>3. CASE left(c.seg)
      <4>1. End(b) <= hw + 1
        BY <1>1, <3>3 DEF InPlace
      <4> QED BY <1>3, <2>3, <4>1, SMT
    <3> QED BY <1>1, <3>1, <3>2, <3>3 DEF InPlace
  <2>5. c.at <= x
    BY <1>3, <2>3, SMT
  <2> QED BY <2>2, <2>3, <2>4, <2>5 DEF x
<1> QED BY <1>1, <1>2, <1>5, <1>6

\* readLoop, at its limit.
LEMMA LimitOK ==
  ASSUME LogShape, NEW c, CommittedOK(c),
         \/ c.pc = "loop" /\ (c.hwSeg = None \/ c.hwSeg = c.seg)
         \/ c.pc = "sync"
  PROVE  CommittedOK([c EXCEPT !.pc = "snapshot", !.raw = hw, !.snap = {}])
<1> DEFINE d == [c EXCEPT !.pc = "snapshot", !.raw = hw, !.snap = {}]
<1>1. c \in CommittedReader /\ AtStep(c) /\ c.hw <= hw /\ (c.seg # None => InPlace(c))
  BY DEF CommittedOK
<1>2. hw \in Offset \cup {-1} /\ hw <= hw
  BY LogNumbers, SMT DEF LogShape
<1>3. /\ d \in CommittedReader /\ d.pc = "snapshot" /\ d.seg = c.seg /\ d.hwSeg = c.hwSeg /\ d.hw = c.hw
      /\ d.at = c.at /\ d.offset = c.offset /\ d.raw = hw /\ d.snap = {} /\ d.above = c.above
  BY <1>1, <1>2 DEF CommittedReader
<1> HIDE DEF d
<1>4. c.seg # None => c.seg = c.hwSeg
  BY <1>1 DEF AtStep, InPlace
<1>5. c.seg = None => c.at = c.hw + 1
  BY <1>1 DEF AtStep
<1>6. AtStep(d)
  BY <1>1, <1>3, <1>4, <1>5 DEF AtStep
<1> QED BY <1>2, <1>3, <1>6, SamePlace DEF d

\* readLoop: the limit, a record, the end of a segment, or an error.
LEMMA ReadLoopOK ==
  ASSUME LogShape, NEW r \in Readers, CommittedOK(cr[r]), readLoop(r)
  PROVE  \E d : Becomes(r, d) /\ CommittedOK(d)
<1> DEFINE c == cr[r]
           rest == From(c.seg, c.at)
<1>1. /\ c \in CommittedReader /\ AtStep(c) /\ c.pc = "loop" /\ c.seg # None /\ InPlace(c) /\ c.snap # {}
      /\ c.raw <= hw /\ c.hw <= hw /\ c.hw < next /\ (c.hwSeg # None => HoldsBound(c.hwSeg, c.hw))
  BY DEF CommittedOK, AtStep, readLoop
<1>2. CASE Limited(r) /\ Becomes(r, [c EXCEPT !.pc = "snapshot", !.raw = hw, !.snap = {}])
  <2>1. c.hwSeg = None \/ c.hwSeg = c.seg
    BY <1>2 DEF Limited
  <2> QED BY <1>1, <1>2, <2>1, LimitOK
<1>3. ASSUME ~Limited(r)
      PROVE  /\ c.hwSeg # None /\ Valid(c.seg)
             /\ rest # {} =>
                  /\ Min(rest) \in Offset /\ Min(rest) <= hw /\ Min(rest) < End(c.seg[1])
                  /\ c.seg[1] <= Min(rest)
             /\ c.seg = c.hwSeg => rest # {}
  BY <1>1, <1>3, ServedBelow DEF Limited
<1>4. CASE /\ ~Limited(r) /\ rest # {}
           /\ Becomes(r, [c EXCEPT !.pc = "read", !.at = Min(rest) + 1, !.offset = Min(rest) + 1,
                                   !.above = FALSE, !.snap = {}])
  <2> DEFINE x == Min(rest)
             y == x + 1
             d == [c EXCEPT !.pc = "read", !.at = y, !.offset = y, !.above = FALSE, !.snap = {}]
  <2>1. x \in Offset /\ x <= hw /\ x < End(c.seg[1]) /\ c.seg[1] <= x
    BY <1>3, <1>4
  <2>2. hw \in Int /\ End(c.seg[1]) \in Int /\ c.seg[1] \in Int /\ x \in Int
    BY <1>1, <2>1, LogNumbers, Numbers DEF InPlace, Valid
  <2>3. Becomes(r, d)
    BY <1>4
  <2> HIDE DEF x
  <2>4. y \in Base /\ y <= hw + 1 /\ y <= End(c.seg[1]) /\ y <= y
    BY <2>1, <2>2, ReadersAssumption, SMT DEF Base, Offset
  <2>5. (\A z \in y .. c.seg[1] - 1 : FALSE) /\ \A z \in y .. y - 1 : FALSE
    BY <2>1, <2>2, SMT
  <2> HIDE DEF y
  <2>6. /\ d \in CommittedReader /\ d.pc = "read" /\ d.seg = c.seg /\ d.hwSeg = c.hwSeg /\ d.hw = c.hw
        /\ d.at = y /\ d.offset = y /\ d.raw = c.raw /\ d.snap = {} /\ d.above = FALSE
    BY <1>1, <2>4 DEF CommittedReader
  <2> HIDE DEF d
  <2>7. InPlace(d)
    BY <1>1, <2>4, <2>5, <2>6 DEF InPlace
  <2>8. AtStep(d) /\ Served(d)
    BY <1>1, <2>4, <2>5, <2>6 DEF AtStep, Served
  <2>9. CommittedOK(d)
    BY <1>1, <2>4, <2>6, <2>7, <2>8 DEF CommittedOK
  <2> QED BY <2>3, <2>9
<1>5. CASE ~Limited(r) /\ rest = {} /\ ~Unreadable(c.seg) /\ Becomes(r, [c EXCEPT !.pc = "eof"])
  <2> DEFINE d == [c EXCEPT !.pc = "eof"]
  <2>1. /\ d \in CommittedReader /\ d.pc = "eof" /\ d.seg = c.seg /\ d.hwSeg = c.hwSeg /\ d.hw = c.hw
        /\ d.at = c.at /\ d.offset = c.offset /\ d.raw = c.raw /\ d.snap = c.snap /\ d.above = c.above
    BY <1>1 DEF CommittedReader
  <2>2. c.seg[1] < c.hwSeg[1]
    BY <1>1, <1>3, <1>5 DEF InPlace, Unreadable
  <2>3. Becomes(r, d)
    BY <1>5
  <2> HIDE DEF d
  <2>4. AtStep(d)
    BY <1>1, <1>5, <2>1, <2>2 DEF AtStep
  <2>5. CommittedOK(d)
    BY <1>1, <2>1, <2>4, SamePlace
  <2> QED BY <2>3, <2>5
<1>6. CASE Becomes(r, Again(r))
  BY <1>6, AgainOK
<1> QED BY <1>2, <1>4, <1>5, <1>6 DEF readLoop

\* At the end of a segment the reader goes on to the next with a record, and skips
\* only what was dropped (readLoop, findSegmentAfter).
LEMMA AdvanceOK ==
  ASSUME LogShape, DroppedBelow, NEW r \in Readers, CommittedOK(cr[r]), Advance(r)
  PROVE  \E d : Becomes(r, d) /\ CommittedOK(d)
<1> DEFINE c == cr[r]
           b == c.seg[1]
           t == c.hwSeg
           x == NextOffset(c.seg)
           s == findSegment(c.snap, x)
<1>1. /\ c \in CommittedReader /\ AtStep(c) /\ Served(c) /\ c.pc = "eof"
      /\ c.raw <= hw /\ c.hw <= hw /\ c.hw < next
  BY DEF CommittedOK, Advance
<1>2. /\ c.snap # {} /\ c.seg # None /\ b < t[1] /\ From(c.seg, c.at) = {}
  BY <1>1 DEF AtStep
<1>3. InPlace(c) /\ Walks(c) /\ t # None /\ HoldsBound(t, c.hw)
  BY <1>2 DEF CommittedOK, InPlace
<1>4. /\ Valid(c.seg) /\ Valid(t) /\ c.at <= End(b) /\ c.at .. b - 1 \subseteq dropped
      /\ SnapOK(c.snap) /\ t[1] \in c.snap /\ t[1] <= hw
  BY <1>1, <1>3 DEF InPlace, Walks, HoldsBound
<1>5. b \in bases /\ t[1] \in bases /\ b \in Int /\ t[1] \in Int /\ End(b) \in Int /\ End(t[1]) \in Int
      /\ hw \in Int /\ c.at \in Int /\ c.offset \in Int /\ c.hw \in Int
  BY <1>1, <1>4, LogNumbers, ReaderNumbers DEF Valid
<1>6. c.seg # t
  BY <1>2, <1>5, SMT
<1>7. ~left(t) /\ t = current(t[1])
  BY <1>1, <1>3, <1>6 DEF InPlace, left
<1>8. x \in Base /\ b <= x /\ x <= End(b) /\ \A z \in Records(c.seg) : z < x
  BY <1>5, NextOffsetIs
<1>9. x \in Nat /\ x \in Int
  BY <1>8, Numbers
<1> HIDE DEF x
<1>10. End(b) <= t[1]
  <2>1. t[1] > b
    BY <1>2, <1>5, SMT
  <2> QED BY <1>5, <2>1, EndLog
<1>11. x <= hw /\ x <= t[1]
  <2>1. /\ x \in Int /\ t[1] \in Int /\ End(b) \in Int /\ hw \in Int
        /\ x <= End(b) /\ t[1] <= hw
    BY <1>4, <1>5, <1>8, <1>9
  <2> QED BY <1>10, <2>1, SMT
<1>12. x < End(Max(c.snap))
  <2>1. PICK y \in Records(t) : y >= c.hw
    BY <1>3 DEF HoldsBound, From
  <2>2. t[1] <= y /\ y < End(t[1]) /\ y \in Int
    BY <1>5, RecordsIn, Numbers
  <2>3. End(t[1]) <= End(Max(c.snap)) /\ End(Max(c.snap)) \in Int
    BY <1>4, SnapEnds, Numbers
  <2> QED BY <1>5, <1>9, <1>11, <2>2, <2>3, SMT
<1>13. s # None /\ HoldsBound(s, x) /\ ~left(s) /\ x .. s[1] - 1 \subseteq dropped
  BY <1>4, <1>9, <1>11, <1>12, Locate
<1>14. Becomes(r, IF s = c.seg \/ s = None THEN [c EXCEPT !.pc = "failed"]
                  ELSE [c EXCEPT !.pc = "loop", !.seg = s, !.at = s[1]])
  BY <1>13 DEF Advance, findSegmentAfter, x
<1> HIDE DEF s
<1>15. Valid(s) /\ s \in Segment /\ s[1] \in bases /\ s[1] \in Int /\ End(s[1]) \in Int /\ s[1] \in Base
       /\ s[1] <= hw /\ s = current(s[1]) /\ s[1] <= End(s[1])
  BY <1>13, LogNumbers, Active, EndLog DEF HoldsBound, Valid, left
<1>16. PICK y \in Records(s) : y >= x
  BY <1>13 DEF HoldsBound, From
<1>17. s[1] <= y /\ y < End(s[1]) /\ y \in Int
  BY <1>15, RecordsIn, Numbers
<1>18. y \notin Records(c.seg) /\ s # c.seg
  <2>1. y \notin Records(c.seg)
    <3>1. ~(y < x)
      BY <1>9, <1>16, <1>17, SMT
    <3> QED BY <1>8, <3>1
  <2> QED BY <1>16, <2>1
<1>19. s[1] > b
  <2>1. CASE s[1] < b
    <3>1. End(s[1]) <= b
      <4>1. b > s[1]
        BY <1>5, <1>15, <2>1, SMT
      <4> QED BY <1>5, <1>15, <4>1, EndLog
    <3>2. /\ b \in Int /\ x \in Int /\ y \in Int /\ End(s[1]) \in Int
          /\ b <= x /\ y >= x /\ y < End(s[1])
      BY <1>5, <1>8, <1>9, <1>15, <1>16, <1>17
    <3> QED BY <3>1, <3>2, SMT
  <2>2. CASE s[1] = b
    <3>1. left(c.seg)
      BY <1>15, <1>18, <2>2 DEF left
    <3>2. c.seg[2] # 1
      <4>1. c.seg \in Segment /\ (c.seg[2] = 1 => b \in rewritten)
        BY <1>4 DEF Valid
      <4>2. c.seg = << b, c.seg[2] >>
        BY <4>1, SMT DEF Segment
      <4> QED BY <3>1, <4>1, <4>2 DEF left, current
    <3>3. Records(c.seg) = b .. End(b) - 1 /\ Records(s) \subseteq b .. End(b) - 1
      BY <2>2, <3>2 DEF Records
    <3> QED BY <1>16, <1>18, <3>3
  <2> QED BY <1>5, <1>15, <2>1, <2>2, SMT
<1>20. End(b) <= s[1]
  BY <1>5, <1>15, <1>19, EndLog
<1>21. s = t \/ s[1] < t[1]
  BY <1>3, <1>5, <1>7, <1>9, <1>11, <1>13, FoundBefore
<1>22. \A z \in c.at .. s[1] - 1 : z \in dropped
  <2> SUFFICES ASSUME NEW z \in c.at .. s[1] - 1
               PROVE  z \in dropped
    OBVIOUS
  <2>1. z \in Int /\ c.at <= z /\ z < s[1]
    BY <1>5, <1>15, SMT
  <2>2. CASE z < b
    <3>1. z \in c.at .. b - 1
      BY <1>5, <2>1, <2>2, SMT
    <3> QED BY <1>4, <3>1
  <2>3. CASE b <= z /\ z < x
    <3>1. z \in b .. End(b) - 1 /\ z >= c.at
      <4>1. /\ b \in Int /\ End(b) \in Int /\ x \in Int /\ z \in Int /\ c.at \in Int
            /\ x <= End(b) /\ c.at <= z
        BY <1>5, <1>8, <1>9, <2>1
      <4> QED BY <2>3, <4>1, SMT
    <3>2. z \notin Records(c.seg)
      BY <1>2, <3>1 DEF From
    <3> QED BY <3>1, <3>2 DEF Records
  <2>4. CASE x <= z
    <3>1. z \in x .. s[1] - 1
      BY <1>9, <1>15, <2>1, <2>4, SMT
    <3> QED BY <1>13, <3>1
  <2>5. b \in Int /\ x \in Int /\ z \in Int
    BY <1>5, <1>9, <2>1
  <2>6. z < b \/ (b <= z /\ z < x) \/ x <= z
    BY <2>5, SMT
  <2> QED BY <2>2, <2>3, <2>4, <2>6
<1> DEFINE d == [c EXCEPT !.pc = "loop", !.seg = s, !.at = s[1]]
<1>23. Becomes(r, d)
  BY <1>13, <1>14, <1>18
<1>24. /\ d \in CommittedReader /\ d.pc = "loop" /\ d.seg = s /\ d.hwSeg = t /\ d.hw = c.hw
       /\ d.at = s[1] /\ d.offset = c.offset /\ d.raw = c.raw /\ d.snap = c.snap /\ d.above = c.above
  BY <1>1, <1>15 DEF CommittedReader
<1> HIDE DEF d
<1>25. InPlace(d)
  <2>1. \A z \in s[1] .. s[1] - 1 : FALSE
    BY <1>15, SMT
  <2> QED BY <1>3, <1>7, <1>13, <1>15, <1>21, <1>24, <2>1 DEF InPlace
<1>26. AtStep(d)
  BY <1>2, <1>13, <1>24 DEF AtStep
<1>27. Walks(d)
  BY <1>3, <1>24 DEF Walks
<1>28. Served(d)
  <2> SUFFICES ASSUME ~c.above
               PROVE  c.offset <= s[1] /\ c.offset .. s[1] - 1 \subseteq dropped
    BY <1>24 DEF Served
  <2>1. c.offset <= c.at /\ \A z \in c.offset .. c.at - 1 : z \in dropped
    BY <1>1 DEF Served
  <2>2. c.offset <= s[1]
    <3>1. /\ c.offset \in Int /\ c.at \in Int /\ s[1] \in Int /\ End(b) \in Int
          /\ c.offset <= c.at /\ c.at <= End(b) /\ End(b) <= s[1]
      BY <1>4, <1>5, <1>15, <1>20, <2>1
    <3> QED BY <3>1, SMT
  <2>3. \A z \in c.offset .. s[1] - 1 : z \in dropped
    <3>1. c.offset \in Int /\ c.at \in Int /\ s[1] \in Int
      BY <1>5, <1>15
    <3>2. \A z \in c.offset .. s[1] - 1 : z \in c.offset .. c.at - 1 \/ z \in c.at .. s[1] - 1
      BY <3>1, SMT
    <3> QED BY <1>22, <2>1, <3>2
  <2> QED BY <2>2, <2>3
<1>29. s[1] <= hw + 1
  BY <1>5, <1>15, SMT
<1>30. CommittedOK(d)
  BY <1>1, <1>3, <1>24, <1>25, <1>26, <1>27, <1>28, <1>29 DEF CommittedOK
<1> QED BY <1>23, <1>30

\* syncHW.
LEMMA SyncOK ==
  ASSUME LogShape, NEW r \in Readers, CommittedOK(cr[r]), syncHW(r)
  PROVE  \E d : Becomes(r, d) /\ CommittedOK(d)
<1> DEFINE c == cr[r]
           h == clampHW(c.snap, c.raw)
<1>1. /\ c \in CommittedReader /\ AtStep(c) /\ c.raw <= hw /\ c.hw <= hw /\ (c.snap # {} => Walks(c))
  BY DEF CommittedOK
<1>2. bases \in SUBSET Base /\ bases # {}
  BY SnapNow DEF LogShape, List
<1>3. CASE c.pc = "sync" /\ Becomes(r, [c EXCEPT !.pc = "snapshot", !.raw = hw, !.snap = {}])
  BY <1>3, LimitOK
<1>4. CASE c.pc = "snapshot" /\ Becomes(r, [c EXCEPT !.pc = "clamp", !.snap = bases])
  <2> DEFINE d == [c EXCEPT !.pc = "clamp", !.snap = bases]
  <2>1. /\ d \in CommittedReader /\ d.pc = "clamp" /\ d.seg = c.seg /\ d.hwSeg = c.hwSeg /\ d.hw = c.hw
        /\ d.at = c.at /\ d.offset = c.offset /\ d.raw = c.raw /\ d.snap = bases /\ d.above = c.above
    BY <1>1, <1>2 DEF CommittedReader
  <2>2. Becomes(r, d)
    BY <1>4
  <2> HIDE DEF d
  <2>3. AtStep(d)
    BY <1>1, <1>2, <1>4, <2>1 DEF AtStep
  <2>4. CommittedOK(d)
    BY <1>1, <1>4, <2>1, <2>3, SamePlace
  <2> QED BY <2>2, <2>4
<1>5. CASE c.pc = "clamp" /\ h # c.hw /\ Becomes(r, [c EXCEPT !.pc = "locate"])
  <2> DEFINE d == [c EXCEPT !.pc = "locate"]
             e == End(Max(c.snap))
  <2>1. /\ d \in CommittedReader /\ d.pc = "locate" /\ d.seg = c.seg /\ d.hwSeg = c.hwSeg /\ d.hw = c.hw
        /\ d.at = c.at /\ d.offset = c.offset /\ d.raw = c.raw /\ d.snap = c.snap /\ d.above = c.above
    BY <1>1 DEF CommittedReader
  <2>2. Becomes(r, d)
    BY <1>5
  <2> HIDE DEF d
  <2>3. c.snap # {} /\ SnapOK(c.snap) /\ c.hw < e /\ c.hw <= c.raw /\ c.raw \in Offset \cup {-1}
    BY <1>1, <1>5 DEF AtStep, Walks, CommittedReader
  <2>4. h <= c.raw /\ h < e /\ (h = c.raw \/ h = e - 1) /\ h \in Offset \cup {-1}
    BY <1>1, <2>3, ClampIs
  <2>5. c.hw \in Int /\ c.raw \in Int /\ e \in Int
    BY <1>1, <2>3, ReaderNumbers, SnapEnds, Numbers
  <2>6. h \in Int
    BY <2>4, ReadersAssumption, SMT DEF Offset
  <2> HIDE DEF h, e
  <2>7. c.hw < c.raw /\ c.hw + 1 < e
    BY <1>5, <2>3, <2>4, <2>5, <2>6, SMT
  <2>8. AtStep(d)
    BY <1>1, <1>5, <2>1, <2>3, <2>7 DEF AtStep, e
  <2>9. CommittedOK(d)
    BY <1>1, <1>5, <2>1, <2>8, SamePlace
  <2> QED BY <2>2, <2>9
<1>6. CASE c.pc = "clamp" /\ Becomes(r, AtBound(r))
  <2>1. CASE AtBound(r) = Leaves(c, "ended")
    BY <1>6, <2>1, WaitLeavesOK
  <2>2. CASE AtBound(r) = [c EXCEPT !.pc = "register", !.snap = {}]
    <3> DEFINE d == [c EXCEPT !.pc = "register", !.snap = {}]
    <3>1. /\ d \in CommittedReader /\ d.pc = "register" /\ d.seg = c.seg /\ d.hwSeg = c.hwSeg /\ d.hw = c.hw
          /\ d.at = c.at /\ d.offset = c.offset /\ d.raw = c.raw /\ d.snap = {} /\ d.above = c.above
      BY <1>1 DEF CommittedReader
    <3>2. Becomes(r, d)
      BY <1>6, <2>2
    <3> HIDE DEF d
    <3>3. AtStep(d)
      BY <1>1, <1>6, <3>1 DEF AtStep
    <3>4. CommittedOK(d)
      BY <1>1, <1>6, <3>1, <3>3, SamePlace
    <3> QED BY <3>2, <3>4
  <2> QED BY <2>1, <2>2 DEF AtBound
<1> QED BY <1>3, <1>4, <1>5, <1>6 DEF syncHW

\* A bound that has moved is located (getHWPos).
LEMMA LocateBoundOK ==
  ASSUME LogShape, DroppedBelow, NEW c, CommittedOK(c), c.pc = "locate"
  PROVE  LET h == clampHW(c.snap, c.raw)
             t == findSegment(c.snap, h)
         IN  t # None /\ CommittedOK([c EXCEPT !.pc = "locateHW", !.hw = h, !.hwSeg = t])
<1> DEFINE h == clampHW(c.snap, c.raw)
           t == findSegment(c.snap, h)
           e == End(Max(c.snap))
           d == [c EXCEPT !.pc = "locateHW", !.hw = h, !.hwSeg = t]
<1>1. /\ c \in CommittedReader /\ AtStep(c) /\ Served(c) /\ c.raw <= hw /\ c.hw <= hw /\ c.at <= hw + 1
      /\ c.snap # {} /\ SnapOK(c.snap) /\ c.hw < c.raw /\ c.hw + 1 < e
      /\ (c.hwSeg # None => HoldsBound(c.hwSeg, c.hw)) /\ (c.seg # None => InPlace(c))
  BY DEF CommittedOK, AtStep, Walks
<1>2. c.raw \in Offset \cup {-1}
  BY <1>1 DEF CommittedReader
<1>3. h \in Offset \cup {-1} /\ h <= hw /\ h < e /\ h < next /\ (h = c.raw \/ h = e - 1)
  BY <1>1, <1>2, ClampIs
<1>4. c.hw \in Int /\ c.raw \in Int /\ e \in Int /\ -1 <= c.hw
  BY <1>1, ReaderNumbers, SnapEnds, Numbers
<1>5. h \in Int
  BY <1>3, ReadersAssumption, SMT DEF Offset
<1> HIDE DEF h
<1>6. c.hw < h /\ h \in Nat /\ c.hw + 1 <= h
  <2> HIDE DEF e
  <2> QED BY <1>1, <1>3, <1>4, <1>5, SMT
<1>7. t # None /\ HoldsBound(t, h) /\ ~left(t) /\ t[1] \in c.snap
  BY <1>1, <1>3, <1>6, Locate
<1>8. Valid(t) /\ t \in Segment /\ t = current(t[1]) /\ t[1] \in bases
  BY <1>7 DEF HoldsBound, Valid, left
<1> HIDE DEF t
<1>9. /\ d \in CommittedReader /\ d.pc = "locateHW" /\ d.seg = c.seg /\ d.hwSeg = t /\ d.hw = h
      /\ d.at = c.at /\ d.offset = c.offset /\ d.raw = c.raw /\ d.snap = c.snap /\ d.above = c.above
  BY <1>1, <1>3, <1>8 DEF CommittedReader
<1> HIDE DEF d
<1>10. ASSUME c.seg # None
       PROVE  InPlace(d)
  <2>1. c.seg = c.hwSeg /\ InPlace(c) /\ HoldsBound(c.seg, c.hw) /\ Valid(c.seg)
    BY <1>1, <1>10 DEF AtStep, InPlace
  <2>2. c.seg[1] \in Int /\ t[1] \in Int
    BY <1>8, <2>1, LogNumbers DEF Valid
  <2>3. ~(t[1] < c.seg[1])
    <3> SUFFICES ASSUME t[1] < c.seg[1]
                 PROVE  FALSE
      OBVIOUS
    <3>1. From(t, c.hw) = {}
      BY <1>8, <2>1 DEF HoldsBound
    <3>2. PICK y \in Records(t) : y >= h
      BY <1>7 DEF HoldsBound, From
    <3>3. y \in Int
      BY <1>8, RecordsIn, Numbers
    <3>4. y >= c.hw
      <4>1. c.hw \in Int /\ h \in Int /\ y \in Int /\ c.hw < h /\ y >= h
        BY <1>4, <1>5, <1>6, <3>2, <3>3
      <4> QED BY <4>1, SMT
    <3> QED BY <3>1, <3>2, <3>4 DEF From
  <2>4. c.seg[1] < t[1] \/ c.seg[1] = t[1]
    BY <2>2, <2>3, SMT
  <2>5. c.seg[1] = t[1] /\ c.seg # t => left(c.seg)
    BY <1>8 DEF left
  <2> QED BY <1>7, <1>9, <2>1, <2>4, <2>5 DEF InPlace
<1>11. AtStep(d)
  BY <1>1, <1>6, <1>7, <1>9 DEF AtStep
<1>12. Served(d)
  BY <1>1, <1>9 DEF Served
<1>13. Walks(d)
  BY <1>1, <1>3, <1>7, <1>9 DEF Walks
<1>14. CommittedOK(d)
  BY <1>1, <1>3, <1>7, <1>9, <1>10, <1>11, <1>12, <1>13 DEF CommittedOK
<1> QED BY <1>7, <1>14 DEF d, t, h

\* Once its bound is located, a reader goes on from its place, or gets one.
LEMMA BoundLocatedOK ==
  ASSUME LogShape, DroppedBelow, NEW c, CommittedOK(c), c.pc = "locateHW", ~left(c.hwSeg)
  PROVE  LET s == findSegment(c.snap, c.at)
             placed == [c EXCEPT !.pc = "loop", !.raw = -1]
         IN  CommittedOK(IF c.seg # None THEN placed
                         ELSE [placed EXCEPT !.pc = IF s = None THEN "failed" ELSE "locateSeg",
                                             !.seg = s])
<1> DEFINE s == findSegment(c.snap, c.at)
           placed == [c EXCEPT !.pc = "loop", !.raw = -1]
<1>1. /\ c \in CommittedReader /\ AtStep(c) /\ Served(c) /\ c.hw <= hw /\ c.at <= hw + 1 /\ c.hw < next
      /\ c.snap # {} /\ Walks(c) /\ c.hwSeg # None /\ HoldsBound(c.hwSeg, c.hw)
      /\ (c.seg # None => InPlace(c)) /\ (c.seg = None => c.at <= c.hw)
  BY DEF CommittedOK, AtStep
<1>2. -1 <= hw /\ c.at \in Nat /\ c.at \in Int
  BY <1>1, LogNumbers, ReaderNumbers
<1>3. ASSUME c.seg # None
      PROVE  CommittedOK(placed)
  <2> DEFINE d == placed
  <2>1. /\ d \in CommittedReader /\ d.pc = "loop" /\ d.seg = c.seg /\ d.hwSeg = c.hwSeg /\ d.hw = c.hw
        /\ d.at = c.at /\ d.offset = c.offset /\ d.raw = -1 /\ d.snap = c.snap /\ d.above = c.above
    BY <1>1 DEF CommittedReader
  <2> HIDE DEF placed
  <2>2. InPlace(d)
    BY <1>1, <1>3, <2>1 DEF InPlace
  <2>3. AtStep(d) /\ Served(d)
    BY <1>1, <1>3, <2>1 DEF AtStep, Served
  <2>4. Walks(d)
    BY <1>1, <2>1 DEF Walks
  <2> QED BY <1>1, <1>2, <2>1, <2>2, <2>3, <2>4 DEF CommittedOK
<1>4. ASSUME c.seg = None
      PROVE  s # None /\ CommittedOK([placed EXCEPT !.pc = "locateSeg", !.seg = s])
  <2> DEFINE d == [placed EXCEPT !.pc = "locateSeg", !.seg = s]
  <2>1. /\ s # None /\ Valid(s) /\ ~left(s) /\ (s = c.hwSeg \/ s[1] < c.hwSeg[1])
        /\ From(s, c.at) # {} /\ c.at < End(s[1]) /\ c.at .. s[1] - 1 \subseteq dropped
    BY <1>1, <1>2, <1>4, FoundPlace
  <2>2. s \in Segment /\ s[1] \in bases
    BY <2>1 DEF Valid
  <2> HIDE DEF s
  <2>3. c.at <= End(s[1])
    BY <1>2, <2>1, <2>2, LogNumbers, SMT
  <2>4. /\ d \in CommittedReader /\ d.pc = "locateSeg" /\ d.seg = s /\ d.hwSeg = c.hwSeg /\ d.hw = c.hw
        /\ d.at = c.at /\ d.offset = c.offset /\ d.raw = -1 /\ d.snap = c.snap /\ d.above = c.above
    BY <1>1, <2>2 DEF CommittedReader
  <2> HIDE DEF d
  <2>5. InPlace(d)
    BY <1>1, <2>1, <2>3, <2>4 DEF InPlace
  <2>6. AtStep(d) /\ Served(d)
    BY <1>1, <2>1, <2>4 DEF AtStep, Served
  <2>7. Walks(d)
    BY <1>1, <2>4 DEF Walks
  <2>8. CommittedOK(d)
    BY <1>1, <1>2, <2>4, <2>5, <2>6, <2>7 DEF CommittedOK
  <2> QED BY <2>1, <2>8 DEF d
<1> HIDE DEF s, placed
<1>5. CASE c.seg # None
  BY <1>3, <1>5 DEF placed
<1>6. CASE c.seg = None
  BY <1>4, <1>6 DEF s, placed
<1> QED BY <1>5, <1>6

\* getHWPos.
LEMMA GetHWPosOK ==
  ASSUME LogShape, DroppedBelow, NEW r \in Readers, CommittedOK(cr[r]), getHWPos(r)
  PROVE  \E d : Becomes(r, d) /\ CommittedOK(d)
<1> DEFINE c == cr[r]
           h == clampHW(c.snap, c.raw)
           t == findSegment(c.snap, h)
           s == findSegment(c.snap, c.at)
           placed == [c EXCEPT !.pc = "loop", !.raw = -1]
           new == IF c.seg # None THEN placed
                  ELSE [placed EXCEPT !.pc = IF s = None THEN "failed" ELSE "locateSeg", !.seg = s]
<1>1. c \in CommittedReader /\ AtStep(c) /\ (c.hwSeg # None => HoldsBound(c.hwSeg, c.hw))
  BY DEF CommittedOK
<1>2. CASE /\ c.pc = "locate"
           /\ Becomes(r, [c EXCEPT !.pc = IF t = None THEN "failed" ELSE "locateHW", !.hw = h, !.hwSeg = t])
  <2>1. t # None /\ CommittedOK([c EXCEPT !.pc = "locateHW", !.hw = h, !.hwSeg = t])
    BY <1>2, LocateBoundOK
  <2> HIDE DEF t, h
  <2> QED BY <1>2, <2>1
<1>3. CASE c.pc = "locateHW" /\ Becomes(r, findEntry(r, c.hwSeg, c.hw, new))
  <2>1. From(c.hwSeg, c.hw) # {}
    BY <1>1, <1>3 DEF AtStep, HoldsBound
  <2>2. ~Unreadable(c.hwSeg) => CommittedOK(new)
    BY <1>3, BoundLocatedOK DEF Unreadable
  <2> HIDE DEF new
  <2> QED BY <1>3, <2>1, <2>2, FindEntryOK
<1>4. CASE c.pc = "locateSeg" /\ Becomes(r, findEntry(r, c.seg, c.at, placed))
  <2>1. From(c.seg, c.at) # {} /\ c.seg # None /\ c.snap # {}
    BY <1>1, <1>4 DEF AtStep
  <2> DEFINE d == placed
  <2>2. /\ d \in CommittedReader /\ d.pc = "loop" /\ d.seg = c.seg /\ d.hwSeg = c.hwSeg /\ d.hw = c.hw
        /\ d.at = c.at /\ d.offset = c.offset /\ d.raw = -1 /\ d.snap = c.snap /\ d.above = c.above
    BY <1>1 DEF CommittedReader
  <2> HIDE DEF placed
  <2>3. AtStep(d)
    BY <2>1, <2>2 DEF AtStep
  <2>4. -1 <= hw
    BY LogNumbers
  <2>5. CommittedOK(d)
    BY <1>4, <2>2, <2>3, <2>4, SamePlace
  <2> QED BY <1>4, <2>1, <2>5, FindEntryOK
<1> QED BY <1>2, <1>3, <1>4 DEF getHWPos

\* A wait begins, is not needed, or ends (waitForHW, Cancel).
LEMMA WaitOK ==
  ASSUME LogShape, NEW c, CommittedOK(c),
         NEW d \in CommittedReader, d.seg = c.seg, d.hwSeg = c.hwSeg, d.hw = c.hw, d.at = c.at,
         d.offset = c.offset, d.above = c.above, d.snap = c.snap, d.raw = c.raw \/ d.raw = -1,
         \/ c.pc = "register" /\ d.pc \in {"sync", "parked"}
         \/ c.pc = "parked" /\ d.pc \in {"sync", "read"}
  PROVE  CommittedOK(d)
<1>1. AtStep(c) /\ c.raw <= hw
  BY DEF CommittedOK
<1>2. d.raw <= hw
  BY <1>1, LogNumbers
<1>3. AtStep(d)
  BY <1>1 DEF AtStep
<1> QED BY <1>2, <1>3, SamePlace

\* waitForHW, HangUp and Cancel.
LEMMA WaitForHWOK ==
  ASSUME LogShape, NEW r \in Readers, CommittedOK(cr[r]), waitForHW(r) \/ HangUp(r) \/ Cancel(r)
  PROVE  \E d : Becomes(r, d) /\ CommittedOK(d)
<1> DEFINE c == cr[r]
<1>1. c \in CommittedReader
  BY DEF CommittedOK
<1>2. ASSUME c.pc = "register", NEW p \in {"sync", "parked"}, Becomes(r, [c EXCEPT !.pc = p])
      PROVE  \E d : Becomes(r, d) /\ CommittedOK(d)
  <2> DEFINE d == [c EXCEPT !.pc = p]
  <2>1. /\ d \in CommittedReader /\ d.pc = p /\ d.seg = c.seg /\ d.hwSeg = c.hwSeg /\ d.hw = c.hw
        /\ d.at = c.at /\ d.offset = c.offset /\ d.raw = c.raw /\ d.snap = c.snap /\ d.above = c.above
    BY <1>1, <1>2 DEF CommittedReader
  <2>2. Becomes(r, d)
    BY <1>2
  <2> HIDE DEF d
  <2> QED BY <1>2, <2>1, <2>2, WaitOK
<1>3. CASE c.pc = "parked" /\ Becomes(r, [c EXCEPT !.pc = "read", !.raw = -1])
  <2> DEFINE d == [c EXCEPT !.pc = "read", !.raw = -1]
  <2>1. /\ d \in CommittedReader /\ d.pc = "read" /\ d.seg = c.seg /\ d.hwSeg = c.hwSeg /\ d.hw = c.hw
        /\ d.at = c.at /\ d.offset = c.offset /\ d.raw = -1 /\ d.snap = c.snap /\ d.above = c.above
    BY <1>1 DEF CommittedReader
  <2>2. Becomes(r, d)
    BY <1>3
  <2> HIDE DEF d
  <2> QED BY <1>3, <2>1, <2>2, WaitOK
<1>4. CASE \/ c.pc = "register" /\ Becomes(r, Leaves(c, "readonly"))
           \/ Becomes(r, Leaves(c, "closed"))
  BY <1>4, WaitLeavesOK
<1> QED BY <1>2, <1>3, <1>4 DEF waitForHW, HangUp, Cancel

\* Every step of a committed reader leads to a state it may be in.
LEMMA CommittedStepOK ==
  ASSUME LogShape, DroppedBelow, NEW r \in Readers, CommittedOK(cr[r]),
         \/ \E o \in Base, f \in BOOLEAN : NewReader(r, o, f)
         \/ CommittedStep(r) \/ Cancel(r)
  PROVE  \E d : Becomes(r, d) /\ CommittedOK(d)
<1>1. CASE \E o \in Base, f \in BOOLEAN : NewReader(r, o, f)
  BY <1>1, NewReaderOK
<1>2. CASE newReaderCommitted(r) \/ Position(r) \/ PositionSegment(r)
  BY <1>2, NewReaderCommittedOK, PositionOK, PositionSegmentOK
<1>3. CASE Read(r) \/ readLoop(r) \/ Advance(r)
  BY <1>3, ReadOK, ReadLoopOK, AdvanceOK
<1>4. CASE syncHW(r) \/ getHWPos(r)
  BY <1>4, SyncOK, GetHWPosOK
<1>5. CASE waitForHW(r) \/ HangUp(r) \/ Cancel(r)
  BY <1>5, WaitForHWOK
<1> QED BY <1>1, <1>2, <1>3, <1>4, <1>5 DEF CommittedStep

-----------------------------------------------------------------------------
(* Committed readers: the theorems.                                        *)

\* Where the watermark does not move back it stays above what was dropped.
LEMMA DroppedStep ==
  ASSUME Quiet, LogShape, DroppedBelow, [Next]_vars
  PROVE  DroppedBelow' /\ hw <= hw'
<1>1. hw \in Int /\ next \in Int /\ dropped \in SUBSET Int
  BY LogNumbers, Numbers DEF LogShape
<1>2. /\ \A o \in dropped : o < hw
      /\ dropped # {} => May("compact")
      /\ May("compact") => hw < next
  BY DEF DroppedBelow
<1>3. hw <= hw
  BY <1>1, SMT
<1>4. CASE split
  BY <1>2, <1>3, <1>4 DEF split, DroppedBelow, May
<1>5. CASE WriteMessageSet
  <2>1. next' = next + 1 /\ dropped' = dropped /\ hw' = hw /\ setting' = setting
    BY <1>5 DEF WriteMessageSet
  <2>2. hw < next => hw < next + 1
    BY <1>1, SMT
  <2> QED BY <1>2, <1>3, <2>1, <2>2 DEF DroppedBelow, May
<1>6. ASSUME NEW b \in bases, NEW D \in SUBSET Records(<< b, 0 >>), Replace(b, D)
      PROVE  DroppedBelow' /\ hw <= hw'
  <2>1. /\ May("compact") /\ (\A o \in D : o < hw) /\ dropped' = dropped \cup D
        /\ next' = next /\ hw' = hw /\ setting' = setting
    BY <1>6 DEF Replace
  <2> QED BY <1>2, <1>3, <2>1 DEF DroppedBelow, May
<1>7. CASE Still /\ hw' = hw
  BY <1>2, <1>3, <1>7 DEF Still, DroppedBelow, May
<1>8. ASSUME Still, NEW h \in Offset, SetHighWatermark(h)
      PROVE  DroppedBelow' /\ hw <= hw'
  <2>1. hw' = h /\ h > hw /\ h <= (IF May("lead") THEN next ELSE NewestOffset)
    BY <1>8 DEF SetHighWatermark, Sets, Quiet
  <2>2. dropped' = dropped /\ next' = next /\ setting' = setting
    BY <1>8 DEF Still
  <2>3. h \in Int
    BY Numbers
  <2>4. hw <= hw' /\ \A o \in dropped : o < hw'
    BY <1>1, <1>2, <2>1, <2>3, SMT
  <2>5. May("compact") => hw' < next
    <3>1. ASSUME May("compact")
          PROVE  h <= next - 1
      BY <2>1, <3>1 DEF Quiet, NewestOffset
    <3> QED BY <1>1, <2>1, <2>3, <3>1, SMT
  <2> QED BY <1>2, <2>2, <2>4, <2>5 DEF DroppedBelow, May
<1> QED BY <1>4, <1>5, <1>6, <1>7, <1>8, Kinds

\* A step that rewrites no segment keeps a reader's place, whether it moves the reader
\* or not, as long as the reader is where it may be.
LEMMA CommittedSteps ==
  ASSUME LogShape, LogShape', DroppedBelow', Grows, hw <= hw', rewritten' = rewritten,
         cr' \in [Readers -> CommittedReader],
         \A q \in Readers : \A c : c = cr'[q] => CommittedOK(c)
  PROVE  CommittedInv'
<1>1. ASSUME NEW q \in Readers, NEW c, c = cr'[q]
      PROVE  CommittedOK(c)'
  <2>1. CommittedOK(c)
    BY <1>1
  <2>2. \A b \in rewritten' \ rewritten : b \in bases /\ b # activeSegment /\ ~Relies(c, << b, 0 >>)
    OBVIOUS
  <2> QED BY <2>1, <2>2, CommittedKeeps
<1>2. \A q \in Readers : CommittedOK(cr[q])'
  BY <1>1
<1> QED BY <1>2 DEF CommittedInv

\* The watermark wakes the readers that are parked, and so may SetReadonly.
LEMMA WokenOK ==
  ASSUME LogShape, CommittedInv, NEW q \in Readers, NEW c,
         c = notifyHWChange[q] \/ c = ToldReadonly[q] \/ c = cr[q]
  PROVE  CommittedOK(c) /\ c \in CommittedReader
<1> DEFINE a == cr[q]
<1>1. a \in CommittedReader /\ CommittedOK(a)
  BY DEF CommittedInv
<1>2. CASE c = a
  BY <1>1, <1>2
<1>3. CASE a.pc = "parked" /\ c = [a EXCEPT !.pc = "sync"]
  <2>1. /\ c \in CommittedReader /\ c.pc = "sync" /\ c.seg = a.seg /\ c.hwSeg = a.hwSeg /\ c.hw = a.hw
        /\ c.at = a.at /\ c.offset = a.offset /\ c.raw = a.raw /\ c.snap = a.snap /\ c.above = a.above
    BY <1>1, <1>3 DEF CommittedReader
  <2> QED BY <1>1, <1>3, <2>1, WaitOK
<1>4. CASE a.pc = "parked" /\ c = Leaves(a, "readonly")
  <2>1. CommittedOK(c)
    BY <1>1, <1>4, WaitLeavesOK
  <2> QED BY <2>1 DEF CommittedOK
<1> QED BY <1>2, <1>3, <1>4 DEF notifyHWChange, ToldReadonly

\* A rewrite is not under a reader that relies on the segment.
LEMMA CommittedReplace ==
  ASSUME Quiet, LogShape, LogShape', DroppedBelow', Grows, hw <= hw', CommittedInv,
         NEW b \in bases, NEW D \in SUBSET Records(<< b, 0 >>), Replace(b, D)
  PROVE  CommittedInv'
<1>1. /\ cr' = cr /\ rewritten' = rewritten \cup {b} /\ b \notin rewritten /\ b # activeSegment
      /\ ~Relied(current(b))
  BY DEF Replace, Sealed, Quiet
<1>2. current(b) = << b, 0 >>
  BY <1>1, CurrentIs
<1>3. ASSUME NEW q \in Readers, NEW c, c = cr[q]
      PROVE  CommittedOK(c)'
  <2>1. CommittedOK(c)
    BY <1>3 DEF CommittedInv
  <2>2. ~Relies(c, << b, 0 >>)
    BY <1>1, <1>2, <1>3 DEF Relied, Relies
  <2>3. \A x \in rewritten' \ rewritten : x \in bases /\ x # activeSegment /\ ~Relies(c, << x, 0 >>)
    BY <1>1, <2>2
  <2> QED BY <2>1, <2>3, CommittedKeeps
<1>4. \A q \in Readers : CommittedOK(cr[q])'
  BY <1>1, <1>3
<1> QED BY <1>1, <1>4 DEF CommittedInv

\* At the start no reader has been built.
LEMMA CommittedInit ==
  ASSUME Init
  PROVE  QuietInv
<1> DEFINE c == [pc |-> "new", offset |-> 0, above |-> FALSE, seg |-> None, at |-> 0, hw |-> -1,
                 hwSeg |-> None, raw |-> -1, snap |-> {}, follow |-> TRUE]
<1>1. cr = [r \in Readers |-> c] /\ dropped = {} /\ hw = -1 /\ next = 0
  BY DEF Init
<1>2. 0 \in Base /\ -1 <= -1 /\ -1 < 0 /\ 0 <= -1 + 1
  BY Numbers, SMT
<1>3. /\ c \in CommittedReader /\ c.pc = "new" /\ c.seg = None /\ c.hwSeg = None /\ c.raw = -1
      /\ c.hw = -1 /\ c.at = 0 /\ c.snap = {}
  BY <1>2 DEF CommittedReader
<1> HIDE DEF c
<1>4. AtStep(c) /\ Served(c)
  BY <1>3 DEF AtStep, Served
<1>5. CommittedOK(c)
  BY <1>1, <1>2, <1>3, <1>4 DEF CommittedOK
<1>6. DroppedBelow
  BY <1>1, <1>2 DEF DroppedBelow
<1> QED BY <1>1, <1>3, <1>5, <1>6, ShapeInit DEF QuietInv, CommittedInv

\* The steps that leave the committed readers alone or wake them.
LEMMA OtherSteps ==
  ASSUME [Next]_vars
  PROVE  \/ \E r \in Readers : \/ \E o \in Base, f \in BOOLEAN : NewReader(r, o, f)
                               \/ CommittedStep(r) \/ Cancel(r)
         \/ \E b \in bases : \E D \in SUBSET Records(<< b, 0 >>) : Replace(b, D)
         \/ rewritten' = rewritten /\ (cr' = cr \/ cr' = notifyHWChange \/ cr' = ToldReadonly)
<1> DEFINE Goal == rewritten' = rewritten /\ (cr' = cr \/ cr' = notifyHWChange \/ cr' = ToldReadonly)
<1>1. CASE split \/ Seal \/ WriteMessageSet \/ appendWith
  BY <1>1 DEF split, Seal, WriteMessageSet, appendWith, WokenByAppend
<1>2. CASE SetReadonly \/ SetReadonlyNotify \/ Close \/ \E h \in Offset : SetHighWatermark(h)
  BY <1>2 DEF SetReadonly, SetReadonlyNotify, Close, SetHighWatermark, notifyReadonly, log
<1>3. ASSUME NEW r \in Readers, NEW new, Goes(r, new)
      PROVE  Goal
  BY <1>3 DEF Goes, log
<1>4. ASSUME NEW r \in Readers, UncommittedStep(r) \/ CancelUncommitted(r)
      PROVE  Goal
  BY <1>3, <1>4 DEF UncommittedStep, newReaderUncommitted, ReadUncommitted, AdvanceUncommitted,
     waitForData, HangUpUncommitted, CancelUncommitted
<1>5. ASSUME NEW r \in Readers, NEW o \in Base, NEW f \in BOOLEAN, NewReaderUncommitted(r, o, f)
      PROVE  Goal
  BY <1>3, <1>5 DEF NewReaderUncommitted
<1>6. CASE NotifyLEO \/ WaitForLEO
  BY <1>6 DEF NotifyLEO, WaitForLEO, Waits, log
<1>7. CASE UNCHANGED vars
  BY <1>7 DEF vars, log
<1> HIDE DEF Goal
<1> QED
  <2>1. CASE Goal
    BY <2>1 DEF Goal
  <2> QED BY <1>1, <1>2, <1>4, <1>5, <1>6, <1>7, <2>1 DEF Next

\* Every step keeps QuietInv.
LEMMA CommittedNext ==
  ASSUME QuietInv, [Next]_vars
  PROVE  QuietInv'
<1>1. LogShape /\ LogShape' /\ Grows
  BY ShapeStep, NextGrows DEF QuietInv
<1>2. setting' = setting
  <2>1. CASE Still
    BY <2>1 DEF Still
  <2> QED BY <2>1, Kinds DEF split, WriteMessageSet, Replace
<1> SUFFICES ASSUME Quiet
             PROVE  CommittedInv'
  BY <1>1, <1>2 DEF QuietInv, Quiet, May
<1>3. CommittedInv /\ DroppedBelow
  BY DEF QuietInv, CommittedInv
<1>4. DroppedBelow' /\ hw <= hw'
  BY <1>1, <1>3, DroppedStep
<1>5. cr \in [Readers -> CommittedReader] /\ \A q \in Readers : CommittedOK(cr[q])
  BY <1>3 DEF CommittedInv
<1>6. ASSUME NEW r \in Readers,
             \/ \E o \in Base, f \in BOOLEAN : NewReader(r, o, f)
             \/ CommittedStep(r) \/ Cancel(r)
      PROVE  CommittedInv'
  <2>1. CommittedOK(cr[r])
    BY <1>5
  <2>2. PICK d : Becomes(r, d) /\ CommittedOK(d)
    BY <1>1, <1>3, <1>6, <2>1, CommittedStepOK
  <2>3. cr' = [cr EXCEPT ![r] = d] /\ rewritten' = rewritten
    BY <2>2 DEF Becomes, log
  <2>4. d \in CommittedReader
    BY <2>2 DEF CommittedOK
  <2>5. cr' \in [Readers -> CommittedReader] /\ \A q \in Readers : \A c : c = cr'[q] => CommittedOK(c)
    BY <1>5, <2>2, <2>3, <2>4
  <2> QED BY <1>1, <1>4, <2>3, <2>5, CommittedSteps
<1>7. ASSUME NEW b \in bases, NEW D \in SUBSET Records(<< b, 0 >>), Replace(b, D)
      PROVE  CommittedInv'
  BY <1>1, <1>3, <1>4, <1>7, CommittedReplace
<1>8. CASE rewritten' = rewritten /\ (cr' = cr \/ cr' = notifyHWChange \/ cr' = ToldReadonly)
  <2>1. ASSUME NEW q \in Readers, NEW c, c = cr'[q]
        PROVE  CommittedOK(c) /\ c \in CommittedReader
    BY <1>1, <1>3, <1>8, <2>1, WokenOK
  <2>2. cr' \in [Readers -> CommittedReader]
    <3>1. \E f : cr' = [q \in Readers |-> f[q]]
      BY <1>5, <1>8 DEF notifyHWChange, ToldReadonly
    <3> QED BY <2>1, <3>1
  <2> QED BY <1>1, <1>4, <1>8, <2>1, <2>2, CommittedSteps
<1> QED BY <1>6, <1>7, <1>8, OtherSteps

\* The record a reader serves next skips only what was dropped.
LEMMA NextServed ==
  ASSUME LogShape, NEW c, CommittedOK(c), c.pc = "loop", ~c.above, From(c.seg, c.at) # {}
  PROVE  c.offset .. Min(From(c.seg, c.at)) - 1 \subseteq dropped
<1> DEFINE rest == From(c.seg, c.at)
           b == c.seg[1]
           x == Min(rest)
<1>1. c.seg # None /\ InPlace(c) /\ c \in CommittedReader /\ Served(c)
  BY DEF CommittedOK, AtStep
<1>2. Valid(c.seg) /\ c.at .. b - 1 \subseteq dropped
  BY <1>1 DEF InPlace
<1>3. b \in bases /\ b \in Int /\ End(b) \in Int /\ c.at \in Int /\ c.offset \in Int
  BY <1>1, <1>2, LogNumbers, ReaderNumbers DEF Valid
<1>4. Records(c.seg) \in SUBSET Offset /\ \A z \in Records(c.seg) : b <= z /\ z < End(b)
  BY <1>3, RecordsIn
<1>5. rest \in SUBSET Base /\ rest \subseteq Records(c.seg)
  BY <1>4, Numbers DEF From
<1>6. x \in rest /\ \A z \in rest : x <= z
  BY <1>5, BaseMin
<1>7. x \in Int /\ x < End(b)
  BY <1>4, <1>5, <1>6, Numbers
<1> HIDE DEF x
<1>8. c.offset <= c.at /\ c.offset .. c.at - 1 \subseteq dropped
  BY <1>1 DEF Served
<1>9. ASSUME NEW z \in c.offset .. x - 1
      PROVE  z \in dropped
  <2>1. z \in Int /\ c.offset <= z /\ z < x
    BY <1>3, <1>7, SMT
  <2>2. CASE z < c.at
    <3>1. z \in c.offset .. c.at - 1
      BY <1>3, <2>1, <2>2, SMT
    <3> QED BY <1>8, <3>1
  <2>3. CASE c.at <= z /\ z < b
    <3>1. z \in c.at .. b - 1
      BY <1>3, <2>1, <2>3, SMT
    <3> QED BY <1>2, <3>1
  <2>4. CASE c.at <= z /\ b <= z
    <3>1. z \in b .. End(b) - 1 /\ z >= c.at /\ ~(x <= z)
      <4>1. b \in Int /\ End(b) \in Int /\ c.at \in Int /\ x \in Int /\ x < End(b)
        BY <1>3, <1>7
      <4> QED BY <2>1, <2>4, <4>1, SMT
    <3>2. z \notin Records(c.seg)
      BY <1>6, <3>1 DEF From
    <3> QED BY <3>1, <3>2 DEF Records
  <2>5. b \in Int /\ c.at \in Int /\ z \in Int
    BY <1>3, <2>1
  <2>6. z < c.at \/ (c.at <= z /\ z < b) \/ (c.at <= z /\ b <= z)
    BY <2>5, SMT
  <2> QED BY <2>2, <2>3, <2>4, <2>6
<1> QED BY <1>9 DEF x

\* For any readers, offsets and settings in which no watermark moves back and compaction
\* keeps off the segments that readers rely on: no reader serves a record above the
\* watermark, although it is limited only in the segment of its bound and goes through
\* rolls and rewrites, and however far the watermark leads the tail (reader.go, readLoop,
\* syncHW, clampHW).
THEOREM ReadersServeOnlyCommitted == Spec => [](Quiet => ServesOnlyCommitted)
<1>1. QuietInv => (Quiet => ServesOnlyCommitted)
  BY DEF QuietInv, CommittedInv, CommittedOK, ServesOnlyCommitted
<1> QED BY <1>1, CommittedInit, CommittedNext, PTL DEF Spec

\* In the same settings every lookup finds its record, and a committed reader skips no
\* record that was kept, at the end of a segment and when it is built anew (reader.go,
\* readLoop, findSegmentAfter, readOne).
THEOREM CommittedReadersSkipNothing == Spec => [](Quiet => CommittedInOrder)
<1>1. QuietInv => (Quiet => CommittedInOrder)
  <2> SUFFICES ASSUME LogShape, CommittedInv, NEW r \in Readers
               PROVE  /\ cr[r].pc # "failed"
                      /\ Built(r) /\ ~cr[r].above => /\ cr[r].offset <= cr[r].at
                                                     /\ cr[r].offset .. cr[r].at - 1 \subseteq dropped
                      /\ cr[r].pc = "loop" /\ ~cr[r].above /\ From(cr[r].seg, cr[r].at) # {} =>
                           cr[r].offset .. Min(From(cr[r].seg, cr[r].at)) - 1 \subseteq dropped
    BY DEF QuietInv, CommittedInOrder
  <2>1. CommittedOK(cr[r])
    BY DEF CommittedInv
  <2>2. cr[r].pc # "failed"
    BY <2>1 DEF CommittedOK, AtStep
  <2>3. Built(r) /\ ~cr[r].above => /\ cr[r].offset <= cr[r].at
                                   /\ cr[r].offset .. cr[r].at - 1 \subseteq dropped
    BY <2>1 DEF CommittedOK, Served, Built
  <2> QED BY <2>1, <2>2, <2>3, NextServed
<1> QED BY <1>1, CommittedInit, CommittedNext, PTL DEF Spec
=============================================================================

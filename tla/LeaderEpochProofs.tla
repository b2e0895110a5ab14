------------------------- MODULE LeaderEpochProofs -------------------------
(***************************************************************************)
(* Proofs about LeaderEpoch, for every number of epochs and offsets: what  *)
(* holds with every situation allowed, and, in the plain protocol, where   *)
(* nothing fails and no call races another, that the history is exact.     *)
(***************************************************************************)
EXTENDS LeaderEpoch, TLAPS

\* Leaves are first-order unless they cite SMT, which those with arithmetic do.
USE Zenon

\* Every record of R above an entry's anchor was written in its epoch or a
\* later one: the half of an entry's meaning that nothing the code does breaks.
Shared(c, R) == \A e \in DOMAIN c : \A o \in DOMAIN R : o > c[e] => R[o] >= e

Good(c, R, t) ==
  /\ c \in History(Epoch, Anchor)
  /\ Ascends(c)
  /\ Shared(c, R)
  /\ \A e \in DOMAIN c : e <= t

\* The inductive invariant.  The checkpoint file and the Assigns still owed
\* will each reach the cache, so they satisfy what the cache must.
IInv ==
  /\ TypeOK
  /\ \A b \in bases : b <= active
  /\ active <= next
  /\ \A o \in DOMAIN recs : o < next
  /\ Good(cache, recs, term)
  /\ Good(file, recs, term)
  /\ Good(electing, recs, term)
  /\ Good(pending, recs, term)

(***************************************************************************)
(* Partial functions.                                                      *)
(***************************************************************************)
\* History(S, T) is the set of functions from a subset of S into T.
LEMMA HistoryMember ==
  ASSUME NEW S, NEW T, NEW D \in SUBSET S, NEW f \in [D -> T]
  PROVE  f \in History(S, T)
BY DEF History

\* A history has its entries in the two sets.
LEMMA HistoryElim ==
  ASSUME NEW S, NEW T, NEW f \in History(S, T)
  PROVE  /\ DOMAIN f \subseteq S
         /\ f = [x \in DOMAIN f |-> f[x]]
         /\ \A x \in DOMAIN f : f[x] \in T
BY DEF History

\* Anchors are integers.
LEMMA AnchorInt == Anchor \subseteq Int
BY EpochAssumption, SMT DEF Anchor

\* The anchors of a history are integers, and so are its epochs.
LEMMA HistoryAnchors ==
  ASSUME NEW c \in History(Epoch, Anchor)
  PROVE  \A e \in DOMAIN c : e \in Int /\ c[e] \in Int
<1>1. DOMAIN c \subseteq Epoch /\ \A e \in DOMAIN c : c[e] \in Anchor
  BY HistoryElim
<1>2. Epoch \subseteq Int
  BY EpochAssumption, SMT DEF Epoch
<1> QED BY <1>1, <1>2, AnchorInt

\* The empty history is a history.
LEMMA NoEntriesFacts ==
  /\ DOMAIN NoEntries = {}
  /\ \A S, T : NoEntries \in History(S, T)
<1>1. DOMAIN NoEntries = {}
  BY DEF NoEntries
<1>2. ASSUME NEW S, NEW T PROVE NoEntries \in History(S, T)
  <2>1. NoEntries \in [{} -> T]
    BY DEF NoEntries
  <2> QED BY <2>1, HistoryMember
<1> QED BY <1>1, <1>2

\* Keeping part of a history is a history that agrees with it.
LEMMA KeepFacts ==
  ASSUME NEW c \in History(Epoch, Anchor), NEW D
  PROVE  /\ Keep(c, D) \in History(Epoch, Anchor)
         /\ DOMAIN Keep(c, D) = DOMAIN c \cap D
         /\ \A e \in DOMAIN c \cap D : Keep(c, D)[e] = c[e]
<1>1. /\ DOMAIN c \subseteq Epoch
      /\ \A x \in DOMAIN c : c[x] \in Anchor
  BY HistoryElim
<1>2. Keep(c, D) \in [DOMAIN c \cap D -> Anchor]
  BY <1>1 DEF Keep
<1>3. Keep(c, D) \in History(Epoch, Anchor)
  BY <1>1, <1>2, HistoryMember
<1> QED BY <1>3 DEF Keep

(***************************************************************************)
(* What the cache operations return.                                       *)
(***************************************************************************)
\* assign returns the entries it was given, or those and one above them.
LEMMA AssignFacts ==
  ASSUME NEW c \in History(Epoch, Anchor), NEW epoch \in Epoch,
         NEW offset \in Anchor, Ascends(c)
  PROVE  LET r == assign(c, epoch, offset)
         IN /\ r \in History(Epoch, Anchor)
            /\ Ascends(r)
            /\ DOMAIN r \subseteq DOMAIN c \cup {epoch}
            /\ \A e \in DOMAIN r : \/ e = epoch /\ r[e] = offset
                                   \/ e \in DOMAIN c /\ r[e] = c[e]
<1> DEFINE r == assign(c, epoch, offset)
<1>1. /\ DOMAIN c \subseteq Epoch
      /\ \A x \in DOMAIN c : c[x] \in Anchor
  BY HistoryElim
<1>2. CASE \A d \in DOMAIN c : d < epoch /\ c[d] <= offset
  <2>1. r = [e \in DOMAIN c \cup {epoch} |->
               IF e = epoch THEN offset ELSE c[e]]
    BY <1>2 DEF assign
  <2>2. r \in [DOMAIN c \cup {epoch} -> Anchor]
    BY <1>1, <2>1
  <2>3. r \in History(Epoch, Anchor)
    BY <1>1, <2>2, HistoryMember
  <2>4. Ascends(r)
    <3> SUFFICES ASSUME NEW d \in DOMAIN r, NEW e \in DOMAIN r, d < e
                 PROVE  r[d] <= r[e]
      BY DEF Ascends
    <3>1. d \in DOMAIN c \cup {epoch} /\ e \in DOMAIN c \cup {epoch}
      BY <2>1
    <3>2. d # epoch
      BY <1>1, <1>2, <3>1, SMT DEF Epoch
    <3>3. CASE e = epoch
      BY <1>2, <2>1, <3>1, <3>2, <3>3
    <3>4. CASE e # epoch
      BY <2>1, <3>1, <3>2, <3>4 DEF Ascends
    <3> QED BY <3>3, <3>4
  <2> QED BY <2>1, <2>3, <2>4
<1>3. CASE ~ \A d \in DOMAIN c : d < epoch /\ c[d] <= offset
  <2>1. r = c
    BY <1>3 DEF assign
  <2> QED BY <2>1
<1> QED BY <1>2, <1>3

\* r holds entries of c, moved up or left where they were.
Raised(r, c) ==
  DOMAIN r \subseteq DOMAIN c /\ \A e \in DOMAIN r : r[e] >= c[e]

\* ClearLatest drops entries and moves none down.
LEMMA ClearLatestFacts ==
  ASSUME NEW c \in History(Epoch, Anchor), NEW offset \in Int, Ascends(c)
  PROVE  LET r == ClearLatest(c, offset)
         IN r \in History(Epoch, Anchor) /\ Ascends(r) /\ Raised(r, c)
<1> DEFINE D == {e \in DOMAIN c : c[e] < offset}
           r == ClearLatest(c, offset)
<1>1. r = Keep(c, D)
  BY DEF ClearLatest
<1> HIDE DEF r, D
<1>2. /\ r \in History(Epoch, Anchor)
      /\ DOMAIN r = DOMAIN c \cap D
      /\ \A e \in DOMAIN c \cap D : r[e] = c[e]
  BY <1>1, KeepFacts
<1>3. \A e \in DOMAIN c : c[e] \in Int
  BY HistoryAnchors
<1>4. Ascends(r)
  BY <1>2 DEF Ascends
<1>5. Raised(r, c)
  BY <1>2, <1>3, SMT DEF Raised
<1> QED BY <1>2, <1>4, <1>5 DEF r

\* ClearEarliest drops entries and moves the one at the floor up.
LEMMA ClearEarliestFacts ==
  ASSUME NEW c \in History(Epoch, Anchor), NEW offset \in Anchor, Ascends(c)
  PROVE  LET r == ClearEarliest(c, offset)
         IN r \in History(Epoch, Anchor) /\ Ascends(r) /\ Raised(r, c)
<1> DEFINE removed == {e \in DOMAIN c : c[e] < offset}
           rest == DOMAIN c \ removed
           top == {e \in removed : \A d \in removed : d <= e}
           r == ClearEarliest(c, offset)
<1>1. /\ DOMAIN c \subseteq Epoch
      /\ \A e \in DOMAIN c : c[e] \in Anchor
  BY HistoryElim
<1>2. offset \in Int /\ \A e \in DOMAIN c : c[e] \in Int
  BY AnchorInt, HistoryAnchors
<1>3. CASE offset <= 0 \/ removed = {}
  <2>1. r = c
    BY <1>3 DEF ClearEarliest
  <2> QED BY <1>2, <2>1, SMT DEF Raised
<1>4. CASE ~(offset <= 0 \/ removed = {}) /\ \E e \in rest : c[e] = offset
  <2>1. r = Keep(c, rest)
    BY <1>4 DEF ClearEarliest
  <2> HIDE DEF r, rest
  <2>2. /\ r \in History(Epoch, Anchor)
        /\ DOMAIN r = DOMAIN c \cap rest
        /\ \A e \in DOMAIN c \cap rest : r[e] = c[e]
    BY <2>1, KeepFacts
  <2>3. Ascends(r)
    BY <2>2 DEF Ascends
  <2>4. Raised(r, c)
    BY <1>2, <2>2, SMT DEF Raised
  <2> QED BY <2>2, <2>3, <2>4 DEF r
<1>5. CASE ~(offset <= 0 \/ removed = {}) /\ ~ \E e \in rest : c[e] = offset
  <2>1. r = [e \in rest \cup top |-> IF e \in rest THEN c[e] ELSE offset]
    BY <1>5 DEF ClearEarliest
  <2>2. rest \cup top \subseteq Epoch
    BY <1>1
  <2>3. r \in [rest \cup top -> Anchor]
    BY <1>1, <2>1
  <2>4. r \in History(Epoch, Anchor)
    BY <2>2, <2>3, HistoryMember
  <2>5. \A e \in rest : c[e] >= offset
    BY <1>2, SMT
  <2>6. Ascends(r)
    <3> SUFFICES ASSUME NEW d \in DOMAIN r, NEW e \in DOMAIN r, d < e
                 PROVE  r[d] <= r[e]
      BY DEF Ascends
    <3>1. d \in rest \cup top /\ e \in rest \cup top
      BY <2>1
    <3>2. CASE d \in rest /\ e \in rest
      BY <2>1, <3>1, <3>2 DEF Ascends
    <3>3. CASE d \notin rest /\ e \in rest
      BY <2>1, <2>5, <1>2, <3>1, <3>3
    <3>4. CASE d \notin rest /\ e \notin rest
      BY <2>1, <1>2, <3>1, <3>4, SMT
    <3>5. CASE d \in rest /\ e \notin rest
      <4>1. c[d] <= c[e] /\ c[e] < offset
        BY <3>1, <3>5 DEF Ascends
      <4> QED BY <1>2, <2>5, <3>1, <3>5, <4>1, SMT
    <3> QED BY <3>2, <3>3, <3>4, <3>5
  <2>7. Raised(r, c)
    <3>1. DOMAIN r = rest \cup top
      BY <2>1
    <3>2. ASSUME NEW e \in rest \cup top PROVE r[e] >= c[e]
      BY <1>2, <2>1, <3>2, SMT
    <3> QED BY <3>1, <3>2 DEF Raised
  <2> QED BY <2>4, <2>6, <2>7
<1> QED BY <1>3, <1>4, <1>5

(***************************************************************************)
(* How the parts of the invariant move.                                    *)
(***************************************************************************)
\* No entries are good against any records.
LEMMA GoodEmpty == \A R, t : Good(NoEntries, R, t)
BY NoEntriesFacts DEF Good, Ascends, Shared

\* Q keeps some of the records of R.
Within(Q, R) ==
  DOMAIN Q \subseteq DOMAIN R /\ \A o \in DOMAIN Q : Q[o] = R[o]

\* Removing records and moving anchors up keeps entries good.
LEMMA GoodRaised ==
  ASSUME NEW R \in History(Offset, Epoch), NEW Q, Within(Q, R),
         NEW t, NEW c, Good(c, R, t),
         NEW r \in History(Epoch, Anchor), Ascends(r), Raised(r, c)
  PROVE  Good(r, Q, t)
<1>1. /\ \A e \in DOMAIN c : e \in Int /\ c[e] \in Int
      /\ \A e \in DOMAIN r : e \in Int /\ r[e] \in Int
  BY HistoryAnchors DEF Good
<1>2. DOMAIN R \subseteq Offset /\ Offset \subseteq Int
  BY HistoryElim, EpochAssumption, SMT DEF Offset
<1>3. Shared(r, Q)
  <2> SUFFICES ASSUME NEW e \in DOMAIN r, NEW o \in DOMAIN Q, o > r[e]
               PROVE  Q[o] >= e
    BY DEF Shared
  <2>1. e \in DOMAIN c /\ r[e] >= c[e]
    BY DEF Raised
  <2>2. o \in DOMAIN R /\ Q[o] = R[o]
    BY DEF Within
  <2>3. o > c[e]
    <3>1. o \in Int /\ c[e] \in Int /\ r[e] \in Int
      BY <1>1, <1>2, <2>1, <2>2
    <3> QED BY <2>1, <3>1, SMT
  <2> QED BY <2>1, <2>2, <2>3 DEF Good, Shared
<1>4. \A e \in DOMAIN r : e <= t
  BY DEF Good, Raised
<1> QED BY <1>3, <1>4 DEF Good

\* Q adds to R only records of epoch t or later.
Grown(Q, R, t) ==
  \A o \in DOMAIN Q : (o \in DOMAIN R /\ Q[o] = R[o]) \/ Q[o] >= t

\* Appending keeps entries good.
LEMMA GoodGrown ==
  ASSUME NEW R, NEW Q \in History(Offset, Epoch), NEW t \in Epoch,
         NEW u \in Epoch, t <= u, Grown(Q, R, t), NEW c, Good(c, R, t)
  PROVE  Good(c, Q, u)
<1>1. \A e \in DOMAIN c : e \in Int /\ c[e] \in Int
  BY HistoryAnchors DEF Good
<1>2. \A o \in DOMAIN Q : Q[o] \in Epoch
  BY HistoryElim
<1>3. Epoch \subseteq Int
  BY EpochAssumption, SMT DEF Epoch
<1>4. Shared(c, Q)
  <2> SUFFICES ASSUME NEW e \in DOMAIN c, NEW o \in DOMAIN Q, o > c[e]
               PROVE  Q[o] >= e
    BY DEF Shared
  <2>1. CASE o \in DOMAIN R /\ Q[o] = R[o]
    BY <2>1 DEF Good, Shared
  <2>2. CASE Q[o] >= t
    <3>1. Q[o] \in Int /\ e \in Int /\ t \in Int
      BY <1>1, <1>2, <1>3
    <3>2. e <= t
      BY DEF Good
    <3> QED BY <2>2, <3>1, <3>2, SMT
  <2> QED BY <2>1, <2>2 DEF Grown
<1>5. \A e \in DOMAIN c : e <= u
  BY <1>1, <1>3, SMT DEF Good
<1> QED BY <1>4, <1>5 DEF Good

\* Making an owed Assign keeps the cache good.
LEMMA GoodAssign ==
  ASSUME NEW R, NEW t, NEW c, Good(c, R, t), NEW p, Good(p, R, t),
         NEW e \in DOMAIN p
  PROVE  Good(assign(c, e, p[e]), R, t)
<1> DEFINE r == assign(c, e, p[e])
<1>1. e \in Epoch /\ p[e] \in Anchor
  BY HistoryElim DEF Good
<1>2. /\ r \in History(Epoch, Anchor)
      /\ Ascends(r)
      /\ DOMAIN r \subseteq DOMAIN c \cup {e}
      /\ \A d \in DOMAIN r : \/ d = e /\ r[d] = p[e]
                             \/ d \in DOMAIN c /\ r[d] = c[d]
  BY <1>1, AssignFacts DEF Good
<1> HIDE DEF r
<1>3. Shared(r, R)
  BY <1>2 DEF Good, Shared
<1>4. \A d \in DOMAIN r : d <= t
  BY <1>2 DEF Good
<1> QED BY <1>2, <1>3, <1>4 DEF Good, r

\* Dropping entries keeps the others good.
LEMMA GoodKeep ==
  ASSUME NEW R \in History(Offset, Epoch), NEW t, NEW c, Good(c, R, t), NEW D
  PROVE  Good(Keep(c, D), R, t)
<1>1. /\ Keep(c, D) \in History(Epoch, Anchor)
      /\ DOMAIN Keep(c, D) = DOMAIN c \cap D
      /\ \A e \in DOMAIN c \cap D : Keep(c, D)[e] = c[e]
  BY KeepFacts DEF Good
<1>2. \A e \in DOMAIN c : c[e] \in Int
  BY HistoryAnchors DEF Good
<1>3. Ascends(Keep(c, D)) /\ Raised(Keep(c, D), c)
  BY <1>1, <1>2, SMT DEF Good, Ascends, Raised
<1>4. Within(R, R)
  BY DEF Within
<1> QED BY <1>1, <1>3, <1>4, GoodRaised

\* After a flush, successful or not, cache and file are both good.
LEMMA GoodFlush ==
  ASSUME NEW r, Flush(r), Good(r, recs', term'), Good(file, recs', term')
  PROVE  Good(cache', recs', term') /\ Good(file', recs', term')
BY DEF Flush, Flushed, FlushFails

\* The records left after a removal are a history within the old one.
LEMMA DropFacts ==
  ASSUME recs \in History(Offset, Epoch), NEW D
  PROVE  /\ Drop(D) \in History(Offset, Epoch)
         /\ Within(Drop(D), recs)
         /\ DOMAIN Drop(D) = DOMAIN recs \ D
<1>1. DOMAIN recs \subseteq Offset /\ \A o \in DOMAIN recs : recs[o] \in Epoch
  BY HistoryElim
<1>2. Drop(D) \in [DOMAIN recs \ D -> Epoch]
  BY <1>1 DEF Drop
<1>3. Drop(D) \in History(Offset, Epoch)
  BY <1>1, <1>2, HistoryMember
<1> QED BY <1>3 DEF Drop, Within

\* A trim of the cache keeps entries good against the records that are left.
LEMMA GoodTrim ==
  ASSUME recs \in History(Offset, Epoch), Within(recs', recs),
         NEW c, Good(c, recs, term), NEW offset \in Anchor
  PROVE  /\ Good(c, recs', term)
         /\ Good(ClearLatest(c, offset), recs', term)
         /\ Good(ClearEarliest(c, offset), recs', term)
<1>1. c \in History(Epoch, Anchor) /\ Ascends(c) /\ offset \in Int
  BY AnchorInt DEF Good
<1>2. Raised(c, c)
  BY <1>1, HistoryAnchors, SMT DEF Raised
<1>3. Good(c, recs', term)
  BY <1>1, <1>2, GoodRaised
<1>4. Good(ClearLatest(c, offset), recs', term)
  <2>1. /\ ClearLatest(c, offset) \in History(Epoch, Anchor)
        /\ Ascends(ClearLatest(c, offset))
        /\ Raised(ClearLatest(c, offset), c)
    BY <1>1, ClearLatestFacts
  <2> QED BY <2>1, GoodRaised
<1>5. Good(ClearEarliest(c, offset), recs', term)
  <2>1. /\ ClearEarliest(c, offset) \in History(Epoch, Anchor)
        /\ Ascends(ClearEarliest(c, offset))
        /\ Raised(ClearEarliest(c, offset), c)
    BY <1>1, ClearEarliestFacts
  <2> QED BY <2>1, GoodRaised
<1> QED BY <1>3, <1>4, <1>5

\* A new log satisfies the invariant.
LEMMA InitInv == Init => IInv
<1> SUFFICES ASSUME Init PROVE IInv
  OBVIOUS
<1>1. TypeOK
  <2>1. 0 \in Epoch /\ 0 \in 0..MaxOffset + 1
    BY EpochAssumption, SMT DEF Epoch
  <2>2. \A S, T : NoEntries \in History(S, T)
    BY NoEntriesFacts
  <2> QED BY <2>1, <2>2 DEF Init, TypeOK
<1>2. \A o \in DOMAIN recs : o < next
  BY NoEntriesFacts DEF Init
<1>3. /\ Good(cache, recs, term) /\ Good(file, recs, term)
      /\ Good(electing, recs, term) /\ Good(pending, recs, term)
  BY GoodEmpty DEF Init
<1>4. (\A b \in bases : b <= active) /\ active <= next
  BY SMT DEF Init
<1> QED BY <1>1, <1>2, <1>3, <1>4 DEF IInv

\* The number facts the steps below use.
LEMMA Numbers ==
  /\ Epoch \subseteq Int /\ Offset \subseteq Int /\ Anchor \subseteq Int
  /\ Offset \subseteq Anchor /\ 0..MaxOffset + 1 \subseteq Anchor
  /\ 0..MaxOffset + 1 \subseteq Int
BY EpochAssumption, SMT DEF Epoch, Offset, Anchor

\* What the invariant says of the log, with numbers known to be integers.
LEMMA LogFacts ==
  ASSUME IInv
  PROVE  /\ next \in Int /\ next \in 0..MaxOffset + 1 /\ term \in Int
         /\ recs \in History(Offset, Epoch)
         /\ DOMAIN recs \subseteq Offset
         /\ \A o \in DOMAIN recs : o \in Int /\ o < next /\ recs[o] \in Epoch
         /\ NewestOffset \in Anchor /\ NewestOffset = next - 1
<1>1. /\ next \in 0..MaxOffset + 1 /\ term \in Epoch
      /\ recs \in History(Offset, Epoch)
      /\ \A o \in DOMAIN recs : o < next
  BY DEF IInv, TypeOK
<1>2. DOMAIN recs \subseteq Offset /\ \A o \in DOMAIN recs : recs[o] \in Epoch
  BY <1>1, HistoryElim
<1>3. NewestOffset \in Anchor /\ NewestOffset = next - 1
  BY <1>1, EpochAssumption, SMT DEF NewestOffset, Anchor
<1> QED BY <1>1, <1>2, <1>3, Numbers

\* A roll keeps the active segment the last one.
LEMMA SplitFacts ==
  ASSUME IInv, NEW b, Split(b), next' \in 0..MaxOffset + 1, next < next'
  PROVE  /\ bases' \subseteq 0..MaxOffset + 1 /\ active' \in bases'
         /\ \A x \in bases' : x <= active'
         /\ active' <= next'
<1>1. /\ bases \subseteq 0..MaxOffset + 1 /\ active \in bases
      /\ next \in 0..MaxOffset + 1 /\ active <= next
      /\ \A x \in bases : x <= active
  BY DEF IInv, TypeOK
<1>2. b \in {active, next} /\ active' = b /\ bases' = bases \cup {b}
  BY DEF Split
<1> QED BY <1>1, <1>2, Numbers, SMT

\* The first half of an election, which reads the newest offset, keeps the
\* invariant.
LEMMA NewLeaderEpochInv ==
  ASSUME IInv, NEW e \in Epoch, NewLeaderEpoch(e)
  PROVE  IInv'
<1>1. e \in Epoch /\ term \in Epoch /\ term' = e /\ term <= e
  BY Numbers, SMT DEF IInv, TypeOK, NewLeaderEpoch
<1>2. recs' = recs /\ cache' = cache /\ file' = file /\ pending' = pending
      /\ recs \in History(Offset, Epoch)
  BY DEF NewLeaderEpoch, logVars, IInv, TypeOK
<1>3. Grown(recs', recs, term)
  BY <1>2 DEF Grown
<1>4. /\ Good(cache', recs', term') /\ Good(file', recs', term')
      /\ Good(pending', recs', term')
  BY <1>1, <1>2, <1>3, GoodGrown DEF IInv
<1>5. Good(electing', recs', term')
  <2>1. NewestOffset \in Anchor
    BY LogFacts
  <2>2. electing' = [x \in {e} |-> NewestOffset]
    BY DEF NewLeaderEpoch
  <2>3. electing' \in History(Epoch, Anchor)
    <3>1. electing' \in [{e} -> Anchor]
      BY <2>1, <2>2
    <3> QED BY <3>1, HistoryMember
  <2>4. Ascends(electing')
    BY <1>1, <2>2, Numbers, SMT DEF Ascends
  <2>5. Shared(electing', recs')
    BY <1>2, <2>2, LogFacts, SMT DEF Shared
  <2>6. \A x \in DOMAIN electing' : x <= term'
    BY <1>1, <2>2, Numbers, SMT
  <2> QED BY <2>3, <2>4, <2>5, <2>6 DEF Good
<1>6. /\ bases' \subseteq 0..MaxOffset + 1 /\ active' \in bases'
      /\ next' \in 0..MaxOffset + 1 /\ leading' \in BOOLEAN
      /\ \A x \in bases' : x <= active'
      /\ active' <= next'
      /\ \A o \in DOMAIN recs' : o < next'
  BY DEF IInv, TypeOK, NewLeaderEpoch, logVars
<1> QED BY <1>1, <1>2, <1>4, <1>5, <1>6 DEF IInv, TypeOK, Good

\* The second half, which assigns what was read, keeps it.
LEMMA NewLeaderEpochAssignInv ==
  ASSUME IInv, NewLeaderEpochAssign
  PROVE  IInv'
<1>1. recs' = recs /\ term' = term /\ electing' = NoEntries
      /\ pending' = pending
  BY DEF NewLeaderEpochAssign, logVars
<1>2. PICK e \in DOMAIN electing : Flush(assign(cache, e, electing[e]))
  BY DEF NewLeaderEpochAssign
<1>3. Good(assign(cache, e, electing[e]), recs, term)
  BY GoodAssign DEF IInv
<1>4. Good(cache', recs', term') /\ Good(file', recs', term')
  BY <1>1, <1>2, <1>3, GoodFlush DEF IInv
<1>5. Good(electing', recs', term') /\ Good(pending', recs', term')
  BY <1>1, GoodEmpty DEF IInv
<1> QED BY <1>1, <1>4, <1>5
       DEF IInv, TypeOK, Good, NewLeaderEpochAssign, logVars

\* The Assign an appended set owes keeps it.
LEMMA AppendAssignInv ==
  ASSUME IInv, AppendAssign
  PROVE  IInv'
<1>1. recs' = recs /\ term' = term /\ electing' = electing
      /\ recs \in History(Offset, Epoch)
  BY DEF AppendAssign, logVars, IInv, TypeOK
<1>2. PICK e \in DOMAIN pending :
         /\ Flush(assign(cache, e, pending[e]))
         /\ pending' = Keep(pending, DOMAIN pending \ {e}) \/ pending' = NoEntries
  BY DEF AppendAssign, Flush
<1>3. Good(assign(cache, e, pending[e]), recs, term)
  BY GoodAssign DEF IInv
<1>4. Good(cache', recs', term') /\ Good(file', recs', term')
  BY <1>1, <1>2, <1>3, GoodFlush DEF IInv
<1>5. Good(pending', recs', term')
  BY <1>1, <1>2, GoodKeep, GoodEmpty DEF IInv
<1> QED BY <1>1, <1>4, <1>5 DEF IInv, TypeOK, Good, AppendAssign, logVars

\* An append by the leader keeps it.
LEMMA AppendInv ==
  ASSUME IInv, NEW b, Append(b)
  PROVE  IInv'
<1>1. /\ next \in Offset /\ next' = next + 1 /\ term' = term
      /\ cache' = cache /\ file' = file /\ electing' = electing
      /\ pending' = pending /\ leading' = leading /\ term \in Epoch
      /\ recs' = [o \in DOMAIN recs \cup {next} |->
                    IF o = next THEN term ELSE recs[o]]
  BY EpochAssumption, SMT DEF Append, IInv, TypeOK, Offset
<1>2. recs' \in History(Offset, Epoch)
  <2>1. recs' \in [DOMAIN recs \cup {next} -> Epoch]
    BY <1>1, LogFacts
  <2> QED BY <1>1, <2>1, LogFacts, HistoryMember
<1>3. Grown(recs', recs, term)
  BY <1>1, Numbers, SMT DEF Grown
<1>4. /\ Good(cache', recs', term') /\ Good(file', recs', term')
      /\ Good(electing', recs', term') /\ Good(pending', recs', term')
  BY <1>1, <1>2, <1>3, Numbers, GoodGrown, SMT DEF IInv
<1>5. \A o \in DOMAIN recs' : o < next'
  BY <1>1, LogFacts, SMT
<1>6. next' \in 0..MaxOffset + 1 /\ next < next'
  BY <1>1, EpochAssumption, SMT DEF Offset
<1>7. Split(b)
  BY DEF Append
<1> QED BY <1>1, <1>2, <1>4, <1>5, <1>6, <1>7, SplitFacts DEF IInv, TypeOK, Good

\* An append by a follower keeps it.
LEMMA AppendMessageSetInv ==
  ASSUME IInv, NEW b, NEW o1 \in Offset, NEW o2 \in Offset,
         NEW e1 \in Epoch, NEW e2 \in Epoch, NEW stamped \in BOOLEAN,
         AppendMessageSet(b, o1, e1, o2, e2, stamped)
  PROVE  IInv'
<1>0. /\ term \in Epoch /\ term <= e1 /\ next <= o1
      /\ (o1 = o2 /\ e1 = e2) \/ (o1 < o2 /\ e1 <= e2)
  BY DEF AppendMessageSet, IInv, TypeOK
<1>1. /\ term \in Epoch /\ term <= e1 /\ next <= o1
      /\ e1 <= e2 /\ o1 <= o2 /\ (o1 = o2 => e1 = e2)
  BY <1>0, Numbers, SMT
<1>2. /\ term' = e2 /\ next' = o2 + 1
      /\ cache' = cache /\ file' = file /\ electing' = electing
      /\ leading' \in BOOLEAN
      /\ recs' = [o \in DOMAIN recs \cup {o1, o2} |->
                    IF o = o1 THEN e1 ELSE IF o = o2 THEN e2 ELSE recs[o]]
  BY DEF AppendMessageSet
<1>3. recs' \in History(Offset, Epoch)
  <2>1. recs' \in [DOMAIN recs \cup {o1, o2} -> Epoch]
    BY <1>2, LogFacts
  <2> QED BY <2>1, LogFacts, HistoryMember
<1>4. Grown(recs', recs, term) /\ term <= e2
  BY <1>1, <1>2, Numbers, SMT DEF Grown
<1>5. /\ Good(cache', recs', term') /\ Good(file', recs', term')
      /\ Good(electing', recs', term')
  BY <1>1, <1>2, <1>3, <1>4, GoodGrown DEF IInv
<1>6. Good(pending', recs', term')
  <2>1. PICK last \in Epoch :
          pending' = [e \in {x \in {e1, e2} : stamped /\ x > last} |->
                        AnchorOf(e, e1, o1, o2)]
    BY DEF AppendMessageSet
  <2> DEFINE D == {x \in {e1, e2} : stamped /\ x > last}
  <2>2. /\ DOMAIN pending' = D /\ D \subseteq {e1, e2}
        /\ \A e \in D : pending'[e] = IF e = e1 THEN NewestOffset ELSE o1
    BY <2>1 DEF AnchorOf
  <2>3. pending' \in History(Epoch, Anchor)
    <3>1. NewestOffset \in Anchor /\ o1 \in Anchor
      BY LogFacts, Numbers
    <3>2. pending' \in [D -> Anchor]
      BY <2>1, <3>1 DEF AnchorOf
    <3> QED BY <3>2, HistoryMember
  <2> HIDE DEF D
  <2>4. Ascends(pending')
    <3> SUFFICES ASSUME NEW d \in D, NEW e \in D, d < e
                 PROVE  pending'[d] <= pending'[e]
      BY <2>2 DEF Ascends
    <3>1. d = e1 /\ e = e2 /\ d # e
      BY <1>1, <2>2, Numbers, SMT
    <3>2. pending'[d] = NewestOffset /\ pending'[e] = o1
      BY <2>2, <3>1
    <3> QED BY <1>1, <3>2, LogFacts, Numbers, SMT
  <2>5. Shared(pending', recs')
    <3> SUFFICES ASSUME NEW e \in D, NEW o \in DOMAIN recs', o > pending'[e]
                 PROVE  recs'[o] >= e
      BY <2>2 DEF Shared
    <3>1. o \in DOMAIN recs \cup {o1, o2}
      BY <1>2
    <3>2. o \notin DOMAIN recs
      BY <1>1, <2>2, LogFacts, Numbers, SMT
    <3>3. CASE e = e1
      BY <1>1, <1>2, <3>1, <3>2, <3>3, Numbers, SMT
    <3>4. CASE e # e1
      <4>1. e = e2 /\ pending'[e] = o1
        BY <2>2, <3>4
      <4>2. o = o2 /\ o # o1
        BY <3>1, <3>2, <4>1, Numbers, SMT
      <4> QED BY <1>1, <1>2, <3>1, <4>1, <4>2, Numbers, SMT
    <3> QED BY <3>3, <3>4
  <2>6. \A e \in DOMAIN pending' : e <= term'
    <3> SUFFICES ASSUME NEW e \in D PROVE e <= e2
      BY <1>2, <2>2
    <3>1. e = e1 \/ e = e2
      BY <2>2
    <3> QED BY <1>1, <3>1, Numbers, SMT
  <2> QED BY <2>3, <2>4, <2>5, <2>6 DEF Good
<1>7. \A o \in DOMAIN recs' : o < next'
  BY <1>1, <1>2, LogFacts, Numbers, SMT
<1>8. next' \in 0..MaxOffset + 1 /\ next < next'
  BY <1>1, <1>2, LogFacts, EpochAssumption, SMT DEF Offset
<1>9. Split(b)
  BY DEF AppendMessageSet
<1> QED BY <1>2, <1>3, <1>5, <1>6, <1>7, <1>8, <1>9, SplitFacts
       DEF IInv, TypeOK, Good

\* Truncate keeps it.
LEMMA TruncateInv ==
  ASSUME IInv, NEW offset \in Offset, NEW b, Truncate(offset, b)
  PROVE  IInv'
<1>1. /\ recs \in History(Offset, Epoch)
      /\ recs' = Drop({o \in DOMAIN recs : o >= offset})
      /\ Flush(ClearLatest(cache, offset))
      /\ term' = term /\ leading' = leading
      /\ electing' = electing /\ pending' = pending
      /\ offset \in Anchor
  BY Numbers DEF Truncate, IInv, TypeOK
<1>2. recs' \in History(Offset, Epoch) /\ Within(recs', recs)
  BY <1>1, DropFacts
<1>3. Good(cache', recs', term') /\ Good(file', recs', term')
  BY <1>1, <1>2, GoodTrim, GoodFlush DEF IInv
<1>4. Good(electing', recs', term') /\ Good(pending', recs', term')
  BY <1>1, <1>2, GoodTrim DEF IInv
<1>5. /\ next' \in 0..MaxOffset + 1
      /\ \A o \in DOMAIN recs' : o < next'
      /\ next' >= active'
  BY DEF Truncate, EndOf
<1>6. /\ bases' \subseteq 0..MaxOffset + 1 /\ active' \in bases'
      /\ \A x \in bases' : x <= active'
  BY DEF Truncate, IInv, TypeOK
<1>7. active' <= next'
  BY <1>5, <1>6, Numbers
<1> QED BY <1>1, <1>2, <1>3, <1>4, <1>5, <1>6, <1>7 DEF IInv, TypeOK, Good

\* TruncateBefore keeps it.
LEMMA TruncateBeforeInv ==
  ASSUME IInv, NEW minOffset \in 1..MaxOffset, TruncateBefore(minOffset)
  PROVE  IInv'
<1>1. /\ recs \in History(Offset, Epoch)
      /\ recs' = Drop({o \in DOMAIN recs : o < minOffset /\ o < active})
      /\ Flush(ClearEarliest(cache, minOffset))
      /\ term' = term /\ leading' = leading /\ next' = next
      /\ electing' = electing /\ pending' = pending
  BY DEF TruncateBefore, IInv, TypeOK
<1>2. minOffset \in Anchor
  BY EpochAssumption, SMT DEF Anchor
<1>3. /\ recs' \in History(Offset, Epoch) /\ Within(recs', recs)
      /\ DOMAIN recs' \subseteq DOMAIN recs
  BY <1>1, DropFacts
<1>4. Good(cache', recs', term') /\ Good(file', recs', term')
  BY <1>1, <1>2, <1>3, GoodTrim, GoodFlush DEF IInv
<1>5. Good(electing', recs', term') /\ Good(pending', recs', term')
  BY <1>1, <1>2, <1>3, GoodTrim DEF IInv
<1>6. /\ bases' \subseteq 0..MaxOffset + 1 /\ active' \in bases'
      /\ \A x \in bases' : x <= active'
      /\ active' <= next'
  <2>1. DOMAIN recs \subseteq 0..MaxOffset + 1
    BY LogFacts, EpochAssumption, SMT DEF Offset
  <2>2. /\ active' = active /\ active \in bases'
        /\ bases' \subseteq bases \cup {o \in DOMAIN recs : o < active}
    BY DEF TruncateBefore, IInv, TypeOK
  <2>3. \A o \in 0..MaxOffset + 1 : o < active => o <= active
    BY Numbers, SMT DEF IInv, TypeOK
  <2> QED BY <1>1, <2>1, <2>2, <2>3 DEF IInv, TypeOK
<1> QED BY <1>1, <1>3, <1>4, <1>5, <1>6 DEF IInv, TypeOK, Good

\* A maintenance pass keeps it.
LEMMA CleanInv ==
  ASSUME IInv, NEW b, NEW D, Clean(b, D)
  PROVE  IInv'
<1>1. /\ recs \in History(Offset, Epoch)
      /\ recs' = Drop(D \cup {o \in DOMAIN recs : o < b})
      /\ Flush(ClearEarliest(cache, b))
      /\ term' = term /\ leading' = leading /\ next' = next
      /\ electing' = electing /\ pending' = pending
      /\ b \in 0..MaxOffset + 1
  BY DEF Clean, IInv, TypeOK
<1>2. b \in Anchor
  BY <1>1, Numbers
<1>3. /\ recs' \in History(Offset, Epoch) /\ Within(recs', recs)
      /\ DOMAIN recs' \subseteq DOMAIN recs
  BY <1>1, DropFacts
<1>4. Good(cache', recs', term') /\ Good(file', recs', term')
  BY <1>1, <1>2, <1>3, GoodTrim, GoodFlush DEF IInv
<1>5. Good(electing', recs', term') /\ Good(pending', recs', term')
  BY <1>1, <1>2, <1>3, GoodTrim DEF IInv
<1>6. /\ bases' \subseteq 0..MaxOffset + 1 /\ active' \in bases'
      /\ \A x \in bases' : x <= active'
      /\ active' <= next'
  <2>1. b <= active
    BY DEF Clean, IInv
  <2>2. bases' \subseteq bases /\ active \in bases' /\ active' = active
    BY <2>1 DEF Clean, IInv, TypeOK
  <2> QED BY <1>1, <2>2 DEF IInv, TypeOK
<1> QED BY <1>1, <1>3, <1>4, <1>5, <1>6 DEF IInv, TypeOK, Good

\* A close or a crash, and the open after it, keep it.
LEMMA ReopenInv ==
  ASSUME IInv, NEW k, NEW f \in Anchor, Reopen(k, f)
  PROVE  IInv'
<1>1. /\ recs \in History(Offset, Epoch)
      /\ recs' = Drop({o \in DOMAIN recs : o >= k})
      /\ cache' = ClearEarliest(ClearLatest(file, next'), f)
      /\ file' = cache'
      /\ term' = term /\ leading' \in BOOLEAN
      /\ electing' = NoEntries /\ pending' = NoEntries
      /\ bases' = bases /\ active' = active
      /\ next' \in 0..MaxOffset + 1
      /\ next' >= active
      /\ \A o \in DOMAIN recs' : o < next'
  BY DEF Reopen, EndOf, IInv, TypeOK
<1>2. recs' \in History(Offset, Epoch) /\ Within(recs', recs)
  BY <1>1, DropFacts
<1>3. next' \in Anchor
  BY <1>1, Numbers
<1> DEFINE c == ClearLatest(file, next')
<1>4. /\ Good(c, recs', term) /\ c \in History(Epoch, Anchor) /\ Ascends(c)
  BY <1>1, <1>2, <1>3, GoodTrim DEF IInv, Good
<1> HIDE DEF c
<1>5. /\ ClearEarliest(c, f) \in History(Epoch, Anchor)
      /\ Ascends(ClearEarliest(c, f))
      /\ Raised(ClearEarliest(c, f), c)
  BY <1>4, ClearEarliestFacts
<1>6. Within(recs', recs')
  BY DEF Within
<1>7. Good(ClearEarliest(c, f), recs', term)
  BY <1>2, <1>4, <1>5, <1>6, GoodRaised
<1>8. Good(cache', recs', term') /\ Good(file', recs', term')
  BY <1>1, <1>7 DEF c
<1>9. Good(electing', recs', term') /\ Good(pending', recs', term')
  BY <1>1, GoodEmpty
<1>10. active' <= next'
  BY <1>1, Numbers DEF IInv, TypeOK
<1> QED BY <1>1, <1>2, <1>8, <1>9, <1>10 DEF IInv, TypeOK, Good

\* Every step keeps the invariant.
LEMMA NextInv == IInv /\ [Next]_vars => IInv'
<1> SUFFICES ASSUME IInv, [Next]_vars PROVE IInv'
  OBVIOUS
<1>1. CASE \E e \in Epoch : NewLeaderEpoch(e)
  BY <1>1, NewLeaderEpochInv
<1>2. CASE NewLeaderEpochAssign
  BY <1>2, NewLeaderEpochAssignInv
<1>3. CASE \E b \in bases \cup {next} : Append(b)
  BY <1>3, AppendInv
<1>4. CASE \E b \in bases \cup {next}, o1, o2 \in Offset, e1, e2 \in Epoch,
             stamped \in BOOLEAN : AppendMessageSet(b, o1, e1, o2, e2, stamped)
  BY <1>4, AppendMessageSetInv
<1>5. CASE AppendAssign
  BY <1>5, AppendAssignInv
<1>6. CASE \E offset \in Offset, b \in bases : Truncate(offset, b)
  BY <1>6, TruncateInv
<1>7. CASE \E minOffset \in 1..MaxOffset : TruncateBefore(minOffset)
  BY <1>7, TruncateBeforeInv
<1>8. CASE \E b \in bases, D \in {{}} \cup {{o} : o \in Offset} : Clean(b, D)
  BY <1>8, CleanInv
<1>9. CASE \E k \in 0..MaxOffset + 1, f \in Anchor : Reopen(k, f)
  BY <1>9, ReopenInv
<1>10. CASE UNCHANGED vars
  BY <1>10 DEF IInv, TypeOK, Good, Shared, Ascends, vars
<1> QED BY <1>1, <1>2, <1>3, <1>4, <1>5, <1>6, <1>7, <1>8, <1>9, <1>10 DEF Next, Step

\* The inductive invariant holds throughout.
THEOREM Invariance == Spec => []IInv
BY InitInv, NextInv, PTL DEF Spec

\* The types of the log, the cache and its checkpoint file are preserved by
\* every operation of leader_epoch_cache.go and its callers.
THEOREM TypeCorrect == Spec => []TypeOK
<1>1. IInv => TypeOK
  BY DEF IInv
<1> QED BY <1>1, Invariance, PTL

\* The order assign and ClearEarliest rely on is never lost, in any situation.
THEOREM AnchorsAlwaysAscend == Spec => []AnchorsAscend
<1>1. IInv => AnchorsAscend
  BY DEF IInv, Good, AnchorsAscend
<1> QED BY <1>1, Invariance, PTL

\* LastOffsetForLeaderEpoch never tells a follower to discard a record of the
\* epoch it asked about or an earlier one, in any situation.
THEOREM ProbeAlwaysKeepsSharedHistory == Spec => []ProbeKeepsSharedHistory
<1>1. IInv => ProbeKeepsSharedHistory
  <2> SUFFICES ASSUME IInv, NEW e \in Epoch, NEW a \in Anchor, AnswerIs(e, a),
                      NEW o \in DOMAIN recs, recs[o] <= e
               PROVE  o <= a
    BY DEF ProbeKeepsSharedHistory
  <2>1. /\ o \in Int /\ o < next /\ next \in Int /\ recs[o] \in Int
        /\ e \in Int /\ a \in Int
    BY LogFacts, Numbers
  <2>2. CASE \E d \in DOMAIN cache : d > e
    <3>1. PICK d \in DOMAIN cache : d > e /\ a = cache[d]
      BY <2>2 DEF AnswerIs
    <3>2. o > cache[d] => recs[o] >= d
      BY DEF IInv, Good, Shared
    <3>3. d \in Int
      BY HistoryAnchors DEF IInv, Good
    <3> QED BY <2>1, <3>1, <3>2, <3>3, SMT
  <2>3. CASE ~ \E d \in DOMAIN cache : d > e
    BY <2>1, <2>3, SMT DEF AnswerIs
  <2> QED BY <2>2, <2>3
<1> QED BY <1>1, Invariance, PTL

-----------------------------------------------------------------------------
(* The plain protocol.                                                     *)

\* The record at o has the entry of its own epoch, anchored below it.
Entered(c, R, o) == R[o] \in DOMAIN c /\ c[R[o]] < o

\* Every record but the oldest is entered, or is about to be by an Assign that
\* is owed.  Epoch 0 has no entry.
Covered ==
  \A o \in DOMAIN recs :
    \/ recs[o] = 0 \/ OldestIs(o, DOMAIN recs)
    \/ Entered(cache, recs, o)
    \/ Entered(electing, recs, o) \/ Entered(pending, recs, o)

\* What holds in the plain protocol, beside IInv.  An Assign that is owed is
\* above the cache in offset, so assign will not refuse it for that; one a batch
\* owes is above it in epoch too.
PlainInv ==
  /\ file = cache
  /\ \A d \in DOMAIN cache : cache[d] < next
  /\ \A e \in DOMAIN electing :
       /\ leading /\ e = term /\ electing[e] < next
       /\ \A d \in DOMAIN cache : cache[d] <= electing[e]
  /\ \A e \in DOMAIN pending :
       /\ ~leading /\ pending[e] < next
       /\ \A d \in DOMAIN cache : d < e /\ cache[d] <= pending[e]
  /\ leading => LastLeaderEpochIs(cache, term) \/ term \in DOMAIN electing
  /\ Covered

(***************************************************************************)
(* What the cache operations keep.                                         *)
(***************************************************************************)
\* assign above every entry adds the entry and moves no other.
LEMMA AssignAdds ==
  ASSUME NEW c \in History(Epoch, Anchor), NEW e \in Epoch, NEW a \in Anchor,
         \A d \in DOMAIN c : d < e /\ c[d] <= a,
         NEW r, r = assign(c, e, a)
  PROVE  /\ DOMAIN r = DOMAIN c \cup {e}
         /\ r[e] = a
         /\ \A d \in DOMAIN c : r[d] = c[d]
<1>1. r = [x \in DOMAIN c \cup {e} |-> IF x = e THEN a ELSE c[x]]
  BY DEF assign
<1>2. e \notin DOMAIN c
  BY Numbers, SMT
<1> QED BY <1>1, <1>2

\* assign of an epoch that has its entry changes nothing.
LEMMA AssignAgain ==
  ASSUME NEW c \in History(Epoch, Anchor), NEW e \in DOMAIN c, NEW a
  PROVE  assign(c, e, a) = c
<1>1. ~(e < e)
  BY HistoryAnchors, SMT
<1> QED BY <1>1 DEF assign

\* ClearLatest leaves the entries anchored below the cut and no other.
LEMMA ClearLatestKeeps ==
  ASSUME NEW c \in History(Epoch, Anchor), NEW offset
  PROVE  LET r == ClearLatest(c, offset)
         IN /\ DOMAIN r = {e \in DOMAIN c : c[e] < offset}
            /\ \A e \in DOMAIN r : r[e] = c[e]
<1> DEFINE D == {e \in DOMAIN c : c[e] < offset}
<1>1. ClearLatest(c, offset) = [e \in DOMAIN c \cap D |-> c[e]]
  BY DEF ClearLatest, Keep
<1>2. DOMAIN c \cap D = D
  OBVIOUS
<1> QED BY <1>1, <1>2

\* ClearEarliest leaves an entry where it was, or puts it at the floor.
LEMMA ClearEarliestMoves ==
  ASSUME NEW c \in History(Epoch, Anchor), NEW offset \in Anchor
  PROVE  LET r == ClearEarliest(c, offset)
         IN \A e \in DOMAIN r :
              e \in DOMAIN c /\ (r[e] = c[e] \/ r[e] = offset)
<1> DEFINE removed == {e \in DOMAIN c : c[e] < offset}
           rest == DOMAIN c \ removed
           top == {e \in removed : \A d \in removed : d <= e}
           r == ClearEarliest(c, offset)
<1>1. CASE offset <= 0 \/ removed = {}
  BY <1>1 DEF ClearEarliest
<1>2. CASE ~(offset <= 0 \/ removed = {}) /\ \E e \in rest : c[e] = offset
  <2>1. r = Keep(c, rest)
    BY <1>2 DEF ClearEarliest
  <2> QED BY <2>1 DEF Keep
<1>3. CASE ~(offset <= 0 \/ removed = {}) /\ ~ \E e \in rest : c[e] = offset
  <2>1. r = [e \in rest \cup top |-> IF e \in rest THEN c[e] ELSE offset]
    BY <1>3 DEF ClearEarliest
  <2> QED BY <2>1
<1> QED BY <1>1, <1>2, <1>3

\* ClearEarliest never loses the latest epoch.
LEMMA ClearEarliestKeepsLast ==
  ASSUME NEW c \in History(Epoch, Anchor), NEW offset \in Anchor, Ascends(c),
         NEW t, LastLeaderEpochIs(c, t)
  PROVE  LastLeaderEpochIs(ClearEarliest(c, offset), t)
<1> DEFINE removed == {e \in DOMAIN c : c[e] < offset}
           rest == DOMAIN c \ removed
           top == {e \in removed : \A d \in removed : d <= e}
           r == ClearEarliest(c, offset)
<1>1. CASE offset <= 0 \/ removed = {}
  BY <1>1 DEF ClearEarliest
<1>2. CASE ~(offset <= 0 \/ removed = {})
  <2>1. t \in DOMAIN c /\ \A d \in DOMAIN c : d <= t
    BY <1>2 DEF LastLeaderEpochIs
  <2>2. DOMAIN r \subseteq DOMAIN c
    BY ClearEarliestMoves
  <2>3. t \in DOMAIN r
    <3>1. CASE \E e \in rest : c[e] = offset
      <4>1. DOMAIN r = rest
        BY <1>2, <3>1 DEF ClearEarliest, Keep
      <4>2. PICK e \in rest : c[e] = offset
        BY <3>1
      <4>3. e < t \/ e = t
        BY <2>1, HistoryAnchors, SMT
      <4>4. c[e] <= c[t]
        BY <2>1, <4>3, HistoryAnchors, SMT DEF Ascends
      <4>5. ~(c[t] < offset)
        BY <2>1, <4>2, <4>4, HistoryAnchors, SMT
      <4> QED BY <2>1, <4>1, <4>5
    <3>2. CASE ~ \E e \in rest : c[e] = offset
      <4>1. DOMAIN r = rest \cup top
        BY <1>2, <3>2 DEF ClearEarliest
      <4> QED BY <2>1, <4>1
    <3> QED BY <3>1, <3>2
  <2> QED BY <2>1, <2>2, <2>3 DEF LastLeaderEpochIs
<1> QED BY <1>1, <1>2

\* A record that is not the oldest lies above another.
LEMMA NotOldest ==
  ASSUME NEW S \in SUBSET Int, NEW o \in S, ~OldestIs(o, S)
  PROVE  \E x \in S : x < o
BY SMT DEF OldestIs

\* Moving the floor up to f keeps every record above the oldest entered, when
\* the records that are left lie at f or above it.
LEMMA EnteredAboveFloor ==
  ASSUME NEW R \in History(Offset, Epoch), NEW t, NEW c, Good(c, R, t),
         NEW Q, Within(Q, R), NEW f \in Anchor, \A x \in DOMAIN Q : f <= x,
         NEW o \in DOMAIN Q, ~OldestIs(o, DOMAIN Q), Entered(c, Q, o)
  PROVE  Entered(ClearEarliest(c, f), Q, o)
<1> DEFINE removed == {e \in DOMAIN c : c[e] < f}
           rest == DOMAIN c \ removed
           top == {e \in removed : \A d \in removed : d <= e}
           r == ClearEarliest(c, f)
           e == Q[o]
<1>1. /\ c \in History(Epoch, Anchor) /\ Ascends(c) /\ Shared(c, R)
      /\ \A d \in DOMAIN c : d \in Int /\ c[d] \in Int
      /\ f \in Int
  BY HistoryAnchors, AnchorInt DEF Good
<1>2. DOMAIN Q \subseteq Int /\ o \in DOMAIN R /\ Q[o] = R[o]
  BY HistoryElim, Numbers DEF Within
<1>3. f < o
  <2>1. PICK x \in DOMAIN Q : x < o
    BY <1>2, NotOldest
  <2> QED BY <1>1, <1>2, <2>1, SMT
<1>4. e \in DOMAIN c /\ c[e] < o
  BY DEF Entered
<1>5. \A d \in DOMAIN c : c[d] < o => d <= e
  BY <1>1, <1>2, <1>4 DEF Shared
<1> HIDE DEF e
<1>6. CASE f <= 0 \/ removed = {}
  <2>1. r = c
    BY <1>6 DEF ClearEarliest
  <2> QED BY <2>1
<1>7. CASE ~(f <= 0 \/ removed = {}) /\ \E d \in rest : c[d] = f
  <2>1. DOMAIN r = rest /\ \A d \in rest : r[d] = c[d]
    BY <1>7 DEF ClearEarliest, Keep
  <2>2. e \in rest
    <3>1. PICK d \in rest : c[d] = f
      BY <1>7
    <3>2. d = e \/ d < e
      BY <1>1, <1>3, <1>4, <1>5, <3>1, SMT
    <3>3. c[d] <= c[e]
      BY <1>1, <1>4, <3>2, SMT DEF Ascends
    <3> QED BY <1>1, <1>4, <3>1, <3>3, SMT
  <2> QED BY <1>4, <2>1, <2>2 DEF Entered, e
<1>8. CASE ~(f <= 0 \/ removed = {}) /\ ~ \E d \in rest : c[d] = f
  <2>1. r = [d \in rest \cup top |-> IF d \in rest THEN c[d] ELSE f]
    BY <1>8 DEF ClearEarliest
  <2>2. CASE e \in rest
    BY <1>4, <2>1, <2>2 DEF Entered, e
  <2>3. CASE e \notin rest
    <3>1. \A d \in removed : d <= e
      BY <1>1, <1>2, <1>3, <1>5, SMT
    <3>2. e \in top
      BY <1>4, <2>3, <3>1
    <3>3. e \in DOMAIN r /\ r[e] = f
      BY <2>1, <2>3, <3>2
    <3> QED BY <1>3, <3>3 DEF Entered, e
  <2> QED BY <2>2, <2>3
<1> QED BY <1>6, <1>7, <1>8

(***************************************************************************)
(* The steps.                                                              *)
(***************************************************************************)
\* A new log satisfies the invariant.
LEMMA PlainInit == Init => PlainInv
<1> SUFFICES ASSUME Init PROVE PlainInv
  OBVIOUS
<1> QED BY NoEntriesFacts DEF Init, PlainInv, Covered

\* Nothing fails to be flushed in the plain protocol, so the file follows.
LEMMA PlainFlush ==
  ASSUME setting.may = {}, file = cache, NEW c, Flush(c)
  PROVE  cache' = c /\ file' = c
BY DEF Flush, Flushed, FlushFails, May

\* With no Assign owed, every record but the oldest has its entry.
LEMMA SettledCovered ==
  ASSUME PlainInv, Settled, NEW o \in DOMAIN recs,
         recs[o] # 0, ~OldestIs(o, DOMAIN recs)
  PROVE  Entered(cache, recs, o)
BY NoEntriesFacts DEF PlainInv, Covered, Settled, Entered

\* The first half of an election.
LEMMA NewLeaderEpochPlain ==
  ASSUME IInv, PlainInv, NEW e \in Epoch, NewLeaderEpoch(e)
  PROVE  PlainInv'
<1>1. /\ UNCHANGED <<recs, next, cache, file>>
      /\ pending = NoEntries /\ pending' = NoEntries /\ electing = NoEntries
      /\ leading' = TRUE /\ term' = e
      /\ electing' = [x \in {e} |-> NewestOffset]
  BY DEF NewLeaderEpoch, logVars
<1>2. \A d \in DOMAIN cache : cache[d] \in Int
  BY HistoryAnchors DEF IInv, Good
<1>3. DOMAIN electing' = {e} /\ electing'[e] = next - 1
  BY <1>1, LogFacts
<1>4. electing'[e] < next' /\ \A d \in DOMAIN cache' : cache'[d] <= electing'[e]
  BY <1>1, <1>2, <1>3, LogFacts, SMT DEF PlainInv
<1>5. Covered'
  <2> SUFFICES ASSUME NEW o \in DOMAIN recs, recs[o] # 0,
                      ~OldestIs(o, DOMAIN recs)
               PROVE  Entered(cache, recs, o)
    BY <1>1 DEF Covered, Entered
  <2> QED BY <1>1, SettledCovered DEF Settled
<1> QED BY <1>1, <1>3, <1>4, <1>5, NoEntriesFacts DEF PlainInv

\* The second half: the epoch is recorded, or was already.
LEMMA NewLeaderEpochAssignPlain ==
  ASSUME IInv, PlainInv, setting.may = {}, NewLeaderEpochAssign
  PROVE  PlainInv'
<1>1. /\ UNCHANGED <<recs, next, term, leading, pending>>
      /\ electing' = NoEntries
  BY DEF NewLeaderEpochAssign, logVars
<1>2. PICK e \in DOMAIN electing : Flush(assign(cache, e, electing[e]))
  BY DEF NewLeaderEpochAssign
<1> DEFINE a == electing[e]
           r == assign(cache, e, a)
<1>3. /\ leading /\ e = term /\ a < next
      /\ \A d \in DOMAIN cache : cache[d] <= a /\ cache[d] < next
      /\ DOMAIN pending = {}
      /\ DOMAIN electing = {e}
  <2>1. /\ leading /\ e = term /\ a < next
        /\ \A d \in DOMAIN cache : cache[d] <= a /\ cache[d] < next
    BY DEF PlainInv
  <2>2. /\ \A x \in DOMAIN pending : ~leading
        /\ \A x \in DOMAIN electing : x = term
    BY DEF PlainInv
  <2> QED BY <2>1, <2>2, ZenonT(30)
<1>4. cache' = r /\ file' = r
  BY <1>2, PlainFlush DEF PlainInv
<1>5. /\ cache \in History(Epoch, Anchor) /\ e \in Epoch /\ a \in Anchor
      /\ \A d \in DOMAIN cache : d <= term /\ d \in Int /\ cache[d] \in Int
      /\ e \in Int /\ a \in Int
  BY HistoryAnchors, HistoryElim, Numbers DEF IInv, Good
<1> HIDE DEF a
<1> HIDE DEF r
<1>6. /\ DOMAIN r = DOMAIN cache \cup {e}
      /\ r[e] <= a /\ r[e] < next
      /\ \A d \in DOMAIN cache : r[d] = cache[d]
  <2>1. CASE e \in DOMAIN cache
    <3>1. r = cache
      BY <1>5, <2>1, AssignAgain DEF r
    <3> QED BY <1>3, <2>1, <3>1, ZenonT(30)
  <2>2. CASE e \notin DOMAIN cache
    <3>1. \A d \in DOMAIN cache : d < e /\ cache[d] <= a
      BY <1>3, <1>5, <2>2, SMT
    <3>2. r = assign(cache, e, a)
      BY DEF r
    <3>3. /\ DOMAIN r = DOMAIN cache \cup {e} /\ r[e] = a
          /\ \A d \in DOMAIN cache : r[d] = cache[d]
      <4>1. cache \in History(Epoch, Anchor) /\ e \in Epoch /\ a \in Anchor
        BY <1>5
      <4> QED BY <3>1, <3>2, <4>1, AssignAdds, SMT
    <3> QED BY <1>3, <1>5, <3>3, SMT
  <2> QED BY <2>1, <2>2
<1>7. LastLeaderEpochIs(cache', term')
  BY <1>1, <1>3, <1>4, <1>5, <1>6, SMT DEF LastLeaderEpochIs
<1>8. \A d \in DOMAIN cache' : cache'[d] < next'
  BY <1>1, <1>3, <1>4, <1>6
<1>9. Covered'
  <2> SUFFICES ASSUME NEW o \in DOMAIN recs, recs[o] # 0,
                      ~OldestIs(o, DOMAIN recs)
               PROVE  Entered(r, recs, o)
    BY <1>1, <1>4 DEF Covered
  <2>1. Entered(cache, recs, o) \/ Entered(electing, recs, o)
    BY <1>3 DEF PlainInv, Covered, Entered
  <2>2. CASE Entered(cache, recs, o)
    BY <1>6, <2>2 DEF Entered
  <2>3. CASE Entered(electing, recs, o)
    <3>1. recs[o] = e /\ a < o
      BY <1>3, <2>3 DEF Entered, a
    <3>2. r \in History(Epoch, Anchor)
      BY <1>5, AssignFacts DEF IInv, Good, r
    <3>3. r[e] \in Int
      BY <1>6, <3>2, HistoryAnchors
    <3> QED BY <1>5, <1>6, <3>1, <3>3, LogFacts, SMT DEF Entered
  <2> QED BY <2>1, <2>2, <2>3
<1> QED BY <1>1, <1>3, <1>4, <1>7, <1>8, <1>9, NoEntriesFacts DEF PlainInv

\* The Assign a batch owes is made.
LEMMA AppendAssignPlain ==
  ASSUME IInv, PlainInv, setting.may = {}, AppendAssign
  PROVE  PlainInv'
<1>1. UNCHANGED <<recs, next, term, leading, electing>>
  BY DEF AppendAssign, logVars
<1>2. PICK e \in DOMAIN pending :
         /\ \A d \in DOMAIN pending : e <= d
         /\ Flush(assign(cache, e, pending[e]))
         /\ pending' = Keep(pending, DOMAIN pending \ {e})
  BY DEF AppendAssign, Flush, FlushFails, May
<1> DEFINE a == pending[e]
           r == assign(cache, e, a)
<1>3. /\ ~leading /\ a < next
      /\ \A d \in DOMAIN cache : d < e /\ cache[d] <= a
      /\ DOMAIN electing = {}
  <2>1. /\ ~leading /\ a < next
        /\ \A d \in DOMAIN cache : d < e /\ cache[d] <= a
    BY DEF PlainInv
  <2>2. \A x \in DOMAIN electing : leading
    BY DEF PlainInv
  <2> QED BY <2>1, <2>2, ZenonT(30)
<1>4. cache' = r /\ file' = r
  BY <1>2, PlainFlush DEF PlainInv
<1>5. /\ cache \in History(Epoch, Anchor) /\ e \in Epoch /\ a \in Anchor
      /\ pending \in History(Epoch, Anchor) /\ Ascends(pending)
  BY HistoryElim DEF IInv, Good
<1> HIDE DEF a
<1>6. /\ DOMAIN r = DOMAIN cache \cup {e} /\ r[e] = a
      /\ \A d \in DOMAIN cache : r[d] = cache[d]
  <2>1. r = assign(cache, e, a)
    OBVIOUS
  <2> HIDE DEF r
  <2>2. cache \in History(Epoch, Anchor) /\ e \in Epoch /\ a \in Anchor
    BY <1>5
  <2>3. \A d \in DOMAIN cache : d < e /\ cache[d] <= a
    BY <1>3
  <2> QED BY <2>1, <2>2, <2>3, AssignAdds, SMT
<1> HIDE DEF r
<1>7. /\ DOMAIN pending' = DOMAIN pending \ {e}
      /\ \A x \in DOMAIN pending' : pending'[x] = pending[x]
  <2> DEFINE D == DOMAIN pending \ {e}
  <2>1. DOMAIN pending \cap D = D /\ pending' = Keep(pending, D)
    BY <1>2
  <2> HIDE DEF D
  <2>2. pending \in History(Epoch, Anchor)
    BY <1>5
  <2>3. DOMAIN Keep(pending, D) = D /\ \A x \in D : Keep(pending, D)[x] = pending[x]
    BY <2>1, <2>2, KeepFacts
  <2> QED BY <2>1, <2>3 DEF D
<1>8. \A d \in DOMAIN cache' : cache'[d] < next'
  BY <1>1, <1>3, <1>4, <1>6 DEF PlainInv
<1>9. ASSUME NEW x \in DOMAIN pending'
      PROVE  /\ ~leading' /\ pending'[x] < next'
             /\ \A d \in DOMAIN cache' : d < x /\ cache'[d] <= pending'[x]
  <2>1. x \in DOMAIN pending /\ x # e /\ pending'[x] = pending[x]
    BY <1>7
  <2>2. e < x
    BY <1>2, <1>5, <2>1, HistoryAnchors, SMT
  <2>3. a <= pending[x]
    BY <1>5, <2>1, <2>2 DEF Ascends, a
  <2>4. \A d \in DOMAIN cache : d < x /\ cache[d] <= pending[x]
    BY <2>1 DEF PlainInv
  <2> QED BY <1>1, <1>3, <1>4, <1>6, <2>1, <2>2, <2>3, <2>4 DEF PlainInv
<1>10. Covered'
  <2> SUFFICES ASSUME NEW o \in DOMAIN recs, recs[o] # 0,
                      ~OldestIs(o, DOMAIN recs)
               PROVE  Entered(r, recs, o) \/ Entered(pending', recs, o)
    BY <1>1, <1>4 DEF Covered
  <2>1. Entered(cache, recs, o) \/ Entered(pending, recs, o)
    BY <1>3 DEF PlainInv, Covered, Entered
  <2> QED BY <1>6, <1>7, <2>1 DEF Entered, a
<1> QED BY <1>1, <1>3, <1>4, <1>8, <1>9, <1>10 DEF PlainInv

\* The oldest record stays the oldest when records are added above it.
LEMMA StillOldest ==
  ASSUME NEW S \in SUBSET Int, NEW T \in SUBSET Int, NEW o \in S, S \subseteq T,
         \A x \in T \ S : o <= x, OldestIs(o, S)
  PROVE  OldestIs(o, T)
BY DEF OldestIs

\* A leader's append: the record is entered under the leader's epoch, or will be
\* once the election's Assign is made.
LEMMA AppendPlain ==
  ASSUME IInv, PlainInv, NEW b, Append(b)
  PROVE  PlainInv'
<1>1. /\ UNCHANGED <<cache, file, term, leading, electing, pending>>
      /\ leading /\ pending = NoEntries
      /\ next' = next + 1
      /\ recs' = [o \in DOMAIN recs \cup {next} |->
                    IF o = next THEN term ELSE recs[o]]
  BY DEF Append
<1>2. /\ next \in Int /\ DOMAIN recs \subseteq Int
      /\ \A o \in DOMAIN recs : o < next
  BY LogFacts
<1>3. /\ \A d \in DOMAIN cache : cache[d] \in Int
      /\ \A d \in DOMAIN electing : electing[d] \in Int
  BY HistoryAnchors DEF IInv, Good
<1>4. /\ DOMAIN recs' = DOMAIN recs \cup {next} /\ recs'[next] = term
      /\ \A o \in DOMAIN recs : recs'[o] = recs[o]
  BY <1>1, <1>2, SMT
<1>5. Covered'
  <2> SUFFICES ASSUME NEW o \in DOMAIN recs', recs'[o] # 0,
                      ~OldestIs(o, DOMAIN recs')
               PROVE  Entered(cache, recs', o) \/ Entered(electing, recs', o)
    BY <1>1 DEF Covered
  <2>1. CASE o = next
    <3>1. LastLeaderEpochIs(cache, term) \/ term \in DOMAIN electing
      BY <1>1 DEF PlainInv
    <3>2. term # 0
      BY <1>4, <2>1
    <3>3. term \in DOMAIN cache \/ term \in DOMAIN electing
      BY <3>1, <3>2 DEF LastLeaderEpochIs
    <3>4. /\ \A d \in DOMAIN cache : cache[d] < next
          /\ \A d \in DOMAIN electing : electing[d] < next
      BY DEF PlainInv
    <3> QED BY <1>4, <2>1, <3>3, <3>4 DEF Entered
  <2>2. CASE o # next
    <3>1. o \in DOMAIN recs /\ recs'[o] = recs[o]
      BY <1>4, <2>2
    <3>2. ~OldestIs(o, DOMAIN recs)
      <4>1. \A x \in DOMAIN recs' \ DOMAIN recs : o <= x
        BY <1>2, <1>4, <3>1, SMT
      <4>2. DOMAIN recs' \in SUBSET Int /\ DOMAIN recs \subseteq DOMAIN recs'
        BY <1>2, <1>4
      <4> QED BY <1>2, <3>1, <4>1, <4>2, StillOldest
    <3>3. Entered(cache, recs, o) \/ Entered(electing, recs, o)
      BY <1>1, <3>1, <3>2, NoEntriesFacts DEF PlainInv, Covered, Entered
    <3> QED BY <3>1, <3>3 DEF Entered
  <2> QED BY <2>1, <2>2
<1>6. \A d \in DOMAIN cache : cache[d] < next'
  BY <1>1, <1>2, <1>3, SMT DEF PlainInv
<1>7. \A d \in DOMAIN electing : electing[d] < next'
  BY <1>1, <1>2, <1>3, SMT DEF PlainInv
<1> QED BY <1>1, <1>5, <1>6, <1>7, NoEntriesFacts DEF PlainInv

\* A follower's append: an epoch the cache does not know yet is owed an Assign
\* anchored below the epoch's first record.
LEMMA AppendMessageSetPlain ==
  ASSUME IInv, PlainInv, setting.may = {}, NEW b,
         NEW o1 \in Offset, NEW o2 \in Offset,
         NEW e1 \in Epoch, NEW e2 \in Epoch, NEW stamped \in BOOLEAN,
         AppendMessageSet(b, o1, e1, o2, e2, stamped)
  PROVE  PlainInv'
<1>1. /\ UNCHANGED <<cache, file, electing>>
      /\ stamped /\ electing = NoEntries /\ pending = NoEntries
      /\ next <= o1 /\ term <= e1
      /\ (o1 = o2 /\ e1 = e2) \/ (o1 < o2 /\ e1 <= e2)
      /\ next' = o2 + 1 /\ leading' = FALSE
      /\ recs' = [o \in DOMAIN recs \cup {o1, o2} |->
                    IF o = o1 THEN e1 ELSE IF o = o2 THEN e2 ELSE recs[o]]
  BY DEF AppendMessageSet, May
<1>2. PICK last \in Epoch :
         /\ LastLeaderEpochIs(cache, last)
         /\ pending' = [e \in {x \in {e1, e2} : stamped /\ x > last} |->
                          AnchorOf(e, e1, o1, o2)]
  BY DEF AppendMessageSet
<1>3. /\ next \in Int /\ DOMAIN recs \subseteq Int /\ term \in Int
      /\ \A o \in DOMAIN recs : o < next
      /\ NewestOffset = next - 1
      /\ o1 \in Int /\ o2 \in Int /\ e1 \in Int /\ e2 \in Int /\ last \in Int
  BY LogFacts, Numbers
<1>4. \A d \in DOMAIN cache : /\ d \in Int /\ cache[d] \in Int
                              /\ d <= term /\ cache[d] < next
  BY HistoryAnchors DEF IInv, Good, PlainInv
<1> DEFINE D == {x \in {e1, e2} : x > last}
<1>5. /\ DOMAIN pending' = D
      /\ \A e \in D : pending'[e] = IF e = e1 THEN next - 1 ELSE o1
  BY <1>1, <1>2, <1>3 DEF AnchorOf
<1>6. \A e \in {e1, e2} : e # 0 /\ e \notin D => e = e1 /\ e \in DOMAIN cache
  <2> SUFFICES ASSUME NEW e \in {e1, e2}, e # 0, e <= last
               PROVE  e = e1 /\ e \in DOMAIN cache
    BY <1>3, SMT
  <2>1. last \in DOMAIN cache
    BY <1>2, <1>3, EpochAssumption, SMT DEF LastLeaderEpochIs, Epoch
  <2>2. last <= e1 /\ e1 <= e2
    BY <1>1, <1>3, <1>4, <2>1, SMT
  <2>3. e = last /\ e = e1
    BY <1>3, <2>2, SMT
  <2> QED BY <2>1, <2>3
<1> HIDE DEF D
<1>7. /\ DOMAIN recs' = DOMAIN recs \cup {o1, o2}
      /\ recs'[o1] = e1 /\ recs'[o2] = e2
      /\ \A o \in DOMAIN recs : recs'[o] = recs[o]
  BY <1>1, <1>3, SMT
<1>8. Covered'
  <2> SUFFICES ASSUME NEW o \in DOMAIN recs', recs'[o] # 0,
                      ~OldestIs(o, DOMAIN recs')
               PROVE  Entered(cache, recs', o) \/ Entered(pending', recs', o)
    BY <1>1 DEF Covered
  <2>1. CASE o \in DOMAIN recs
    <3>1. ~OldestIs(o, DOMAIN recs)
      <4>1. \A x \in DOMAIN recs' \ DOMAIN recs : o <= x
        BY <1>1, <1>3, <1>7, <2>1, SMT
      <4>2. DOMAIN recs' \in SUBSET Int /\ DOMAIN recs \subseteq DOMAIN recs'
        BY <1>3, <1>7
      <4> QED BY <1>3, <2>1, <4>1, <4>2, StillOldest
    <3>2. Entered(cache, recs, o)
      BY <1>1, <1>7, <2>1, <3>1, SettledCovered DEF Settled
    <3> QED BY <1>7, <2>1, <3>2 DEF Entered
  <2>2. CASE o = o1
    <3>1. recs'[o] = e1 /\ e1 # 0 /\ next <= o
      BY <1>1, <1>7, <2>2
    <3>2. CASE e1 \in D
      BY <1>3, <1>5, <2>2, <3>1, <3>2, SMT DEF Entered
    <3>3. CASE e1 \notin D
      BY <1>3, <1>4, <1>6, <2>2, <3>1, <3>3, SMT DEF Entered
    <3> QED BY <3>2, <3>3
  <2>3. CASE o = o2 /\ o # o1
    <3>1. recs'[o] = e2 /\ e2 # 0 /\ next <= o1 /\ o1 < o
      BY <1>1, <1>7, <2>3
    <3>2. CASE e2 \in D
      BY <1>3, <1>5, <2>3, <3>1, <3>2, SMT DEF Entered
    <3>3. CASE e2 \notin D
      BY <1>3, <1>4, <1>6, <2>3, <3>1, <3>3, SMT DEF Entered
    <3> QED BY <3>2, <3>3
  <2> QED BY <1>7, <2>1, <2>2, <2>3
<1>9. \A d \in DOMAIN cache : cache[d] < next'
  BY <1>1, <1>3, <1>4, SMT
<1>10. ASSUME NEW e \in DOMAIN pending'
       PROVE  /\ pending'[e] < next'
              /\ \A d \in DOMAIN cache : d < e /\ cache[d] <= pending'[e]
  <2>1. e \in D /\ e \in {e1, e2} /\ e > last /\ e \in Int
    BY <1>3, <1>5 DEF D
  <2>2. \A d \in DOMAIN cache : d <= last
    BY <1>2 DEF LastLeaderEpochIs
  <2>3. pending'[e] = next - 1 \/ (pending'[e] = o1 /\ o1 <= o2)
    BY <1>1, <1>3, <1>5, <2>1, SMT
  <2>4. pending'[e] < next' /\ next - 1 <= pending'[e]
    BY <1>1, <1>3, <2>3, SMT
  <2>5. \A d \in DOMAIN cache : cache[d] <= next - 1
    BY <1>3, <1>4, SMT
  <2>6. pending'[e] \in Int
    BY <1>3, <2>3, SMT
  <2> QED BY <1>3, <1>4, <2>1, <2>2, <2>4, <2>5, <2>6, SMT
<1> QED BY <1>1, <1>8, <1>9, <1>10, NoEntriesFacts DEF PlainInv

\* A record that is not the oldest of those left was not the oldest before.
LEMMA NeverOldest ==
  ASSUME NEW S \in SUBSET Int, NEW T \in SUBSET S, NEW o \in T, ~OldestIs(o, T)
  PROVE  ~OldestIs(o, S)
BY DEF OldestIs

\* With no Assign owed, a record that is left and is not the oldest is entered.
LEMMA LeftCovered ==
  ASSUME IInv, PlainInv, Settled, Within(recs', recs), NEW o \in DOMAIN recs',
         recs'[o] # 0, ~OldestIs(o, DOMAIN recs')
  PROVE  Entered(cache, recs', o)
<1>1. /\ DOMAIN recs \in SUBSET Int /\ DOMAIN recs' \in SUBSET DOMAIN recs
      /\ o \in DOMAIN recs /\ recs'[o] = recs[o]
  BY LogFacts DEF Within
<1>2. ~OldestIs(o, DOMAIN recs)
  BY <1>1, NeverOldest
<1>3. Entered(cache, recs, o)
  BY <1>1, <1>2, SettledCovered
<1> QED BY <1>1, <1>3 DEF Entered

\* A follower's truncation: what lies below the cut keeps its entries.
LEMMA TruncatePlain ==
  ASSUME IInv, PlainInv, setting.may = {}, NEW offset \in Offset, NEW b,
         Truncate(offset, b)
  PROVE  PlainInv'
<1>1. /\ ~leading /\ electing = NoEntries /\ pending = NoEntries
      /\ UNCHANGED <<term, leading, electing, pending>>
      /\ recs' = Drop({o \in DOMAIN recs : o >= offset})
      /\ next' \in 0..MaxOffset + 1 /\ next' >= offset
      /\ Flush(ClearLatest(cache, offset))
  BY DEF Truncate, May
<1> DEFINE r == ClearLatest(cache, offset)
<1>2. cache' = r /\ file' = r
  BY <1>1, PlainFlush DEF PlainInv
<1>3. /\ cache \in History(Epoch, Anchor)
      /\ \A d \in DOMAIN cache : cache[d] \in Int
  BY HistoryAnchors DEF IInv, Good
<1>4. /\ DOMAIN r = {e \in DOMAIN cache : cache[e] < offset}
      /\ \A e \in DOMAIN r : r[e] = cache[e]
  BY <1>3, ClearLatestKeeps, ZenonT(30)
<1> HIDE DEF r
<1>5. /\ Within(recs', recs)
      /\ \A o \in DOMAIN recs' : ~(o >= offset)
  BY <1>1 DEF Drop, Within
<1>6. \A o \in DOMAIN recs' : o \in Int /\ o < offset
  BY <1>5, LogFacts, Numbers, SMT DEF Within
<1>7. Covered'
  <2> SUFFICES ASSUME NEW o \in DOMAIN recs', recs'[o] # 0,
                      ~OldestIs(o, DOMAIN recs')
               PROVE  Entered(r, recs', o)
    BY <1>2 DEF Covered
  <2>1. Entered(cache, recs', o)
    BY <1>1, <1>5, LeftCovered DEF Settled
  <2>2. cache[recs'[o]] < offset
    BY <1>3, <1>6, <2>1, Numbers, SMT DEF Entered
  <2> QED BY <1>4, <2>1, <2>2 DEF Entered
<1>8. \A d \in DOMAIN r : r[d] < next'
  BY <1>1, <1>3, <1>4, Numbers, SMT
<1> QED BY <1>1, <1>2, <1>7, <1>8, NoEntriesFacts DEF PlainInv

\* Retention, compaction and the trims of the front move the floor of the history
\* to f, below the end of the log and below every record that is left.
LEMMA FloorPlain ==
  ASSUME IInv, PlainInv, setting.may = {}, Settled,
         UNCHANGED <<next, term, leading, electing, pending>>,
         NEW f \in Anchor, f < next, Flush(ClearEarliest(cache, f)),
         Within(recs', recs), \A o \in DOMAIN recs' : f <= o
  PROVE  PlainInv'
<1> DEFINE r == ClearEarliest(cache, f)
<1>1. cache' = r /\ file' = r
  BY PlainFlush, SMTT(30) DEF PlainInv
<1>2. cache \in History(Epoch, Anchor) /\ Ascends(cache)
  BY ZenonT(30) DEF IInv, Good
<1>3. \A e \in DOMAIN r : e \in DOMAIN cache /\ (r[e] = cache[e] \/ r[e] = f)
  BY <1>2, ClearEarliestMoves
<1>4. \A e \in DOMAIN r : r[e] < next
  BY <1>3 DEF PlainInv
<1>5. leading => LastLeaderEpochIs(r, term)
  <2> SUFFICES ASSUME leading PROVE LastLeaderEpochIs(r, term)
    OBVIOUS
  <2>1. LastLeaderEpochIs(cache, term)
    BY NoEntriesFacts DEF PlainInv, Settled
  <2> QED BY <1>2, <2>1, ClearEarliestKeepsLast
<1>6. Covered'
  <2> SUFFICES ASSUME NEW o \in DOMAIN recs', recs'[o] # 0,
                      ~OldestIs(o, DOMAIN recs')
               PROVE  Entered(r, recs', o)
    BY <1>1 DEF Covered
  <2>1. Entered(cache, recs', o)
    BY LeftCovered
  <2>2. recs \in History(Offset, Epoch) /\ Good(cache, recs, term)
    BY DEF IInv, TypeOK
  <2> QED BY <2>1, <2>2, EnteredAboveFloor
<1> HIDE DEF r
<1>7. electing' = NoEntries /\ pending' = NoEntries
  BY DEF Settled
<1> QED BY <1>1, <1>4, <1>5, <1>6, <1>7, NoEntriesFacts, SMTT(30) DEF PlainInv

\* TruncateBefore.
LEMMA TruncateBeforePlain ==
  ASSUME IInv, PlainInv, setting.may = {}, NEW minOffset \in 1..MaxOffset,
         TruncateBefore(minOffset)
  PROVE  PlainInv'
<1>1. /\ Settled /\ next > active /\ minOffset <= active
      /\ UNCHANGED <<next, term, leading, electing, pending>>
      /\ Flush(ClearEarliest(cache, minOffset))
      /\ recs' = Drop({o \in DOMAIN recs : o < minOffset /\ o < active})
  BY DEF TruncateBefore, May
<1>2. active \in Int /\ minOffset \in Anchor /\ minOffset \in Int /\ next \in Int
  BY EpochAssumption, SMT DEF IInv, TypeOK, Anchor
<1>3. /\ Within(recs', recs)
      /\ \A o \in DOMAIN recs' : ~(o < minOffset /\ o < active)
  BY <1>1 DEF Drop, Within
<1>4. \A o \in DOMAIN recs' : minOffset <= o
  BY <1>1, <1>2, <1>3, LogFacts, SMT DEF Within
<1>5. minOffset < next
  BY <1>1, <1>2, SMT
<1> QED BY <1>1, <1>2, <1>3, <1>4, <1>5, FloorPlain

\* A maintenance pass.
LEMMA CleanPlain ==
  ASSUME IInv, PlainInv, setting.may = {}, NEW b, NEW D, Clean(b, D)
  PROVE  PlainInv'
<1>1. /\ Settled /\ next > active /\ b \in bases
      /\ UNCHANGED <<next, term, leading, electing, pending>>
      /\ Flush(ClearEarliest(cache, b))
      /\ recs' = Drop(D \cup {o \in DOMAIN recs : o < b})
  BY DEF Clean, May
<1>2. active \in Int /\ b \in Anchor /\ b \in Int /\ next \in Int /\ b <= active
  BY <1>1, Numbers DEF IInv, TypeOK
<1>3. /\ Within(recs', recs)
      /\ \A o \in DOMAIN recs' : ~(o < b)
  BY <1>1 DEF Drop, Within
<1>4. \A o \in DOMAIN recs' : b <= o
  BY <1>2, <1>3, LogFacts, SMT DEF Within
<1>5. b < next
  BY <1>1, <1>2, SMT
<1> QED BY <1>1, <1>2, <1>3, <1>4, <1>5, FloorPlain

\* A close and the open after it: the file is the cache, trimmed at both ends.
LEMMA ReopenPlain ==
  ASSUME IInv, PlainInv, setting.may = {}, NEW k, NEW f \in Anchor, Reopen(k, f)
  PROVE  PlainInv'
<1>1. /\ Settled
      /\ recs' = Drop({o \in DOMAIN recs : o >= k})
      /\ next' \in 0..MaxOffset + 1
      /\ \A o \in DOMAIN recs' : o < next'
      /\ OldestIs(f, DOMAIN recs')
      /\ cache' = ClearEarliest(ClearLatest(cache, next'), f)
      /\ file' = cache'
      /\ leading' = FALSE /\ electing' = NoEntries /\ pending' = NoEntries
      /\ term' = term
  <2>1. file = cache
    BY DEF PlainInv
  <2> QED BY <2>1 DEF Reopen, May, EndOf
<1>2. Within(recs', recs) /\ recs' \in History(Offset, Epoch)
  <2> DEFINE D == {o \in DOMAIN recs : o >= k}
  <2>1. recs' = Drop(D)
    BY <1>1
  <2> HIDE DEF D
  <2> QED BY <2>1, DropFacts, LogFacts, ZenonT(30)
<1>3. next' \in Anchor /\ next' \in Int /\ f \in Int
  BY <1>1, Numbers
<1> DEFINE c == ClearLatest(cache, next')
           r == ClearEarliest(c, f)
<1>4. cache \in History(Epoch, Anchor) /\ Good(c, recs', term)
  <2>1. Good(cache, recs, term) /\ recs \in History(Offset, Epoch)
    BY LogFacts DEF IInv
  <2> QED BY <1>2, <1>3, <2>1, GoodTrim DEF Good
<1>5. /\ DOMAIN c = {e \in DOMAIN cache : cache[e] < next'}
      /\ \A e \in DOMAIN c : c[e] = cache[e]
  BY <1>4, ClearLatestKeeps, ZenonT(30)
<1>6. c \in History(Epoch, Anchor)
  BY <1>4 DEF Good
<1> HIDE DEF c
<1>7. f < next' /\ \A x \in DOMAIN recs' : f <= x
  <2>1. CASE DOMAIN recs' = {}
    <3>1. f = -1
      BY <1>1, <2>1 DEF OldestIs
    <3>2. 0 <= next'
      BY <1>1, EpochAssumption, SMT
    <3> QED BY <1>3, <2>1, <3>1, <3>2, SMT
  <2>2. CASE DOMAIN recs' # {}
    BY <1>1, <2>2 DEF OldestIs
  <2> QED BY <2>1, <2>2, ZenonT(30)
<1>8. \A e \in DOMAIN r : r[e] < next'
  <2>1. \A e \in DOMAIN r : e \in DOMAIN c /\ (r[e] = c[e] \/ r[e] = f)
    BY <1>6, ClearEarliestMoves
  <2> QED BY <1>5, <1>7, <2>1
<1>9. Covered'
  <2> SUFFICES ASSUME NEW o \in DOMAIN recs', recs'[o] # 0,
                      ~OldestIs(o, DOMAIN recs')
               PROVE  Entered(r, recs', o)
    BY <1>1 DEF Covered, c
  <2>1. Entered(cache, recs', o)
    BY <1>1, <1>2, LeftCovered
  <2>2. o \in Int /\ o < next'
    BY <1>1, <1>2, HistoryElim, Numbers
  <2>3. cache[recs'[o]] \in Int
    BY <1>4, <2>1, HistoryAnchors DEF Entered
  <2>4. Entered(c, recs', o)
    BY <1>3, <1>5, <2>1, <2>2, <2>3, SMT DEF Entered
  <2>5. Within(recs', recs')
    BY DEF Within
  <2> QED BY <1>2, <1>4, <1>7, <2>4, <2>5, EnteredAboveFloor
<1>10. cache' = r
  BY <1>1 DEF c
<1> HIDE DEF r
<1>11. /\ file' = cache' /\ ~leading' /\ Covered'
       /\ DOMAIN electing' = {} /\ DOMAIN pending' = {}
       /\ \A d \in DOMAIN cache' : cache'[d] < next'
  BY <1>1, <1>8, <1>9, <1>10, NoEntriesFacts
<1> QED BY <1>11 DEF PlainInv

\* Every step keeps it.
LEMMA PlainNext ==
  IInv /\ (setting.may = {} => PlainInv) /\ [Next]_vars
    => (setting.may = {} => PlainInv)'
<1> SUFFICES ASSUME IInv, setting.may = {} => PlainInv, [Next]_vars,
                    setting'.may = {}
             PROVE  PlainInv'
  OBVIOUS
<1>0. setting.may = {} /\ PlainInv
  BY DEF Next, vars
<1>1. CASE \E e \in Epoch : NewLeaderEpoch(e)
  BY <1>0, <1>1, NewLeaderEpochPlain
<1>2. CASE NewLeaderEpochAssign
  BY <1>0, <1>2, NewLeaderEpochAssignPlain
<1>3. CASE \E b \in bases \cup {next} : Append(b)
  BY <1>0, <1>3, AppendPlain
<1>4. CASE \E b \in bases \cup {next}, o1, o2 \in Offset, e1, e2 \in Epoch,
             stamped \in BOOLEAN : AppendMessageSet(b, o1, e1, o2, e2, stamped)
  BY <1>0, <1>4, AppendMessageSetPlain, ZenonT(30)
<1>5. CASE AppendAssign
  BY <1>0, <1>5, AppendAssignPlain
<1>6. CASE \E offset \in Offset, b \in bases : Truncate(offset, b)
  BY <1>0, <1>6, TruncatePlain
<1>7. CASE \E minOffset \in 1..MaxOffset : TruncateBefore(minOffset)
  BY <1>0, <1>7, TruncateBeforePlain
<1>8. CASE \E b \in bases, D \in {{}} \cup {{o} : o \in Offset} : Clean(b, D)
  <2>1. PICK b \in bases, D \in {{}} \cup {{o} : o \in Offset} : Clean(b, D)
    BY <1>8
  <2> QED BY <1>0, <2>1, CleanPlain
<1>9. CASE \E k \in 0..MaxOffset + 1, f \in Anchor : Reopen(k, f)
  BY <1>0, <1>9, ReopenPlain, SMTT(30)
<1>10. CASE UNCHANGED vars
  BY <1>0, <1>10
     DEF PlainInv, Covered, Entered, LastLeaderEpochIs, OldestIs, vars
<1> QED BY <1>1, <1>2, <1>3, <1>4, <1>5, <1>6, <1>7, <1>8, <1>9, <1>10 DEF Next, Step

\* In the plain protocol PlainInv holds throughout.
LEMMA PlainInvariance == Spec => [](IInv /\ (setting.may = {} => PlainInv))
<1>1. Init => (setting.may = {} => PlainInv)
  BY PlainInit
<1> QED BY <1>1, InitInv, NextInv, PlainNext, PTL DEF Spec

\* In the plain protocol a leader's epoch is the latest in its history as soon as
\* NewLeaderEpoch has returned: assign, which refuses in silence, never refuses
\* an election.
THEOREM ElectionIsAlwaysRecorded == Spec => []ElectionIsRecorded
<1>1. (setting.may = {} => PlainInv) => ElectionIsRecorded
  BY NoEntriesFacts DEF PlainInv, ElectionIsRecorded
<1> QED BY <1>1, PlainInvariance, PTL

\* In the plain protocol LastOffsetForLeaderEpoch tells a follower to keep no
\* record of a later epoch than the one it asked about, the oldest excepted:
\* with ProbeAlwaysKeepsSharedHistory, the cut is exact above the floor.
THEOREM ProbeAlwaysCutsAboveFloor == Spec => []ProbeCutsAboveFloor
<1>1. IInv /\ (setting.may = {} => PlainInv) => ProbeCutsAboveFloor
  <2> SUFFICES ASSUME IInv, PlainInv, Settled,
                      NEW e \in Epoch, NEW a \in Anchor, AnswerIs(e, a),
                      NEW o \in DOMAIN recs, o <= a, ~OldestIs(o, DOMAIN recs)
               PROVE  recs[o] <= e
    BY DEF ProbeCutsAboveFloor
  <2>0. recs[o] \in Int /\ e \in Int
    BY LogFacts, Numbers, ZenonT(30)
  <2> SUFFICES ASSUME recs[o] > e PROVE FALSE
    BY <2>0, SMT
  <2> DEFINE d == recs[o]
  <2>1. d \in Int /\ e \in Int /\ d # 0 /\ d > e /\ o \in Int /\ a \in Int
    BY LogFacts, Numbers, EpochAssumption, SMT DEF Epoch
  <2>2. d \in DOMAIN cache /\ cache[d] < o
    BY <2>1, SettledCovered DEF Entered
  <2> HIDE DEF d
  <2>3. PICK x \in DOMAIN cache :
           x > e /\ a = cache[x] /\ \A y \in DOMAIN cache : y > e => x <= y
    BY <2>1, <2>2 DEF AnswerIs
  <2>4. /\ \A y \in DOMAIN cache : y \in Int /\ cache[y] \in Int
        /\ Ascends(cache)
    BY HistoryAnchors DEF IInv, Good
  <2>5. cache[x] <= cache[d]
    BY <2>1, <2>2, <2>3, <2>4, SMT DEF Ascends
  <2> QED BY <2>1, <2>2, <2>3, <2>4, <2>5, SMT
<1> QED BY <1>1, PlainInvariance, PTL

=============================================================================

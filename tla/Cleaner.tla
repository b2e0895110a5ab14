------------------------------ MODULE Cleaner -------------------------------
(***************************************************************************)
(* The maintenance pass of a local log: retention (delete_cleaner.go),     *)
(* compaction (compact_cleaner.go) over the key digests of the segments    *)
(* (keydigest.go), and the join of small neighbours (clean_join.go), as    *)
(* cleanPass (clean.go) runs them under cleanMu while appends roll the     *)
(* active segment, a crash cuts the pass short, and an open recovers.      *)
(*                                                                         *)
(* A pass reads the segment list once, works on the files, and publishes   *)
(* the list it ends with.  In between, the published list names objects    *)
(* whose files the pass has replaced or removed.                           *)
(***************************************************************************)
EXTENDS Transactions, Sequences, SequencesExt, TLC

CONSTANTS Keys,
          Gone,        \* stands for a segment that left the log with no successor
          MaxOffset,   \* bound: no setting appends at or past this offset
          Settings     \* the ways the log and its caller are set up

VARIABLES seg,         \* disk: base offset -> content, the segment files
          digest,      \* disk: base offset -> [size, recs, stamp], the .keys files
          list,        \* memory: the published segments, as [base, first, last]
          away,        \* memory: base of a listed segment that left -> successor or Gone
          pass,        \* memory: the pass in flight
          view,        \* what readers of decided records hold, by View
          floor,       \* the highest verified floor a pass has returned
          faults,      \* crashes and failed removals so far
          setting      \* the member of Settings this behaviour runs under

vars == <<seg, digest, list, away, pass, view, floor, faults, setting>>

L == INSTANCE Lookup

Idle == [at |-> "idle"]
Infinity == MaxOffset + 1

-----------------------------------------------------------------------------
(* Segments. *)

EntryOf(b, recs) ==
    LET D == DOMAIN recs
    IN IF D = {} THEN [base |-> b, first |-> -1, last |-> -1]
       ELSE [base |-> b, first |-> Min(D), last |-> Max(D)]

Entry(b) == EntryOf(b, seg[b])
End(b) == IF seg[b] = <<>> THEN b ELSE Max(DOMAIN seg[b]) + 1

\* segment.current, for every entry of the list.
current ==
    [i \in DOMAIN list |->
        LET b == list[i].base
            now == IF b \in DOMAIN away THEN away[b] ELSE b
        IN IF now = Gone THEN Gone ELSE Entry(now) @@ [offsets |-> DOMAIN seg[now]]]

\* seg.Position(): a record costs one, and one more for its headers.
Position(recs) == Cardinality(DOMAIN recs) + Cardinality({o \in DOMAIN recs : Headers(recs[o])})

Active == list[Len(list)].base
NextOffset == L!NextOffset(list[Len(list)])

\* Where the log's content is.  A segment whose removal failed is no longer
\* served, but the log has not lost it.
Holders == {b \in DOMAIN seg : \E i \in DOMAIN list :
               \/ list[i].base = b /\ (b \in DOMAIN away => away[b] = Gone)
               \/ list[i].base \in DOMAIN away /\ away[list[i].base] = b}

Content ==
    [o \in UNION {DOMAIN seg[b] : b \in Holders} |->
        seg[CHOOSE b \in Holders : o \in DOMAIN seg[b]][o]]

\* What a reader of decided records holds: see KeyedLog.
View(C, next) ==
    LET u == FirstUndecided(C, next)
    IN [stable |-> [k \in Keys |-> Newest(C, k, u, None)],
        unkeyed |-> VisibleOf(C, NoKey, u),
        pending |-> From(C, u)]

Without(f, S) == RestrictDomain(f, LAMBDA x : x \notin S)

-----------------------------------------------------------------------------
(* Key digests. *)

\* buildKeyDigest lists every record of the segment; stamp is stripVerifiedBelow.
buildKeyDigest(recs, stamp) == [size |-> Position(recs), recs |-> recs, stamp |-> stamp]

\* Mutant: any digest file of this base is taken for current.
LoadsAny(b) == b \in DOMAIN digest

\* loadKeyDigest accepts a file written for this base and this log size.
Loads(b) == b \in DOMAIN digest /\ digest[b].size = Position(seg[b])

\* A segment that left in a removal that failed can be read no more.
Unreadable(b) == b \in DOMAIN away

\* loadOrBuildDigests: the active segment is always read, a sealed one only when
\* it has no digest file that loads.
digestOf(b, sealed) == IF sealed /\ Loads(b) THEN digest[b] ELSE buildKeyDigest(seg[b], -1)

-----------------------------------------------------------------------------
(* Compaction: which records go. *)

stripActive(spec) == spec.stripBelow > 0

\* The records of key k that take part in the merge of the digests ds.
Part(spec, ds, k) ==
    {o \in UNION {DOMAIN ds[b].recs : b \in DOMAIN ds} :
        /\ o <= spec.ceiling
        /\ o \notin spec.aborted
        /\ \E b \in DOMAIN ds : /\ o \in DOMAIN ds[b].recs
                                /\ ~Marker(ds[b].recs[o])
                                /\ ds[b].recs[o].key = k}

\* The newest record of a key, when it is a tombstone old enough to collect.
expired(spec, ds, k) ==
    LET P == Part(spec, ds, k)
    IN {o \in P : /\ o = Max(P)
                  /\ o < spec.expiredBelow
                  /\ \E b \in DOMAIN ds : o \in DOMAIN ds[b].recs /\ Tombstone(ds[b].recs[o])}

superseded(spec, ds, k) ==
    LET P == Part(spec, ds, k) IN {o \in P : o # Max(P) /\ o < spec.ceiling}

\* mergeDigests; a pass that only strips removes nothing for its key.
mergeDigests(spec, ds) ==
    IF setting.stripOnly THEN [drops |-> {}, gc |-> {}]
    ELSE LET gc == UNION {expired(spec, ds, k) : k \in Keys}
         IN [drops |-> gc \cup UNION {superseded(spec, ds, k) : k \in Keys}, gc |-> gc]

\* canSkip: nothing in the digest is to be dropped, removed or stripped.
canSkip(spec, d, m) ==
    /\ DOMAIN d.recs \cap m.drops = {}
    /\ \A o \in DOMAIN d.recs : ~(o < spec.ceiling /\ o \in spec.aborted)
    /\ stripActive(spec) =>
           \A o \in DOMAIN d.recs : o < spec.stripBelow =>
               /\ ~Marker(d.recs[o])
               /\ Headers(d.recs[o]) => d.stamp >= spec.stripBelow

\* Mutant: only control records are held back.
lateMarkersOnly(spec, d, m) ==
    stripActive(spec) /\ \E o \in DOMAIN d.recs : Marker(d.recs[o]) /\ o < spec.stripBelow

\* A segment whose rewrite removes what governs records elsewhere: an expired
\* tombstone, or a control record.
lateRewrite(spec, d, m) ==
    \/ DOMAIN d.recs \cap m.gc # {}
    \/ stripActive(spec) /\ \E o \in DOMAIN d.recs : Marker(d.recs[o]) /\ o < spec.stripBelow

\* The order of the rewrites: the order-insensitive segments by how much they
\* shed, then the late ones oldest first.
rewriteOrder(want, late, count) ==
    SetToSortSeq(want, LAMBDA a, b :
        IF (a \in late) # (b \in late) THEN b \in late
        ELSE IF a \in late \/ count[a] = count[b] THEN a < b
        ELSE count[a] > count[b])

\* classify
classify(spec, drops, o, r) ==
    CASE o >= spec.ceiling -> "retain"
      [] o < spec.ceiling /\ Marker(r) ->
             IF o < spec.stripBelow THEN "remove" ELSE "retain"
      [] o < spec.ceiling /\ ~Marker(r) ->
             IF o \in spec.aborted \/ o \in drops THEN "remove"
             ELSE IF o < spec.stripBelow THEN "strip" ELSE "retain"

\* rewriteWalk with cleanSegment's keep: the records of the working copy.
rewritten(spec, drops, recs) ==
    LET kept == {o \in DOMAIN recs : classify(spec, drops, o, recs[o]) # "remove"}
    IN [o \in kept |-> IF classify(spec, drops, o, recs[o]) = "strip"
                       THEN [recs[o] EXCEPT !.pid = NoPid] ELSE recs[o]]

\* What cleanSegment stamps on the new digest: stripped for good, unless a record
\* at or above the boundary still has headers to lose.
stampFor(spec, recs) ==
    IF ~stripActive(spec) THEN -1
    ELSE IF \E o \in DOMAIN recs : o >= spec.stripBelow /\ Headers(recs[o])
    THEN spec.stripBelow ELSE Infinity

-----------------------------------------------------------------------------
(* Retention: how many of the oldest segments each limit lets go. *)

\* deletablePrefix: a segment may go only if the next one starts at or below the floor.
deletablePrefix(bases, f) ==
    IF f = Infinity THEN Len(bases)
    ELSE Cardinality({i \in 2..Len(bases) : bases[i] <= f})

\* applyAgeLimit: up to the first segment written to at or after the horizon, and
\* never the newest.
applyAgeLimit(bases, ttl) ==
    LET live == {i \in 1..Len(bases) :
                    i = Len(bases) \/ L!LastWriteTime(Entry(bases[i])) >= ttl}
    IN IF ttl = 0 THEN 0 ELSE Min(live) - 1

\* applyTotalLimit with MessageCount: counted back from the newest, everything
\* from the segment that exceeds the limit down, but never the newest.
applyTotalLimit(bases, limit) ==
    LET total[i \in 1..Len(bases)] ==
            Cardinality(DOMAIN seg[bases[i]]) + IF i = Len(bases) THEN 0 ELSE total[i + 1]
        over == {i \in 1..Len(bases) - 1 : total[i] > limit}
    IN IF limit = 0 \/ over = {} THEN 0 ELSE Max(over)

dropCount(p) ==
    Min({deletablePrefix(p.cleaned, p.spec.floor),
         IF p.at = "age" THEN applyAgeLimit(p.cleaned, p.spec.ttl)
                         ELSE applyTotalLimit(p.cleaned, p.spec.messages)})

-----------------------------------------------------------------------------
(* Joins. *)

\* planJoins: runs of neighbours below the cap, as long as the run stays within it.
planJoins(bases, cap) ==
    LET flush(acc) == IF Len(acc.cur) > 1 THEN Append(acc.runs, acc.cur) ELSE acc.runs
        step(acc, b) ==
            LET size == Position(seg[b])
            IN IF size >= cap THEN [runs |-> flush(acc), cur |-> <<>>, bytes |-> 0]
               ELSE IF acc.cur # <<>> /\ acc.bytes + size <= cap
               THEN [acc EXCEPT !.cur = Append(@, b), !.bytes = @ + size]
               ELSE [runs |-> flush(acc), cur |-> <<b>>, bytes |-> size]
        start == [runs |-> <<>>, cur |-> <<>>, bytes |-> 0]
    IN IF Len(bases) < 3 THEN <<>>
       ELSE flush(FoldLeft(step, start, Front(bases)))

\* Mutant: the whole prefix is vouched for, past the strip boundary.
verifiedFloorUncapped(p) ==
    LET fine == {i \in DOMAIN p.planned : \A j \in 1..i : p.planned[j].base \in p.clean}
    IN IF p.failed \/ fine = {} THEN -1 ELSE p.planned[Max(fine)].last

\* The longest prefix of the planned segments that this pass rewrote or found
\* converged, capped at the strip boundary.
verifiedFloor(p) ==
    LET fine == {i \in DOMAIN p.planned : \A j \in 1..i : p.planned[j].base \in p.clean}
    IN IF p.failed \/ fine = {} THEN -1
       ELSE Min({p.planned[Max(fine)].last, p.spec.stripBelow - 1})

-----------------------------------------------------------------------------
(* The open after a crash. *)

\* resolveSegmentOverlaps: a segment inside the one before it is dropped.
kept == {b \in DOMAIN seg : \A c \in DOMAIN seg : c < b => End(c) <= b}

\* Mutant: a segment that ends where its container ends is refused too.
openRefusedAtEnd == \E b \in DOMAIN seg \ kept : \A c \in kept : c < b => End(c) <= End(b)

\* ... and one that reaches past it makes the open fail.
openRefused == \E b \in DOMAIN seg \ kept : \A c \in kept : c < b => End(c) < End(b)

-----------------------------------------------------------------------------
(* What the caller of CleanWithSpec asks for. *)

\* A transactional caller bounds compaction by the last decided offset, or holds
\* the bound lower; strips below a decided offset; and keeps retention off its
\* open transactions.
SpecsFor(C, u) ==
    LET ceilings == IF setting.ceiling = "first undecided" THEN {u}
                    ELSE (u - 1 - setting.slack)..(u - 1)
        strips(c) == CASE setting.strip = "no" -> {0}
                       [] setting.strip = "to the ceiling" -> {0, Max({c, 0})}
                       [] setting.strip = "below the ceiling" -> {0} \cup 1..c
                       [] setting.strip = "all decided" -> {u}
    IN UNION {[ceiling : {c}, stripBelow : strips(c), aborted : {{o \in DOMAIN C : Aborted(C, o)}},
               expiredBelow : setting.expired, youngFrom : setting.young,
               floor : {IF u = NextOffset THEN Infinity ELSE u},
               ttl : setting.ttls, messages : setting.limits] : c \in ceilings}

Specs == UNION {SpecsFor(C, FirstUndecided(C, NextOffset)) : C \in {Content}}

-----------------------------------------------------------------------------
Init ==
    /\ seg = 0 :> <<>>
    /\ digest = <<>>
    /\ list = <<[base |-> 0, first |-> -1, last |-> -1]>>
    /\ away = <<>>
    /\ pass = Idle
    /\ view = View(<<>>, 0)
    /\ floor = -1
    /\ faults = 0
    /\ setting \in Settings

\* append, with the roll checkAndPerformSplit makes first when the segment is full.
\* The layer above ends a transaction it has begun.  A segment that left takes no
\* record.
AppendRecord(r) ==
    LET o == NextOffset
        b == IF Cardinality(DOMAIN seg[Active]) >= setting.roll THEN o ELSE Active
        recs == o :> r @@ IF b = Active THEN seg[b] ELSE <<>>
        e == EntryOf(b, recs)
    IN /\ o < setting.offsets
       /\ ~Unreadable(b)
       /\ Marker(r) => \E x \in DOMAIN view.pending :
                          Undecided(view.pending, x) /\ view.pending[x].pid = r.pid
       /\ seg' = b :> recs @@ seg
       /\ list' = IF b = Active THEN Front(list) \o <<e>> ELSE Append(list, e)
       /\ UNCHANGED <<digest, away, pass, floor, faults>>

\* CleanWithSpec enters cleanPass, which reads the list.
CleanWithSpec(spec) ==
    /\ pass = Idle
    /\ pass' = [at |-> IF spec.ttl = 0 /\ spec.messages = 0 THEN "compact" ELSE "age",
                spec |-> spec, old |-> Len(list), verified |-> -1,
                cleaned |-> [i \in DOMAIN list |-> list[i].base]]
    /\ UNCHANGED <<seg, digest, list, away, floor, faults>>

\* dropOldestPrefix removes one segment, or a limit has nothing more to remove.
Retain ==
    /\ pass.at \in {"age", "messages"}
    /\ IF dropCount(pass) = 0
       THEN /\ pass' = [pass EXCEPT !.at = IF @ = "age" THEN "messages" ELSE "compact"]
            /\ UNCHANGED <<seg, digest, away>>
       ELSE LET b == Head(pass.cleaned)
            IN /\ seg' = Without(seg, {b})
               /\ digest' = Without(digest, {b})
               /\ away' = b :> Gone @@ away
               /\ pass' = [pass EXCEPT !.cleaned = Tail(@)]
    /\ UNCHANGED <<list, floor, faults>>

\* The removal fails: the segment has left, its file has not, and the pass
\* publishes what it has.
RetainFails ==
    /\ pass.at \in {"age", "messages"}
    /\ dropCount(pass) > 0
    /\ faults < setting.faults
    /\ faults' = faults + 1
    /\ away' = Head(pass.cleaned) :> Gone @@ away
    /\ pass' = [pass EXCEPT !.at = "publish"]
    /\ UNCHANGED <<seg, digest, list, floor>>

afterCompact == IF setting.join = 0 THEN "publish" ELSE "plan joins"

\* compact: digests are loaded or built, merged, and the rewrites put in order.
\* A segment that cannot be read for its digest ends the pass before it rewrites.
Compact ==
    LET n      == Len(pass.cleaned)
        all    == Range(pass.cleaned)
        sealed == all \ {Last(pass.cleaned)}
    IN /\ pass.at = "compact"
       /\ IF ~setting.compact \/ n <= 1
          THEN /\ pass' = [pass EXCEPT !.at = afterCompact]
               /\ UNCHANGED digest
          ELSE IF \E b \in all : Unreadable(b) /\ ~(b \in sealed /\ Loads(b))
          THEN /\ pass' = [pass EXCEPT !.at = "publish"]
               /\ UNCHANGED digest
          ELSE \E ds \in {[b \in all |-> digestOf(b, b \in sealed)]} :
               \E m \in {mergeDigests(pass.spec, ds)} :
                  LET old   == {b \in sealed : End(b) <= pass.spec.youngFrom}
                      skips == {b \in old : canSkip(pass.spec, ds[b], m)}
                      late  == {b \in sealed : lateRewrite(pass.spec, ds[b], m)}
                      count == [b \in sealed |-> Cardinality(DOMAIN ds[b].recs \cap m.drops)]
                  IN /\ digest' = [b \in sealed |-> ds[b]] @@ digest
                     /\ pass' = [pass EXCEPT !.at = "rewrite"] @@
                           [planned |-> [i \in 1..n - 1 |-> Entry(pass.cleaned[i])],
                            order |-> rewriteOrder(old \ skips, late, count), late |-> late,
                            drops |-> m.drops, clean |-> skips, skipped |-> FALSE, spent |-> 0,
                            failed |-> FALSE]
       /\ UNCHANGED <<seg, list, away, floor, faults>>

\* Mutant: the first rewrite waits for time too.
AllowsInTime(spent, timeLeft) == timeLeft

\* rewriteBudget.allow: the first rewrite of a stage always, a later one while
\* time is left.
Allows(spent, timeLeft) == spent = 0 \/ timeLeft

\* The budget is spent: an order-insensitive segment is passed over, a late one
\* ends the rewrites, as does anything passed over before it.
RewriteSkips(timeLeft) ==
    /\ pass.at = "rewrite"
    /\ pass.order # <<>>
    /\ \/ ~Allows(pass.spent, timeLeft)
       \/ Head(pass.order) \in pass.late /\ pass.skipped
    /\ pass' = IF Head(pass.order) \in pass.late THEN [pass EXCEPT !.order = <<>>]
               ELSE [pass EXCEPT !.order = Tail(@), !.skipped = TRUE]
    /\ UNCHANGED <<seg, digest, list, away, floor, faults>>

\* cleanSegment on the next segment in the order.  The working copy becomes the
\* segment by one rename (Replace), the digest is written after it.  A segment
\* left empty goes, and one that lost nothing keeps its file.
RewriteSegment(timeLeft) ==
    LET b    == Head(pass.order)
        recs == rewritten(pass.spec, pass.drops, seg[b])
        done == [pass EXCEPT !.order = Tail(@), !.spent = @ + 1, !.clean = @ \cup {b}]
    IN /\ pass.at = "rewrite"
       /\ pass.order # <<>>
       /\ Allows(pass.spent, timeLeft)
       /\ ~(b \in pass.late /\ pass.skipped)
       /\ ~Unreadable(b)
       /\ IF recs = <<>>
          THEN /\ seg' = Without(seg, {b})
               /\ digest' = Without(digest, {b})
               /\ away' = b :> Gone @@ away
               /\ pass' = [done EXCEPT !.cleaned = SelectSeq(@, LAMBDA x : x # b)]
          ELSE /\ seg' = [seg EXCEPT ![b] = recs]
               /\ pass' = [done EXCEPT !.at = "refresh"] @@ [rewrote |-> b]
               /\ UNCHANGED <<digest, away>>
       /\ UNCHANGED <<list, floor, faults>>

\* refreshDigest
RefreshDigest ==
    LET b == pass.rewrote
    IN /\ pass.at = "refresh"
       /\ digest' = b :> buildKeyDigest(seg[b], stampFor(pass.spec, seg[b])) @@ digest
       /\ pass' = [Without(pass, {"rewrote"}) EXCEPT !.at = "rewrite"]
       /\ UNCHANGED <<seg, list, away, floor, faults>>

\* A rewrite fails before its rename, or its segment cannot be read: the pass
\* stops rewriting and keeps what it has done.
RewriteFails(timeLeft) ==
    /\ pass.at = "rewrite"
    /\ pass.order # <<>>
    /\ Allows(pass.spent, timeLeft)
    /\ ~(Head(pass.order) \in pass.late /\ pass.skipped)
    /\ IF Unreadable(Head(pass.order)) THEN UNCHANGED faults
       ELSE faults < setting.faults /\ faults' = faults + 1
    /\ pass' = [pass EXCEPT !.order = <<>>, !.failed = TRUE]
    /\ UNCHANGED <<seg, digest, list, away, floor>>

\* cleanupEmptySegment fails at its last step: the segment left empty has left
\* the log, its digest is gone and its file is not.
CleanupEmptyFails(timeLeft) ==
    LET b == Head(pass.order)
    IN /\ pass.at = "rewrite"
       /\ pass.order # <<>>
       /\ Allows(pass.spent, timeLeft)
       /\ ~(b \in pass.late /\ pass.skipped)
       /\ ~Unreadable(b)
       /\ rewritten(pass.spec, pass.drops, seg[b]) = <<>>
       /\ faults < setting.faults
       /\ faults' = faults + 1
       /\ digest' = Without(digest, {b})
       /\ away' = b :> Gone @@ away
       /\ pass' = [pass EXCEPT !.order = <<>>, !.failed = TRUE]
       /\ UNCHANGED <<seg, list, floor>>

\* compact returns its verified floor; a failed one is published without joins.
CompactReturns ==
    /\ pass.at = "rewrite"
    /\ pass.order = <<>>
    /\ pass' = [at |-> IF pass.failed THEN "publish" ELSE afterCompact, spec |-> pass.spec,
                old |-> pass.old, cleaned |-> pass.cleaned, verified |-> verifiedFloor(pass)]
    /\ UNCHANGED <<seg, digest, list, away, floor, faults>>

PlanJoins ==
    LET runs == planJoins(pass.cleaned, setting.join)
    IN /\ pass.at = "plan joins"
       /\ pass' = IF runs = <<>> THEN [pass EXCEPT !.at = "publish"]
                  ELSE [pass EXCEPT !.at = "join"] @@ [runs |-> runs, spent |-> 0]
       /\ UNCHANGED <<seg, digest, list, away, floor, faults>>

\* joinOne commits: the joined copy takes the first input's place by one rename.
\* An input that cannot be read ends the pass's joins.
JoinReplaces(timeLeft) ==
    LET run   == Head(pass.runs)
        first == Head(run)
    IN /\ pass.at = "join"
       /\ pass.runs # <<>>
       /\ Allows(pass.spent, timeLeft)
       /\ IF \E i \in DOMAIN run : Unreadable(run[i])
          THEN /\ pass' = [pass EXCEPT !.runs = <<>>, !.verified = -1]
               /\ UNCHANGED seg
          ELSE /\ seg' = [seg EXCEPT ![first] =
                             [o \in UNION {DOMAIN seg[run[i]] : i \in DOMAIN run} |-> Content[o]]]
               /\ pass' = [pass EXCEPT !.at = "retire", !.spent = @ + 1,
                                       !.cleaned = SelectSeq(@, LAMBDA x : x \notin Range(Tail(run)))]
                          @@ [inputs |-> Tail(run)]
       /\ UNCHANGED <<digest, list, away, floor, faults>>

JoinSkips(timeLeft) ==
    /\ pass.at = "join"
    /\ pass.runs # <<>>
    /\ ~Allows(pass.spent, timeLeft)
    /\ pass' = [pass EXCEPT !.runs = Tail(@)]
    /\ UNCHANGED <<seg, digest, list, away, floor, faults>>

\* retireJoinedInputs removes the next input; a file that will not go is left.
JoinRetires(removes) ==
    LET b == Head(pass.inputs)
    IN /\ pass.at = "retire"
       /\ pass.inputs # <<>>
       /\ away' = b :> Head(Head(pass.runs)) @@ away
       /\ IF removes
          THEN seg' = Without(seg, {b}) /\ digest' = Without(digest, {b}) /\ UNCHANGED faults
          ELSE setting.leftovers /\ UNCHANGED <<seg, digest, faults>>
       /\ pass' = [pass EXCEPT !.inputs = Tail(@)]
       /\ UNCHANGED <<list, floor>>

\* refreshJoinedDigest, when the first input had a digest.
JoinRefreshes ==
    LET first == Head(Head(pass.runs))
    IN /\ pass.at = "retire"
       /\ pass.inputs = <<>>
       /\ digest' = IF first \in DOMAIN digest
                    THEN first :> buildKeyDigest(seg[first], -1) @@ digest ELSE digest
       /\ pass' = [Without(pass, {"inputs"}) EXCEPT !.at = "join", !.runs = Tail(@)]
       /\ UNCHANGED <<seg, list, away, floor, faults>>

\* cleanPass publishes what the stages left, with the segments rolled meanwhile.
Publish ==
    LET rolled == SubSeq(list, pass.old + 1, Len(list))
        stands(b) == IF Unreadable(b) THEN CHOOSE e \in Range(list) : e.base = b ELSE Entry(b)
        cleaned == [i \in DOMAIN pass.cleaned |-> stands(pass.cleaned[i])]
    IN /\ \/ pass.at = "publish"
          \/ pass.at = "join" /\ pass.runs = <<>>
       /\ list' = cleaned \o rolled
       /\ away' = RestrictDomain(away, LAMBDA b : \E e \in Range(list') : e.base = b)
       /\ floor' = Max({floor, pass.verified})
       /\ pass' = Idle
       /\ UNCHANGED <<seg, digest, faults>>

\* The process dies, and the log is opened again from its files.
CrashAndOpen ==
    /\ faults < setting.faults
    /\ ~openRefused
    /\ seg' = Restrict(seg, kept)
    /\ digest' = Without(digest, DOMAIN seg \ kept)
    /\ list' = LET bases == SetToSortSeq(kept, <) IN [i \in DOMAIN bases |-> Entry(bases[i])]
    /\ away' = <<>>
    /\ pass' = Idle
    /\ faults' = faults + 1
    /\ UNCHANGED <<floor>>

\* Truncate cuts the log at o, under cleanMu.  The digest of the segment the cut
\* falls in stays where it is.  Segments that left are not found: one may become
\* the last of the list.
Truncate(o) ==
    LET found == L!findSegment(list, current, o)
        s    == found.base
        recs == RestrictDomain(seg[s], LAMBDA x : x < o)
        stay == IF s # o \/ s = list[1].base THEN {s} ELSE {}
        gone == {b \in DOMAIN seg : b >= s} \ stay
    IN /\ setting.truncates
       /\ pass = Idle
       /\ o \in 0..NextOffset - 1
       /\ o > list[1].base
       /\ found # Gone
       /\ seg' = [b \in DOMAIN seg \ gone |-> IF b = s THEN recs ELSE seg[b]]
       /\ digest' = Without(digest, gone)
       /\ list' = [i \in 1..Cardinality({e \in Range(list) : e.base \notin gone}) |->
                      IF list[i].base = s THEN EntryOf(s, recs) ELSE list[i]]
       /\ away' = Without(away, gone)
       /\ UNCHANGED <<pass, floor, faults>>

PassStep ==
    \/ Retain
    \/ RetainFails
    \/ Compact
    \/ \E timeLeft \in BOOLEAN : \/ RewriteSkips(timeLeft)
                                 \/ RewriteSegment(timeLeft)
                                 \/ RewriteFails(timeLeft)
                                 \/ CleanupEmptyFails(timeLeft)
                                 \/ JoinReplaces(timeLeft)
                                 \/ JoinSkips(timeLeft)
    \/ RefreshDigest
    \/ CompactReturns
    \/ PlanJoins
    \/ \E removes \in BOOLEAN : JoinRetires(removes)
    \/ JoinRefreshes
    \/ Publish

Next ==
    /\ \/ \E r \in setting.records : AppendRecord(r)
       \/ pass = Idle /\ \E spec \in Specs : CleanWithSpec(spec)
       \/ PassStep
       \/ CrashAndOpen
       \/ \E o \in 0..MaxOffset : Truncate(o)
    /\ \E C \in {Content'} : \E next \in {NextOffset'} : view' = View(C, next)
    /\ UNCHANGED setting

Spec == Init /\ [][Next]_vars

\* The cleaner's ticker starts a pass whenever none runs, and a running pass goes on.
FairSpec == Spec /\ WF_pass(pass = Idle /\ \E spec \in Specs : CleanWithSpec(spec)) /\ WF_pass(PassStep)

-----------------------------------------------------------------------------
(* Properties. *)

\* Files, digests, lists and the links a pass leaves behind hold offsets of the log, and the
\* pass is at one of CleanWithSpec's steps.
TypeOK ==
    /\ \A b \in DOMAIN seg : b \in 0..MaxOffset /\ DOMAIN seg[b] \subseteq b..MaxOffset
    /\ \A b \in DOMAIN digest : digest[b].stamp \in -1..Infinity
    /\ \A i \in DOMAIN list : list[i].base \in 0..MaxOffset
    /\ \A b \in DOMAIN away : away[b] \in {Gone} \cup DOMAIN seg
    /\ pass.at \in {"idle", "age", "messages", "compact", "rewrite", "refresh", "plan joins",
                    "join", "retire", "publish"}
    /\ floor \in -1..MaxOffset
    /\ setting \in Settings

\* The log as its readers see it.
KL == INSTANCE KeyedLog WITH
          Records <- UNION {s.records : s \in Settings},
          stable  <- view.stable,
          unkeyed <- view.unkeyed,
          pending <- view.pending,
          next    <- NextOffset,
          retains   <- setting.ttls # {0} \/ setting.limits # {0},
          truncates <- setting.truncates

\* A log that is rolled, retained, compacted, joined, truncated, killed at any
\* step of a pass and opened again implements KeyedLog: only an append changes
\* what a reader of decided records holds for a key, except that retention forgets
\* a prefix and a truncation cuts a suffix, and no pass touches a record that is
\* not decided (clean.go, CleanSpec).
ImplementsKeyedLog == KL!KSpec

\* Whatever the pass in flight has done to the segments the list still names, a
\* read at any offset of the log is served the first record at or after it
\* (findSegment, readMessageSetFrom), and the offset found for a timestamp is that
\* of the first record served at or after it, ties across a roll included
\* (earliestOffsetAfterTimestampLocked).
LookupsFindTheirRecord ==
    LET cur == current
        served == UNION {c.offsets : c \in Range(cur) \ {Gone}}
    IN /\ \A o \in 0..MaxOffset :
              LET after == {x \in served : x >= o}
              IN after # {} => L!firstRead(list, cur, o) = Min(after)
       /\ \A t \in 0..L!Timestamp(MaxOffset) :
              LET after == {x \in served : L!Timestamp(x) >= t}
              IN L!earliestOffsetAfterTimestamp(list, cur, t)
                     = IF after = {} THEN NextOffset ELSE Min(after)

\* At or below a verified floor the log holds no transactional headers and no
\* control records, so that a rebuild may start above it (interface.go,
\* CleanWithSpec).
VerifiedFloorHolds ==
    \A b \in Holders : \A o \in DOMAIN seg[b] :
        o <= floor => ~Marker(seg[b][o]) /\ ~Headers(seg[b][o])

\* A digest that loads for a sealed segment lists exactly its records: a rewrite,
\* a join or a crash between a rename and the digest's own write leaves none that
\* describes replaced content (keydigest.go).
LoadedDigestsAreCurrent ==
    \A b \in DOMAIN seg \ {Active} : Loads(b) => digest[b].recs = seg[b]

\* The files a killed pass leaves behind are ones the open accepts
\* (resolveSegmentOverlaps).
OpenAcceptsTheFiles == ~openRefused

\* What compaction may remove from the sealed segments is still there.
Debt(spec) ==
    LET bases == {e.base : e \in Range(list)}
        drops == mergeDigests(spec, [b \in bases |-> buildKeyDigest(seg[b], -1)]).drops
    IN \E b \in bases \ {Active} :
           End(b) <= spec.youngFrom /\ DOMAIN seg[b] \cap (drops \cup spec.aborted) # {}

\* Once the log is left alone, passes remove everything compaction may remove
\* from its sealed segments, though a budget may let only one rewrite of each
\* pass through (rewriteBudget, and the order of the rewrites).  A segment whose
\* removal failed is listed but cannot be read, which ends every later pass: the
\* promise is for a log that lists none, as one just opened does.
DebtDrains ==
    setting.compact /\ ~setting.truncates /\ setting.ttls = {0} /\ setting.limits = {0} =>
        <>[](pass = Idle /\ DOMAIN away = {} => \E spec \in Specs : ~Debt(spec))
=============================================================================

------------------------------- MODULE Lookup -------------------------------
(***************************************************************************)
(* The searches over the published segment list (util.go, commitlog.go,    *)
(* segment.go).  list[i] is a segment object as the list holds it,         *)
(*     [base, first, last]                                                 *)
(* with first = last = -1 while it holds no record.  A pass in flight      *)
(* replaces and removes segments the list still names: cur[i] is what now  *)
(* stands for list[i] (segment.current), with the set of offsets it holds, *)
(*     [base, first, last, offsets]                                        *)
(* or Gone.                                                                *)
(***************************************************************************)
EXTENDS Integers, Sequences, FiniteSetsExt

CONSTANT Gone

NextOffset(e) == IF e.last = -1 THEN e.base ELSE e.last + 1

\* The clock moves slower than the offsets, so that neighbours, in one segment
\* or across two, share a timestamp.
Timestamp(o) == (o + 1) \div 2
FirstWriteTime(e) == IF e.first = -1 THEN 0 ELSE Timestamp(e.first)
LastWriteTime(e) == IF e.last = -1 THEN 0 ELSE Timestamp(e.last)

\* sort.Search over 1..n for the indexes in yes: the binary search itself, since
\* the predicate need not be monotone over a list whose objects a pass has replaced.
SortSearch(n, yes) ==
    LET S[i \in 1..n + 1, j \in 1..n + 1] ==
            IF i >= j THEN i
            ELSE LET h == (i + j) \div 2
                 IN IF h \in yes THEN S[i, h] ELSE S[h + 1, j]
    IN S[1, n + 1]

\* Mutant: what replaced an entry is not looked at again.
findSegmentOnce(list, cur, o) ==
    LET idx == SortSearch(Len(list), {i \in DOMAIN list : NextOffset(list[i]) > o})
        fit == {i \in idx..Len(list) : cur[i] # Gone}
    IN IF fit = {} THEN Gone ELSE cur[Min(fit)]

\* findSegment: the object holding o, or the first one after it.
findSegment(list, cur, o) ==
    LET idx == SortSearch(Len(list), {i \in DOMAIN list : NextOffset(list[i]) > o})
        fit == {i \in idx..Len(list) : cur[i] # Gone /\ NextOffset(cur[i]) > o}
    IN IF fit = {} THEN Gone ELSE cur[Min(fit)]

\* readMessageSetFrom: the first record served for a read at o.  A segment that
\* starts after o is read from its beginning, the others from findEntry(o).
firstRead(list, cur, o) ==
    LET s == findSegment(list, cur, o)
        from == IF s = Gone THEN {} ELSE {x \in s.offsets : s.base <= o => x >= o}
    IN IF from = {} THEN -1 ELSE Min(from)

findSegmentIndexByTimestamp(list, t) ==
    SortSearch(Len(list),
               {i \in DOMAIN list : list[i].first = -1 \/ FirstWriteTime(list[i]) > t})

\* findEntryByTimestampResolving: the offsets at or after t in what stands for an entry.
entriesFrom(c, t) == IF c = Gone THEN {} ELSE {x \in c.offsets : Timestamp(x) >= t}

\* Back from the segment the search names over every neighbour that ends at or
\* after t, then forward to the first record at or after t.
earliestOffsetAfterTimestamp(list, cur, t) ==
    LET idx == findSegmentIndexByTimestamp(list, t)
        at  == IF idx > 1 THEN idx - 1 ELSE 1
        Back[i \in 1..Len(list)] ==
            IF i > 1 /\ LastWriteTime(list[i - 1]) >= t THEN Back[i - 1] ELSE i
        hit == {i \in Back[at]..Len(list) : entriesFrom(cur[i], t) # {}}
    IN IF hit = {} THEN NextOffset(list[Len(list)])
       ELSE Min(entriesFrom(cur[Min(hit)], t))
=============================================================================

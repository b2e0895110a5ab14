----------------------------- MODULE IndexCache -----------------------------
(***************************************************************************)
(* RemoteIndexCache (index_cache.go): the indexes of offloaded segments,   *)
(* downloaded to a local directory on the first seek that needs them.      *)
(*                                                                         *)
(* A download is written to a file named after its object key, outside the *)
(* cache's lock.  Downloads of one key are told apart by a number, gen:    *)
(* file[k] is the download the file of k holds.  The pins of an entry are  *)
(* the seeks that use it.                                                  *)
(***************************************************************************)
EXTENDS Integers, Sequences, FiniteSets, FiniteSetsExt, Functions

CONSTANTS Keys,        \* index object keys
          Seekers,     \* goroutines that seek
          Budget       \* how many indexes fit the cache

VARIABLES lru,         \* the cached keys, the most recently used first
          cached,      \* key -> gen of the entry
          file,        \* key -> gen of the download in its file, 0 for no file
          seek         \* seeker -> what it is doing

cacheVars == <<lru, cached, file, seek>>

NoSeek == [at |-> "idle"]

CacheInit ==
    /\ lru = <<>>
    /\ cached = <<>>
    /\ file = [k \in Keys |-> 0]
    /\ seek = [s \in Seekers |-> NoSeek]

Using(k, g) == {s \in Seekers : seek[s] = [at |-> "use", key |-> k, gen |-> g]}
Inflight(k) == \E s \in Seekers : seek[s].at = "fetch" /\ seek[s].key = k

\* A number no download still in sight has.
FreshGen ==
    Min(1..Cardinality(Seekers) + 1 + Cardinality(Keys) \ (Range(cached) \cup {seek[s].gen :
            s \in {x \in Seekers : seek[x].at \in {"use", "fetch"}}}))

\* acquire, from the top of its loop: a hit pins the entry, a download under way
\* is waited for, a miss starts one.  The download creates the file, which
\* truncates the one that is there.
Acquire(s, k) ==
    /\ \/ seek[s].at = "idle"
       \/ seek[s] = [at |-> "wait", key |-> k]
    /\ IF k \in DOMAIN cached
       THEN /\ seek' = [seek EXCEPT ![s] = [at |-> "use", key |-> k, gen |-> cached[k]]]
            /\ lru' = <<k>> \o SelectSeq(lru, LAMBDA x : x # k)
            /\ UNCHANGED file
       ELSE IF Inflight(k)
       THEN /\ seek' = [seek EXCEPT ![s] = [at |-> "wait", key |-> k]]
            /\ UNCHANGED <<lru, file>>
       ELSE /\ seek' = [seek EXCEPT ![s] = [at |-> "fetch", key |-> k, gen |-> FreshGen]]
            /\ file' = [file EXCEPT ![k] = FreshGen]
            /\ UNCHANGED lru
    /\ UNCHANGED cached

\* evictLocked: from the back of the list, entries nobody uses, while over budget.
evictLocked(l, unused) ==
    LET spare == {i \in DOMAIN l : l[i] \in unused}
        over  == Len(l) - Budget
    IN {l[i] : i \in {j \in spare : Cardinality({h \in spare : h > j}) < over}}

\* acquire, once its download is complete.
FetchDone(s) ==
    LET k == seek[s].key
        l == <<k>> \o lru
        c == [x \in DOMAIN cached \cup {k} |-> IF x = k THEN seek[s].gen ELSE cached[x]]
        out == evictLocked(l, {x \in DOMAIN cached \ {k} : Using(x, cached[x]) = {}})
    IN /\ seek[s].at = "fetch"
       /\ lru' = SelectSeq(l, LAMBDA x : x \notin out)
       /\ cached' = RestrictDomain(c, LAMBDA x : x \notin out)
       /\ file' = [x \in Keys |-> IF x \in out THEN 0 ELSE file[x]]
       /\ seek' = [seek EXCEPT ![s] = [@ EXCEPT !.at = "use"]]

\* fetch fails, which removes the file and is no verdict for those that wait.
FetchFails(s) ==
    /\ seek[s].at = "fetch"
    /\ file' = [file EXCEPT ![seek[s].key] = 0]
    /\ seek' = [seek EXCEPT ![s] = NoSeek]
    /\ UNCHANGED <<lru, cached>>

\* release: the last pin of a detached entry closes it and removes its file.
Release(s) ==
    LET k == seek[s].key
        g == seek[s].gen
        detached == ~(k \in DOMAIN cached /\ cached[k] = g)
    IN /\ seek[s].at = "use"
       /\ seek' = [seek EXCEPT ![s] = NoSeek]
       /\ file' = IF detached /\ Using(k, g) = {s} THEN [file EXCEPT ![k] = 0] ELSE file
       /\ UNCHANGED <<lru, cached>>

\* Mutant: the file goes under those that use it.
InvalidateInUse(ks) ==
    LET out == ks \cap DOMAIN cached
    IN /\ lru' = SelectSeq(lru, LAMBDA x : x \notin out)
       /\ cached' = RestrictDomain(cached, LAMBDA x : x \notin out)
       /\ file' = [x \in Keys |-> IF x \in out THEN 0 ELSE file[x]]
       /\ UNCHANGED seek

\* Invalidate: the entry is found no more; if nobody uses it, its file goes too.
Invalidate(ks) ==
    LET out == ks \cap DOMAIN cached
    IN /\ lru' = SelectSeq(lru, LAMBDA x : x \notin out)
       /\ cached' = RestrictDomain(cached, LAMBDA x : x \notin out)
       /\ file' = [x \in Keys |-> IF x \in out /\ Using(x, cached[x]) = {} THEN 0 ELSE file[x]]
       /\ UNCHANGED seek

\* A process that starts clears the directory (NewRemoteIndexCache).
NewRemoteIndexCache ==
    /\ lru' = <<>>
    /\ cached' = <<>>
    /\ file' = [k \in Keys |-> 0]
    /\ seek' = [s \in Seekers |-> NoSeek]

CacheOK ==
    /\ Range(lru) = DOMAIN cached /\ Len(lru) = Cardinality(DOMAIN cached)
    /\ \A s \in Seekers : seek[s].at \in {"idle", "wait", "fetch", "use"}

\* The file under an index a seek is using is the one it acquired
\* (index_cache.go, Invalidate, evictLocked and release).
IndexStaysUnderSeek ==
    \A s \in Seekers : seek[s].at \in {"use", "fetch"} => file[seek[s].key] = seek[s].gen

\* A file in the cache directory is an entry's, or a seek still has it: none is
\* left behind by an invalidation or a failed download.
NoIndexFileLeaks ==
    \A k \in Keys : file[k] # 0 =>
        \/ k \in DOMAIN cached /\ cached[k] = file[k]
        \/ \E s \in Seekers : seek[s].at \in {"use", "fetch"} /\ seek[s].key = k
                                /\ seek[s].gen = file[k]
=============================================================================

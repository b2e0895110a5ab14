-------------------------- MODULE IndexCacheProofs --------------------------
(***************************************************************************)
(* The index cache alone, for any number of keys, seekers and any budget:  *)
(* no seek loses the file it reads and no file is left behind, as long as  *)
(* no seek starts on a key that was invalidated under a seek still out.    *)
(***************************************************************************)
EXTENDS IndexCache, TLAPS

\* Leaves are first-order unless they cite SMT, which those with arithmetic do.
USE Zenon

\* A key is asked for only while it is cached or nobody reads a detached index of
\* it: an object key is superseded once and its segment names another from then on
\* (Tiering's Fetchable, which another handle on the same stores need not keep).
Wanted(k) == k \in DOMAIN cached \/ \A s \in Seekers : ~(seek[s].at = "use" /\ seek[s].key = k)

CacheNext ==
    \/ \E s \in Seekers, k \in Keys : Wanted(k) /\ Acquire(s, k)
    \/ \E s \in Seekers : FetchDone(s) \/ FetchFails(s) \/ Release(s)
    \/ \E ks \in SUBSET Keys : Invalidate(ks)
    \/ NewRemoteIndexCache

CacheSpec == CacheInit /\ [][CacheNext]_cacheVars

SeekOK(x) ==
    \/ x = NoSeek
    \/ \E k \in Keys : x = [at |-> "wait", key |-> k]
    \/ \E k \in Keys, a \in {"fetch", "use"} : \E g : x = [at |-> a, key |-> k, gen |-> g]

CacheTypes ==
    /\ DOMAIN seek = Seekers /\ seek = [s \in Seekers |-> seek[s]]
    /\ \A s \in Seekers : SeekOK(seek[s])
    /\ file = [k \in Keys |-> file[k]]
    /\ DOMAIN cached \subseteq Keys

\* A cached key's file is its entry's; a key is downloaded by one seek at a time,
\* while it is not cached and nobody reads it.
CacheHeld ==
    /\ \A k \in DOMAIN cached : file[k] = cached[k]
    /\ \A s \in Seekers : seek[s].at = "fetch" =>
         /\ seek[s].key \notin DOMAIN cached
         /\ \A t \in Seekers \ {s} :
              seek[t].at \in {"fetch", "use"} => seek[t].key # seek[s].key

CacheInv == CacheTypes /\ CacheHeld /\ IndexStaysUnderSeek /\ NoIndexFileLeaks

\* An empty cache holds no file and no seek.
LEMMA CacheStarts == CacheInit => CacheInv
  <1> SUFFICES ASSUME CacheInit PROVE CacheInv
    OBVIOUS
  <1>1. DOMAIN cached = {}
    BY SMT DEF CacheInit
  <1>2. CacheTypes
    BY <1>1 DEF CacheInit, CacheTypes, SeekOK
  <1>3. \A s \in Seekers : seek[s].at = "idle"
    BY DEF CacheInit, NoSeek
  <1>4. CacheHeld /\ IndexStaysUnderSeek /\ NoIndexFileLeaks
    BY <1>1, <1>3 DEF CacheInit, CacheHeld, IndexStaysUnderSeek, NoIndexFileLeaks
  <1> QED BY <1>2, <1>4 DEF CacheInv

\* One seek moves on.
LEMMA OneSeek ==
  ASSUME CacheTypes, NEW s \in Seekers, SeekOK(seek'[s]),
         seek' = [seek EXCEPT ![s] = seek'[s]],
         file' = [x \in Keys |-> file'[x]], DOMAIN cached' \subseteq Keys
  PROVE  CacheTypes' /\ \A t \in Seekers \ {s} : seek'[t] = seek[t]
  <1>1. \A t \in Seekers \ {s} : seek'[t] = seek[t]
    BY DEF CacheTypes
  <1>2. \A t \in Seekers : SeekOK(seek'[t])
    BY <1>1 DEF CacheTypes
  <1>3. DOMAIN seek' = Seekers /\ seek' = [t \in Seekers |-> seek'[t]]
    BY DEF CacheTypes
  <1>4. (\A t \in Seekers : SeekOK(seek[t]))'
    BY <1>2 DEF SeekOK, NoSeek
  <1> QED BY <1>1, <1>3, <1>4 DEF CacheTypes

\* A seek is started, joined to a download or served from the cache.
LEMMA AcquireKeeps ==
  ASSUME CacheInv, NEW s \in Seekers, NEW k \in Keys, Wanted(k), Acquire(s, k)
  PROVE  CacheInv'
  <1> USE DEF CacheInv
  <1>1. CASE k \in DOMAIN cached
    <2>1. seek' = [seek EXCEPT ![s] = [at |-> "use", key |-> k, gen |-> cached[k]]]
          /\ file' = file /\ cached' = cached
      BY <1>1 DEF Acquire
    <2>2. /\ seek'[s] = [at |-> "use", key |-> k, gen |-> cached[k]]
          /\ seek' = [seek EXCEPT ![s] = seek'[s]]
      BY <2>1 DEF CacheTypes
    <2>a. SeekOK(seek'[s])
      BY <2>2 DEF SeekOK
    <2>3. CacheTypes' /\ \A t \in Seekers \ {s} : seek'[t] = seek[t]
      BY <2>1, <2>2, <2>a, OneSeek DEF CacheTypes
    <2>4. CacheHeld'
      BY <1>1, <2>1, <2>2, <2>3, SMT DEF CacheHeld
    <2>5. IndexStaysUnderSeek'
      BY <1>1, <2>1, <2>2, <2>3, SMT DEF IndexStaysUnderSeek, CacheHeld
    <2>6. NoIndexFileLeaks'
      <3> SUFFICES ASSUME NEW x \in Keys, file[x] # 0
                   PROVE  \/ x \in DOMAIN cached /\ cached[x] = file[x]
                          \/ \E t \in Seekers : seek'[t].at \in {"use", "fetch"} /\ seek'[t].key = x
                                                  /\ seek'[t].gen = file[x]
        BY <2>1, SMT DEF NoIndexFileLeaks
      <3>1. CASE x = k
        BY <3>1, <1>1 DEF CacheHeld
      <3>2. CASE x # k /\ x \notin DOMAIN cached
        <4>1. PICK t \in Seekers : seek[t].at \in {"use", "fetch"} /\ seek[t].key = x
                                     /\ seek[t].gen = file[x]
          BY <3>2 DEF NoIndexFileLeaks
        <4>2. t # s
          BY <4>1, SMT DEF Acquire, NoSeek
        <4> QED BY <4>1, <4>2, <2>3
      <3>3. CASE x \in DOMAIN cached
        BY <3>3 DEF CacheHeld
      <3> QED BY <3>1, <3>2, <3>3
    <2> QED BY <2>3, <2>4, <2>5, <2>6
  <1>2. CASE k \notin DOMAIN cached /\ Inflight(k)
    <2>1. seek' = [seek EXCEPT ![s] = [at |-> "wait", key |-> k]]
          /\ file' = file /\ cached' = cached
      BY <1>2 DEF Acquire
    <2>2. /\ seek'[s] = [at |-> "wait", key |-> k]
          /\ seek' = [seek EXCEPT ![s] = seek'[s]]
      BY <2>1 DEF CacheTypes
    <2>3. SeekOK(seek'[s])
      BY <2>2 DEF SeekOK
    <2>4. CacheTypes' /\ \A t \in Seekers \ {s} : seek'[t] = seek[t]
      BY <2>1, <2>2, <2>3, OneSeek DEF CacheTypes
    <2>5. CacheHeld' /\ IndexStaysUnderSeek'
      BY <2>1, <2>2, <2>4, SMT DEF CacheHeld, IndexStaysUnderSeek
    <2>6. seek[s].at \notin {"use", "fetch"}
      BY SMT DEF Acquire
    <2>7. NoIndexFileLeaks'
      BY <2>1, <2>4, <2>6, SMT DEF NoIndexFileLeaks
    <2> QED BY <2>4, <2>5, <2>7
  <1>3. CASE k \notin DOMAIN cached /\ ~Inflight(k)
    <2>1. seek' = [seek EXCEPT ![s] = [at |-> "fetch", key |-> k, gen |-> FreshGen]]
          /\ file' = [file EXCEPT ![k] = FreshGen] /\ cached' = cached
      BY <1>3 DEF Acquire
    <2>2. /\ seek'[s] = [at |-> "fetch", key |-> k, gen |-> FreshGen]
          /\ seek' = [seek EXCEPT ![s] = seek'[s]]
          /\ file'[k] = FreshGen /\ \A x \in Keys \ {k} : file'[x] = file[x]
      BY <2>1 DEF CacheTypes
    <2>3. SeekOK(seek'[s])
      BY <2>2 DEF SeekOK
    <2>4. CacheTypes' /\ \A t \in Seekers \ {s} : seek'[t] = seek[t]
      BY <2>1, <2>2, <2>3, OneSeek DEF CacheTypes
    <2>5. \A t \in Seekers : seek[t].at \in {"use", "fetch"} => seek[t].key # k
      BY <1>3 DEF Wanted, Inflight
    <2>6. \A t \in Seekers : seek[t].at \in {"use", "fetch"} => seek[t].key \in Keys
      BY SMT DEF CacheTypes, SeekOK, NoSeek
    <2>7. CacheHeld'
      BY <1>3, <2>1, <2>2, <2>4, <2>5, SMT DEF CacheHeld, CacheTypes
    <2>8. IndexStaysUnderSeek'
      BY <2>2, <2>4, <2>5, <2>6, SMT DEF IndexStaysUnderSeek
    <2>9. seek[s].at \notin {"use", "fetch"}
      BY SMT DEF Acquire
    <2>10. NoIndexFileLeaks'
      <3> SUFFICES ASSUME NEW x \in Keys, file'[x] # 0
                   PROVE  \/ x \in DOMAIN cached /\ cached[x] = file'[x]
                          \/ \E t \in Seekers : seek'[t].at \in {"use", "fetch"} /\ seek'[t].key = x
                                                  /\ seek'[t].gen = file'[x]
        BY <2>1 DEF NoIndexFileLeaks
      <3>1. CASE x = k
        BY <3>1, <2>2, SMT
      <3>2. CASE x # k
        BY <3>2, <2>2, <2>4, <2>9, SMT DEF NoIndexFileLeaks
      <3> QED BY <3>1, <3>2
    <2> QED BY <2>4, <2>7, <2>8, <2>10
  <1> QED BY <1>1, <1>2, <1>3

\* A download fails and takes its file with it.
LEMMA FetchFailsKeeps ==
  ASSUME CacheInv, NEW s \in Seekers, FetchFails(s)
  PROVE  CacheInv'
  <1> USE DEF CacheInv
  <1> DEFINE k == seek[s].key
  <1>1. seek' = [seek EXCEPT ![s] = NoSeek] /\ file' = [file EXCEPT ![k] = 0] /\ cached' = cached
        /\ seek[s].at = "fetch"
    BY DEF FetchFails
  <1>2. k \in Keys
    BY <1>1, SMT DEF CacheTypes, SeekOK, NoSeek
  <1>3. /\ seek'[s] = NoSeek /\ seek' = [seek EXCEPT ![s] = seek'[s]]
        /\ file'[k] = 0 /\ \A x \in Keys \ {k} : file'[x] = file[x]
    BY <1>1, <1>2 DEF CacheTypes
  <1>4. SeekOK(seek'[s])
    BY <1>3 DEF SeekOK
  <1>5. CacheTypes' /\ \A t \in Seekers \ {s} : seek'[t] = seek[t]
    BY <1>1, <1>3, <1>4, OneSeek DEF CacheTypes
  <1>6. seek'[s].at = "idle"
    BY <1>3, SMT DEF NoSeek
  <1>7. \A t \in Seekers : seek[t].at \in {"use", "fetch"} => seek[t].key \in Keys
    BY SMT DEF CacheTypes, SeekOK, NoSeek
  <1>8. CacheHeld'
    <2>1. k \notin DOMAIN cached
      BY <1>1 DEF CacheHeld
    <2>2. \A x \in DOMAIN cached : file'[x] = cached[x]
      BY <2>1, <1>3 DEF CacheHeld, CacheTypes
    <2>3. ASSUME NEW u \in Seekers, seek'[u].at = "fetch"
          PROVE  /\ seek'[u].key \notin DOMAIN cached
                 /\ \A t \in Seekers \ {u} :
                      seek'[t].at \in {"fetch", "use"} => seek'[t].key # seek'[u].key
      BY <2>3, <1>5, <1>6 DEF CacheHeld
    <2> QED BY <2>2, <2>3, <1>1 DEF CacheHeld
  <1>9. IndexStaysUnderSeek'
    BY <1>1, <1>3, <1>5, <1>6, <1>7, SMT DEF IndexStaysUnderSeek, CacheHeld
  <1>10. NoIndexFileLeaks'
    BY <1>1, <1>3, <1>5, <1>6, SMT DEF NoIndexFileLeaks
  <1> QED BY <1>5, <1>8, <1>9, <1>10

\* The last pin of a detached index removes its file, which nobody reads.
LEMMA ReleaseKeeps ==
  ASSUME CacheInv, NEW s \in Seekers, Release(s)
  PROVE  CacheInv'
  <1> USE DEF CacheInv
  <1> DEFINE k == seek[s].key
             g == seek[s].gen
             gone == ~(k \in DOMAIN cached /\ cached[k] = g) /\ Using(k, g) = {s}
  <1>1. /\ seek[s].at = "use" /\ seek' = [seek EXCEPT ![s] = NoSeek] /\ cached' = cached
        /\ file' = IF gone THEN [file EXCEPT ![k] = 0] ELSE file
    BY DEF Release
  <1>2. k \in Keys /\ file[k] = g /\ seek[s] = [at |-> "use", key |-> k, gen |-> g]
    BY <1>1, SMT DEF CacheTypes, SeekOK, NoSeek, IndexStaysUnderSeek
  <1>3. /\ seek'[s] = NoSeek /\ seek' = [seek EXCEPT ![s] = seek'[s]]
        /\ file' = [x \in Keys |-> file'[x]]
        /\ \A x \in Keys \ {k} : file'[x] = file[x]
        /\ gone => file'[k] = 0
        /\ ~gone => file'[k] = file[k]
    BY <1>1, <1>2 DEF CacheTypes
  <1>4. SeekOK(seek'[s])
    BY <1>3 DEF SeekOK
  <1>5. CacheTypes' /\ \A t \in Seekers \ {s} : seek'[t] = seek[t]
    BY <1>1, <1>3, <1>4, OneSeek DEF CacheTypes
  <1>6. seek'[s].at = "idle"
    BY <1>3, SMT DEF NoSeek
  <1>7. ASSUME NEW t \in Seekers \ {s}, seek[t].at \in {"use", "fetch"}
        PROVE  seek[t].key \in Keys /\ (gone => seek[t].key # k)
    <2>1. seek[t].key \in Keys
      BY <1>7, SMT DEF CacheTypes, SeekOK, NoSeek
    <2>2. CASE seek[t].at = "fetch"
      BY <2>1, <2>2, <1>1 DEF CacheHeld
    <2>3. CASE seek[t].at = "use" /\ seek[t].key = k
      <3>1. seek[t] = [at |-> "use", key |-> k, gen |-> g]
        BY <2>3, <1>2, SMT DEF CacheTypes, SeekOK, NoSeek, IndexStaysUnderSeek
      <3>2. t \in Using(k, g)
        BY <3>1 DEF Using
      <3> QED BY <2>1, <3>2
    <2> QED BY <2>1, <2>2, <2>3, <1>7
  <1>8. gone => k \notin DOMAIN cached
    BY <1>2 DEF CacheHeld
  <1>9. CacheHeld'
    <2>1. \A x \in DOMAIN cached : file'[x] = cached[x]
      BY <1>8, <1>3 DEF CacheHeld, CacheTypes
    <2>2. ASSUME NEW u \in Seekers, seek'[u].at = "fetch"
          PROVE  /\ seek'[u].key \notin DOMAIN cached
                 /\ \A t \in Seekers \ {u} :
                      seek'[t].at \in {"fetch", "use"} => seek'[t].key # seek'[u].key
      BY <2>2, <1>5, <1>6 DEF CacheHeld
    <2> QED BY <2>1, <2>2, <1>1 DEF CacheHeld
  <1>10. IndexStaysUnderSeek'
    BY <1>3, <1>5, <1>6, <1>7, SMT DEF IndexStaysUnderSeek
  <1>11. NoIndexFileLeaks'
    <2> SUFFICES ASSUME NEW x \in Keys, file'[x] # 0
                 PROVE  \/ x \in DOMAIN cached /\ cached[x] = file'[x]
                        \/ \E t \in Seekers : seek'[t].at \in {"use", "fetch"} /\ seek'[t].key = x
                                                /\ seek'[t].gen = file'[x]
      BY <1>1 DEF NoIndexFileLeaks
    <2>1. file'[x] = file[x] /\ (x = k => ~gone)
      BY <1>3
    <2>2. CASE x = k /\ k \in DOMAIN cached
      BY <2>1, <2>2 DEF CacheHeld
    <2>3. CASE x = k /\ k \notin DOMAIN cached
      <3>1. s \in Using(k, g)
        BY <1>2 DEF Using
      <3>2. PICK t \in Using(k, g) : t # s
        BY <3>1, <2>1, <2>3
      <3>3. t \in Seekers /\ seek[t] = [at |-> "use", key |-> k, gen |-> g]
        BY <3>2 DEF Using
      <3> QED BY <3>2, <3>3, <2>1, <2>3, <1>2, <1>5, SMT
    <2>4. CASE x # k
      BY <2>1, <2>4, <1>5, SMT DEF NoIndexFileLeaks
    <2> QED BY <2>2, <2>3, <2>4
  <1> QED BY <1>5, <1>9, <1>10, <1>11

\* An entry that is invalidated keeps its file while a seek reads it.
LEMMA InvalidateKeeps ==
  ASSUME CacheInv, NEW ks \in SUBSET Keys, Invalidate(ks)
  PROVE  CacheInv'
  <1> USE DEF CacheInv
  <1> DEFINE out == ks \cap DOMAIN cached
             gone(x) == x \in out /\ Using(x, cached[x]) = {}
  <1>1. /\ seek' = seek
        /\ cached' = [x \in {y \in DOMAIN cached : y \notin out} |-> cached[x]]
        /\ file' = [x \in Keys |-> IF gone(x) THEN 0 ELSE file[x]]
    BY DEF Invalidate, RestrictDomain, Restrict
  <1>2. /\ DOMAIN cached' = DOMAIN cached \ out
        /\ \A x \in DOMAIN cached' : cached'[x] = cached[x]
        /\ \A x \in Keys : file'[x] = IF gone(x) THEN 0 ELSE file[x]
    BY <1>1
  <1>3. CacheTypes'
    BY <1>1, <1>2, SMT DEF CacheTypes, SeekOK, NoSeek
  <1>4. ASSUME NEW t \in Seekers, seek[t].at \in {"use", "fetch"}
        PROVE  seek[t].key \in Keys /\ ~gone(seek[t].key)
    <2>1. seek[t].key \in Keys
      BY <1>4, SMT DEF CacheTypes, SeekOK, NoSeek
    <2>2. CASE seek[t].at = "fetch"
      BY <2>1, <2>2 DEF CacheHeld
    <2>3. CASE seek[t].at = "use" /\ seek[t].key \in DOMAIN cached
      <3>1. seek[t] = [at |-> "use", key |-> seek[t].key, gen |-> cached[seek[t].key]]
        BY <2>3, SMT DEF CacheTypes, CacheHeld, SeekOK, NoSeek, IndexStaysUnderSeek
      <3>2. t \in Using(seek[t].key, cached[seek[t].key])
        BY <3>1 DEF Using
      <3> QED BY <2>1, <3>2
    <2>4. CASE seek[t].key \notin DOMAIN cached
      BY <2>1, <2>4
    <2> QED BY <1>4, <2>2, <2>3, <2>4
  <1>5. CacheHeld'
    BY <1>1, <1>2, SMT DEF CacheHeld, CacheTypes
  <1>6. IndexStaysUnderSeek'
    BY <1>1, <1>2, <1>4 DEF IndexStaysUnderSeek
  <1>7. NoIndexFileLeaks'
    <2> SUFFICES ASSUME NEW x \in Keys, file'[x] # 0
                 PROVE  \/ x \in DOMAIN cached' /\ cached'[x] = file'[x]
                        \/ \E t \in Seekers : seek[t].at \in {"use", "fetch"} /\ seek[t].key = x
                                                /\ seek[t].gen = file'[x]
      BY <1>1, ZenonT(30) DEF NoIndexFileLeaks
    <2>1. file'[x] = file[x] /\ ~gone(x)
      BY <1>2
    <2>2. CASE x \in out
      <3>1. PICK t \in Using(x, cached[x]) : TRUE
        BY <2>1, <2>2
      <3>2. t \in Seekers /\ seek[t] = [at |-> "use", key |-> x, gen |-> cached[x]]
        BY <3>1 DEF Using
      <3> QED BY <3>2, <2>1, <2>2, SMT DEF CacheHeld
    <2>3. CASE x \notin out
      BY <1>2, <2>1, <2>3, SMT DEF NoIndexFileLeaks
    <2> QED BY <2>2, <2>3
  <1> QED BY <1>3, <1>5, <1>6, <1>7

\* A download that is complete is entered and pinned; an eviction takes entries
\* nobody uses.
LEMMA FetchDoneKeeps ==
  ASSUME CacheInv, NEW s \in Seekers, FetchDone(s)
  PROVE  CacheInv'
  <1> USE DEF CacheInv
  <1> DEFINE k == seek[s].key
             unused == {x \in DOMAIN cached \ {k} : Using(x, cached[x]) = {}}
             out == evictLocked(<<k>> \o lru, unused)
             c == [x \in DOMAIN cached \cup {k} |-> IF x = k THEN seek[s].gen ELSE cached[x]]
  <1>1. /\ seek[s].at = "fetch" /\ seek' = [seek EXCEPT ![s] = [@ EXCEPT !.at = "use"]]
        /\ cached' = [x \in {y \in DOMAIN c : y \notin out} |-> c[x]]
        /\ file' = [x \in Keys |-> IF x \in out THEN 0 ELSE file[x]]
    BY DEF FetchDone, RestrictDomain, Restrict
  <1>2. out \subseteq unused
    BY DEF evictLocked
  <1> HIDE DEF out
  <1>3. /\ k \in Keys /\ k \notin DOMAIN cached /\ file[k] = seek[s].gen
        /\ seek[s] = [at |-> "fetch", key |-> k, gen |-> seek[s].gen]
    BY <1>1, SMT DEF CacheTypes, CacheHeld, SeekOK, NoSeek, IndexStaysUnderSeek
  <1>4. /\ seek'[s] = [at |-> "use", key |-> k, gen |-> seek[s].gen]
        /\ seek' = [seek EXCEPT ![s] = seek'[s]]
    BY <1>1, <1>3 DEF CacheTypes
  <1>5. /\ DOMAIN cached' = (DOMAIN cached \cup {k}) \ out
        /\ k \in DOMAIN cached' /\ cached'[k] = seek[s].gen
        /\ \A x \in DOMAIN cached' \ {k} : x \in DOMAIN cached /\ cached'[x] = cached[x]
        /\ \A x \in Keys : file'[x] = IF x \in out THEN 0 ELSE file[x]
    BY <1>1, <1>2
  <1>6. SeekOK(seek'[s])
    BY <1>3, <1>4 DEF SeekOK
  <1>7. file' = [x \in Keys |-> file'[x]] /\ DOMAIN cached' \subseteq Keys
    BY <1>1, <1>3, <1>5 DEF CacheTypes
  <1>8. CacheTypes' /\ \A t \in Seekers \ {s} : seek'[t] = seek[t]
    BY <1>4, <1>6, <1>7, OneSeek
  <1>9. ASSUME NEW t \in Seekers, seek[t].at \in {"use", "fetch"}
        PROVE  seek[t].key \in Keys /\ seek[t].key \notin out
    <2>1. seek[t].key \in Keys
      BY <1>9, SMT DEF CacheTypes, SeekOK, NoSeek
    <2>2. CASE seek[t].at = "fetch"
      BY <2>1, <2>2, <1>2 DEF CacheHeld
    <2>3. CASE seek[t].at = "use" /\ seek[t].key \in DOMAIN cached
      <3>1. seek[t] = [at |-> "use", key |-> seek[t].key, gen |-> cached[seek[t].key]]
        BY <2>3, SMT DEF CacheTypes, CacheHeld, SeekOK, NoSeek, IndexStaysUnderSeek
      <3>2. t \in Using(seek[t].key, cached[seek[t].key])
        BY <3>1 DEF Using
      <3> QED BY <2>1, <3>2, <1>2
    <2>4. CASE seek[t].key \notin DOMAIN cached
      BY <2>1, <2>4, <1>2
    <2> QED BY <1>9, <2>2, <2>3, <2>4
  <1>10. CacheHeld'
    <2>1. \A x \in DOMAIN cached' : file'[x] = cached'[x]
      BY <1>3, <1>5, <1>7 DEF CacheHeld
    <2>2. ASSUME NEW u \in Seekers, seek'[u].at = "fetch"
          PROVE  /\ seek'[u].key \notin DOMAIN cached'
                 /\ \A t \in Seekers \ {u} :
                      seek'[t].at \in {"fetch", "use"} => seek'[t].key # seek'[u].key
      <3>1. u # s /\ seek'[u] = seek[u]
        BY <2>2, <1>4, <1>8, SMT
      <3>2. seek[u].key # k
        BY <2>2, <3>1, <1>1 DEF CacheHeld
      <3> QED BY <2>2, <3>1, <3>2, <1>4, <1>5, <1>8, SMT DEF CacheHeld
    <2> QED BY <2>1, <2>2 DEF CacheHeld
  <1>11. IndexStaysUnderSeek'
    BY <1>1, <1>3, <1>4, <1>5, <1>8, <1>9, SMT DEF IndexStaysUnderSeek
  <1>12. NoIndexFileLeaks'
    <2> SUFFICES ASSUME NEW x \in Keys, file'[x] # 0
                 PROVE  \/ x \in DOMAIN cached' /\ cached'[x] = file'[x]
                        \/ \E t \in Seekers : seek'[t].at \in {"use", "fetch"} /\ seek'[t].key = x
                                                /\ seek'[t].gen = file'[x]
      BY DEF NoIndexFileLeaks
    <2>1. file'[x] = file[x] /\ x \notin out
      BY <1>5
    <2>2. CASE x = k
      BY <2>1, <2>2, <1>3, <1>5
    <2>3. CASE x # k
      BY <2>1, <2>3, <1>5, <1>8, SMT DEF NoIndexFileLeaks
    <2> QED BY <2>2, <2>3
  <1> QED BY <1>8, <1>10, <1>11, <1>12

\* A process that starts finds an empty cache.
LEMMA NewCacheKeeps ==
  ASSUME NewRemoteIndexCache
  PROVE  CacheInv'
  <1>1. DOMAIN cached' = {}
    BY SMT DEF NewRemoteIndexCache
  <1>2. CacheTypes'
    BY <1>1 DEF NewRemoteIndexCache, CacheTypes, SeekOK
  <1>3. \A s \in Seekers : seek'[s].at = "idle"
    BY DEF NewRemoteIndexCache, NoSeek
  <1>4. CacheHeld' /\ IndexStaysUnderSeek' /\ NoIndexFileLeaks'
    BY <1>1, <1>3 DEF NewRemoteIndexCache, CacheHeld, IndexStaysUnderSeek, NoIndexFileLeaks
  <1> QED BY <1>2, <1>4 DEF CacheInv

\* CacheInv is inductive: whatever the cache does, the files stay as held.
LEMMA CacheKeepsItsFiles == CacheSpec => []CacheInv
  <1>1. ASSUME CacheInv, [CacheNext]_cacheVars
        PROVE  CacheInv'
    <2>1. CASE \E s \in Seekers, k \in Keys : Wanted(k) /\ Acquire(s, k)
      BY <1>1, <2>1, AcquireKeeps
    <2>2. CASE \E s \in Seekers : FetchDone(s)
      BY <1>1, <2>2, FetchDoneKeeps
    <2>3. CASE \E s \in Seekers : FetchFails(s)
      BY <1>1, <2>3, FetchFailsKeeps
    <2>4. CASE \E s \in Seekers : Release(s)
      BY <1>1, <2>4, ReleaseKeeps
    <2>5. CASE \E ks \in SUBSET Keys : Invalidate(ks)
      BY <1>1, <2>5, InvalidateKeeps
    <2>6. CASE NewRemoteIndexCache
      BY <2>6, NewCacheKeeps
    <2>7. CASE UNCHANGED cacheVars
      <3>1. UNCHANGED <<cached, file, seek>>
        BY <2>7 DEF cacheVars
      <3>2. CacheTypes'
        BY <1>1, <3>1, SMT DEF CacheInv, CacheTypes, SeekOK, NoSeek
      <3> QED BY <1>1, <3>1, <3>2, SMT
          DEF CacheInv, CacheHeld, IndexStaysUnderSeek, NoIndexFileLeaks
    <2> QED BY <1>1, <2>1, <2>2, <2>3, <2>4, <2>5, <2>6, <2>7 DEF CacheNext
  <1> QED BY <1>1, CacheStarts, PTL DEF CacheSpec

\* For any keys, any seekers and any budget, the file under an index a seek is using
\* is the one it acquired, whatever is evicted, invalidated, downloaded again or fails
\* (index_cache.go, acquire, evictLocked, Invalidate, release).
THEOREM IndexAlwaysStaysUnderSeek == CacheSpec => []IndexStaysUnderSeek
  BY CacheKeepsItsFiles, PTL DEF CacheInv

\* For any keys, any seekers and any budget, every file in the cache directory is
\* an entry's or a seek still has it (index_cache.go, fetch, release, evictLocked).
THEOREM IndexFilesNeverLeak == CacheSpec => []NoIndexFileLeaks
  BY CacheKeepsItsFiles, PTL DEF CacheInv
=============================================================================

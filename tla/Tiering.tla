------------------------------ MODULE Tiering -------------------------------
(***************************************************************************)
(* The tiers of a log: offload (commitlog.go, segment.go), the manifests   *)
(* that say what each store holds (manifest.go), rewrites, joins and moves *)
(* of offloaded segments (compact_cleaner.go, clean_join.go, tier_move.go),*)
(* their delayed reclaim (tier_state.go), and the open that adopts what    *)
(* the manifests name.  Seeks go through the index cache (IndexCache).     *)
(*                                                                         *)
(* Every change of a tier uploads objects under fresh keys, commits by     *)
(* publishing manifests, one Put for each tier, and only then repoints the *)
(* segment.  The jobs run one at a time, under cleanMu, except that a      *)
(* truncation publishes after it has let go of the lock.                   *)
(*                                                                         *)
(* A segment's log, index and block table objects are one object here.     *)
(***************************************************************************)
EXTENDS Integers, Sequences, FiniteSets, FiniteSetsExt, Functions

CONSTANTS Tiers,         \* Options.Tiers: the names, nearest first
          Local,         \* the place of a segment that is in no tier
          None,          \* no tier, no key, no base offset
          ObjectKeys,    \* bound: the keys of the objects in sight at one time
          Scanners,      \* readers that scan offloaded segments
          Owners, Peers, \* seekers of this handle, and of another one on the same stores
          CacheBudget,   \* indexes the cache has room for
          MaxOffset,     \* bound: no offset at or past this one is appended
          Settings       \* what may happen

ASSUME TierAssumption ==
    /\ Len(Tiers) > 0 /\ Tiers \in Seq(Range(Tiers))
    /\ Local \notin Range(Tiers) /\ None \notin Range(Tiers) \cup ObjectKeys \cup {Local}
    /\ None \notin Nat /\ ObjectKeys \subseteq Nat /\ MaxOffset \in Nat
    /\ \A s \in Settings : s.offsets \in Nat /\ s.faults \in Nat /\ s.keys \in Nat

VARIABLES disk,          \* the directory: base offset -> offsets in the .log file
          objects,       \* the stores: key -> [tier, offs]
          manifest,      \* the stores: tier -> base offset -> entry
          segs,          \* memory: base offset -> [offs, tier, key, open]
          listed,        \* memory: the base offsets in the published list
          next,          \* base offset of the active segment, which stays empty
          readonly,      \* memory: the tiers this log may not write to
          reclaim,       \* memory: superseded objects to delete, as [tier, key]
          stale,         \* memory: tierManifestStale
          job,           \* memory: the holder of cleanMu and where it is
          late,          \* memory: a truncation's deferred publish
          scan,          \* memory: scanner -> the object it holds, as [key, offs]
          lock,          \* memory: seeker -> the segment whose read lock it holds
          sweep,         \* an operator's UnreferencedObjects, and where it is
          orphans,       \* the list the last one returned
          flipped,       \* history: the tiers handed over since the job began
          live,          \* the offsets nobody asked to remove
          faults, setting,
          lru, cached, file, seek

logVars == <<disk, segs, listed, next, live>>
storeVars == <<objects, manifest>>
tierVars == <<readonly, reclaim, stale>>
cacheVars == <<lru, cached, file, seek, lock>>
sweepVars == <<sweep, orphans>>
vars == <<logVars, storeVars, tierVars, cacheVars, job, late, scan, sweepVars, flipped, faults,
          setting>>

Seekers == Owners \cup Peers
TierNames == Range(Tiers)

C == INSTANCE IndexCache WITH Keys <- ObjectKeys, Budget <- CacheBudget

\* The state of the lock cleanMu: at is the next step of its holder, op the kind
\* of change under way, work the segment being changed and what becomes of it.
NoWork == [base |-> None, tier |-> None, key |-> None, offs |-> {}]
Idle == [at |-> "idle", op |-> "none", old |-> {}, cleaned |-> {}, skip |-> {},
         superseded |-> {}, work |-> NoWork, retired |-> {}, body |-> <<>>, puts |-> <<>>]
NotLate == [at |-> "idle", body |-> <<>>, puts |-> <<>>]
NoSweep == [at |-> "idle", tiers |-> <<>>, named |-> {}, found |-> {}]

May(what) == what \in setting.may
With(f, x, y) == [z \in DOMAIN f \cup {x} |-> IF z = x THEN y ELSE f[z]]
Without(f, S) == RestrictDomain(f, LAMBDA x : x \notin S)
End(offs) == Max(offs) + 1
Offloaded(b) == segs[b].tier \in TierNames
Present(b) == segs[b].tier = Local \/ segs[b].key \in DOMAIN objects
Readable(b) == segs[b].open /\ Present(b)
Unlocked(b) == \A s \in Seekers : lock[s] # b
Pinned(k) == \E r \in Scanners : scan[r] # None /\ scan[r].key = k

-----------------------------------------------------------------------------
(* Keys.  newStoreKeys never mints a key twice; here a key may come back    *)
(* once nothing in sight names it.  setting.keys bounds the objects in the  *)
(* stores, those included that a crash left and nothing names.              *)

KeysOf(body) == {body[b].key : b \in DOMAIN body}
InSight ==
    DOMAIN objects \cup {segs[b].key : b \in DOMAIN segs} \cup {e.key : e \in reclaim}
        \cup (UNION {KeysOf(manifest[t]) : t \in TierNames})
        \cup {scan[r].key : r \in {x \in Scanners : scan[x] # None}}
        \cup {e.key : e \in orphans \cup sweep.found} \cup sweep.named \cup DOMAIN cached
        \cup {seek[s].key : s \in {x \in Seekers : seek[x].at # "idle"}}
        \cup KeysOf(late.body) \cup KeysOf(job.body)
        \cup {e.key : e \in job.superseded} \cup {job.work.key}
newStoreKeys == {k \in ObjectKeys : k <= setting.keys} \ InSight

-----------------------------------------------------------------------------
(* Manifests. *)

EntryFor(tier, key, offs, from) == [tier |-> tier, key |-> key, offs |-> offs, from |-> from]

\* Mutant: the change being committed is not in the body.
tierStateOfList(pending, retired) ==
    LET now == {b \in listed : Offloaded(b)}
    IN [b \in now \ retired |-> EntryFor(segs[b].tier, segs[b].key, segs[b].offs, None)]

\* tierState, with what a commit adds to it and retires from it.
tierState(pending, retired) ==
    LET now == {b \in listed : Offloaded(b)}
    IN [b \in (now \cup DOMAIN pending) \ retired |->
           IF b \in DOMAIN pending THEN pending[b]
           ELSE EntryFor(segs[b].tier, segs[b].key, segs[b].offs, None)]

\* The part of a publish that goes to one tier.
Share(body, t) == RestrictDomain(body, LAMBDA b : body[b].tier = t)

\* Where a change goes once its manifests are put, and where when a Put or an
\* upload fails.
AfterCommit == [offload |-> "attach", rewrite |-> "swap", join |-> "swap", move |-> "swap",
                release |-> "move", final |-> "published"]
AfterError == [offload |-> "idle", rewrite |-> "list", join |-> "list", move |-> "final",
               release |-> "final", final |-> "unpublished"]
At(a) ==
    CASE a = "idle" -> Idle
      [] a \in {"attach", "swap"} -> [job EXCEPT !.at = a, !.body = <<>>, !.puts = <<>>]
      [] OTHER -> [job EXCEPT !.at = a, !.body = <<>>, !.puts = <<>>, !.op = "none",
                              !.work = NoWork, !.retired = {}]

\* publishTierManifests begins: the body is built once, then put tier by tier.
Publishing(j, op, tiers, pending, retired) ==
    [j EXCEPT !.at = "put", !.op = op, !.body = tierState(pending, retired), !.puts = tiers]

-----------------------------------------------------------------------------
(* What an open makes of the directory and the stores. *)

\* resolveInterruptedMove
Wins(b, t) ==
    /\ b \in DOMAIN manifest[t]
    /\ \A u \in TierNames \ {t} : b \in DOMAIN manifest[u] =>
           manifest[t][b].from = u /\ manifest[u][b].from # t

\* mergeTierManifests
Claimed == UNION {DOMAIN manifest[t] : t \in TierNames}
mergeRefused == \E b \in Claimed : \A t \in TierNames : ~Wins(b, t)

\* adoptTierManifestLocked: the local file of a base offset wins.  The object an
\* entry names is not looked at: its size and its end are in the entry.
adopted == [b \in Claimed \ DOMAIN disk |-> manifest[CHOOSE t \in TierNames : Wins(b, t)][b]]
OffsAt(b) == IF b \in DOMAIN disk THEN disk[b] ELSE adopted[b].offs

\* resolveSegmentOverlaps
keptBases ==
    LET all == DOMAIN disk \cup Claimed
    IN {b \in all : \A c \in all : c < b => End(OffsAt(c)) <= b}
overlapRefused == \E b \in (DOMAIN disk \cup Claimed) \ keptBases :
                     \A c \in keptBases : c < b => End(OffsAt(c)) < End(OffsAt(b))

-----------------------------------------------------------------------------
Init ==
    /\ disk = <<>> /\ segs = <<>> /\ listed = {} /\ next = 0 /\ live = {}
    /\ objects = <<>>
    /\ manifest = [t \in TierNames |-> <<>>]
    /\ readonly = {} /\ reclaim = {} /\ stale = FALSE
    /\ job = Idle /\ late = NotLate
    /\ scan = [r \in Scanners |-> None]
    /\ lock = [s \in Seekers |-> None]
    /\ sweep = NoSweep /\ orphans = {} /\ flipped = {}
    /\ faults = 0
    /\ setting \in Settings
    /\ C!CacheInit

\* Two records are appended and the segment that holds them is sealed.
Roll ==
    LET offs == {next, next + 1}
    IN /\ next + 1 < setting.offsets
       /\ disk' = With(disk, next, offs)
       /\ segs' = With(segs, next, [offs |-> offs, tier |-> Local, key |-> None, open |-> TRUE])
       /\ listed' = listed \cup {next}
       /\ next' = next + 2
       /\ live' = live \cup offs
       /\ UNCHANGED <<storeVars, tierVars, cacheVars, job, late, scan, sweepVars, faults>>

\* cleanMu is free, and whoever calls next has reason to wait for neither a
\* truncation's publish nor a sweep.
Free ==
    /\ job = Idle
    /\ late = NotLate \/ May("publish late")
    /\ sweep = NoSweep \/ May("sweep in flight")

-----------------------------------------------------------------------------
(* Publishing. *)

\* One tier's manifest is put, unless this log may not write to it.
PutManifest ==
    LET t == Head(job.puts)
    IN /\ job.at = "put"
       /\ manifest' = IF t \in readonly THEN manifest
                      ELSE [manifest EXCEPT ![t] = Share(job.body, t)]
       /\ job' = IF Len(job.puts) > 1 THEN [job EXCEPT !.puts = Tail(@)]
                 ELSE At(AfterCommit[job.op])
       /\ UNCHANGED <<logVars, objects, tierVars, cacheVars, late, scan, sweepVars, faults>>

\* The Put reports an error, whether or not the manifest reached the store.
PutFails(lands) ==
    LET t == Head(job.puts)
    IN /\ job.at = "put"
       /\ t \notin readonly
       /\ faults < setting.faults
       /\ faults' = faults + 1
       /\ manifest' = IF lands THEN [manifest EXCEPT ![t] = Share(job.body, t)] ELSE manifest
       /\ job' = At(AfterError[job.op])
       /\ UNCHANGED <<logVars, objects, tierVars, cacheVars, late, scan, sweepVars>>

\* The deferred publish of a truncation, which holds no lock, and whose error is
\* dropped.
LateReads ==
    /\ late.at = "read"
    /\ late' = [at |-> "put", body |-> tierState(<<>>, {}), puts |-> Tiers]
    /\ UNCHANGED <<logVars, storeVars, tierVars, cacheVars, job, scan, sweepVars, faults>>

LatePuts ==
    LET t == Head(late.puts)
    IN /\ late.at = "put"
       /\ manifest' = IF t \in readonly THEN manifest
                      ELSE [manifest EXCEPT ![t] = Share(late.body, t)]
       /\ late' = IF Len(late.puts) > 1 THEN [late EXCEPT !.puts = Tail(@)] ELSE NotLate
       /\ UNCHANGED <<logVars, objects, tierVars, cacheVars, job, scan, sweepVars, faults>>

LateFails ==
    /\ late.at = "put"
    /\ faults < setting.faults
    /\ faults' = faults + 1
    /\ late' = NotLate
    /\ UNCHANGED <<logVars, storeVars, tierVars, cacheVars, job, scan, sweepVars>>

-----------------------------------------------------------------------------
(* Uploads: the objects of one changed segment, under fresh keys. *)

Work(b, tier, offs) == [base |-> b, tier |-> tier, key |-> None, offs |-> offs]

\* The commit that follows the upload.
CommitOf(w) ==
    LET from == IF job.op = "move" THEN segs[w.base].tier ELSE None
        tiers == IF job.op = "move" THEN <<w.tier>> ELSE Tiers
    IN Publishing([job EXCEPT !.work = w], job.op, tiers,
                  [b \in {w.base} |-> EntryFor(w.tier, w.key, w.offs, from)], job.retired)

Upload ==
    /\ job.at = "upload"
    /\ newStoreKeys # {}
    /\ \E w \in {[job.work EXCEPT !.key = Min(newStoreKeys)]} :
           /\ objects' = With(objects, w.key, [tier |-> w.tier, offs |-> w.offs])
           /\ job' = CommitOf(w)
    /\ UNCHANGED <<logVars, manifest, tierVars, cacheVars, late, scan, sweepVars, faults>>

\* An upload fails, perhaps after some of its objects.  It also fails when the
\* bound on keys is reached.
UploadFails ==
    /\ job.at = "upload"
    /\ IF newStoreKeys = {} THEN UNCHANGED <<objects, faults>>
       ELSE /\ faults < setting.faults
            /\ faults' = faults + 1
            /\ objects' = With(objects, Min(newStoreKeys), [tier |-> job.work.tier, offs |-> {}])
    /\ job' = At(AfterError[job.op])
    /\ UNCHANGED <<logVars, manifest, tierVars, cacheVars, late, scan, sweepVars>>

-----------------------------------------------------------------------------
(* OffloadBefore: the sealed local segments below an offset, one at a time. *)

primaryTier == Head(Tiers)
OffloadOf(targets) ==
    IF targets = {} THEN Idle
    ELSE [Idle EXCEPT !.at = "upload", !.op = "offload", !.old = targets,
                      !.work = Work(Min(targets), primaryTier, segs[Min(targets)].offs)]

OffloadBefore(minOffset) ==
    LET targets == {b \in listed : segs[b].tier = Local /\ End(segs[b].offs) <= minOffset}
    IN /\ Free /\ May("offload")
       /\ primaryTier \notin readonly
       /\ targets # {}
       /\ job' = OffloadOf(targets)
       /\ UNCHANGED <<logVars, storeVars, tierVars, cacheVars, late, scan, sweepVars, faults>>

\* attachOffloaded: the segment reads from the store, and its local file goes. A
\* file that cannot be removed is reported, and ends the call.
attachOffloaded(removed) ==
    LET b == job.work.base
    IN /\ job.at = "attach"
       /\ removed \/ (May("keep a local file") /\ faults < setting.faults)
       /\ faults' = IF removed THEN faults ELSE faults + 1
       /\ segs' = [segs EXCEPT ![b].tier = job.work.tier, ![b].key = job.work.key]
       /\ disk' = IF removed THEN Without(disk, {b}) ELSE disk
       /\ job' = IF removed THEN OffloadOf(job.old \ {b}) ELSE Idle
       /\ UNCHANGED <<listed, next, live, storeVars, tierVars, cacheVars, late, scan, sweepVars>>

-----------------------------------------------------------------------------
(* The maintenance pass.  Which segments it changes, and what survives in    *)
(* them, is the subject of Cleaner and is left open here.                    *)

\* Mutant: an object is deleted under its readers.
ReclaimableInUse ==
    IF stale THEN {} ELSE {e \in reclaim : e.tier \notin readonly}

\* Mutant: a read-only tier is drained too.
ReclaimableAnywhere ==
    IF stale THEN {} ELSE {e \in reclaim : ~Pinned(e.key)}

\* drainReclaim: what may be deleted.
Reclaimable ==
    IF stale THEN {} ELSE {e \in reclaim : ~Pinned(e.key) /\ e.tier \notin readonly}

\* cleanPass takes the lock, reads the list and the read-only tiers, and drains
\* the reclaim queue.  An entry whose deletion fails stays in it.
StartPass ==
    /\ Free /\ May("pass")
    /\ \E kept \in SUBSET Reclaimable :
           /\ kept # {} => faults < setting.faults
           /\ faults' = IF kept = {} THEN faults ELSE faults + 1
           /\ objects' = Without(objects, {e.key : e \in Reclaimable \ kept})
           /\ reclaim' = (reclaim \ Reclaimable) \cup kept
    /\ job' = [Idle EXCEPT !.at = "retain", !.old = listed, !.cleaned = listed, !.skip = readonly]
    /\ UNCHANGED <<logVars, manifest, readonly, stale, cacheVars, late, scan, sweepVars>>

\* segment.Delete of an offloaded segment during a pass: its object goes, and the
\* segment stays in the list until the pass publishes its own.  A store that fails,
\* before the object is gone or after, ends the stages that change segments: the
\* segment is closed, and stays in the pass's list.
Deletes(b, done, gone) ==
    /\ Unlocked(b)
    /\ IF done THEN gone /\ UNCHANGED faults
       ELSE faults < setting.faults /\ faults' = faults + 1
    /\ objects' = IF gone THEN Without(objects, {segs[b].key}) ELSE objects
    /\ segs' = [segs EXCEPT ![b].open = FALSE]
    /\ live' = live \ segs[b].offs
    /\ job' = IF done THEN [job EXCEPT !.cleaned = @ \ {b}] ELSE At("list")
    /\ UNCHANGED <<disk, listed, next, manifest, tierVars, cacheVars, late, scan, sweepVars>>

\* deleteCleaner on the tiers: the oldest segment, unless its tier is not ours.
cleanTiers(done, gone) ==
    LET b == Min(job.cleaned)
    IN /\ job.at = "retain" /\ May("retain") /\ job.cleaned # {}
       /\ segs[b].tier \in TierNames \ job.skip
       /\ Deletes(b, done, gone)

\* The pass goes on to its next stage: it had nothing to do there, or it met a
\* segment it cannot read, which ends the stage.
NextStage ==
    /\ \/ job.at = "retain" /\ job' = At("rewrite")
       \/ job.at = "rewrite" /\ job' = At("join")
       \/ job.at = "join" /\ job' = At("list")
       \/ job.at = "move" /\ job' = At("final")
    /\ UNCHANGED <<logVars, storeVars, tierVars, cacheVars, late, scan, sweepVars, faults>>

\* cleanSegment on an offloaded segment: the records the pass keeps are uploaded,
\* or the segment is removed when there are none.
cleanSegment(b, keep) ==
    /\ job.at = "rewrite" /\ May("rewrite")
    /\ segs[b].tier \in TierNames \ job.skip /\ Readable(b)
    /\ keep # segs[b].offs
    /\ IF keep = {} THEN \E done, gone \in BOOLEAN : Deletes(b, done, gone)
       ELSE /\ live' = live \ (segs[b].offs \ keep)
            /\ job' = [job EXCEPT !.at = "upload", !.op = "rewrite",
                                  !.work = Work(b, segs[b].tier, keep)]
            /\ UNCHANGED <<disk, segs, listed, next, storeVars, tierVars, cacheVars, late,
                           scan, sweepVars, faults>>

\* joinOneTiered: a run of segments of one writable tier becomes its first one.
joinOneTiered(run) ==
    LET first == Min(run)
        tier == segs[first].tier
    IN /\ job.at = "join" /\ May("join")
       /\ \E b, c \in run : b # c
       /\ \A b \in job.cleaned : Min(run) < b /\ b < Max(run) => b \in run
       /\ \A b \in run : segs[b].tier = tier /\ Readable(b)
       /\ tier \in TierNames \ readonly
       /\ job' = [job EXCEPT !.at = "upload", !.op = "join", !.retired = run \ {first},
                             !.work = Work(first, tier, UNION {segs[b].offs : b \in run})]
       /\ UNCHANGED <<logVars, storeVars, tierVars, cacheVars, late, scan, sweepVars, faults>>

\* swapReplacement and swapTier: the segment reads from the new objects, the old
\* ones are superseded, and the cached index goes.  A move then releases the old
\* tier by publishing its manifest.
Swap ==
    LET w == job.work
        old == segs[w.base]
        swapped == [job EXCEPT !.superseded = @ \cup {[tier |-> old.tier, key |-> old.key]}]
    IN /\ job.at = "swap"
       /\ Unlocked(w.base)
       /\ old.open
       /\ segs' = [segs EXCEPT ![w.base] = [@ EXCEPT !.tier = w.tier, !.key = w.key, !.offs = w.offs]]
       /\ C!Invalidate({old.key})
       /\ job' = [swapped EXCEPT !.at = IF job.op = "join" THEN "retire"
                                        ELSE IF job.op = "move" THEN "release" ELSE "rewrite",
                                 !.op = IF job.op = "move" THEN "release" ELSE "none",
                                 !.work = IF job.op = "move" THEN [NoWork EXCEPT !.tier = old.tier]
                                          ELSE NoWork]
       /\ UNCHANGED <<disk, listed, next, live, storeVars, tierVars, lock, late, scan, sweepVars, faults>>

\* swapTier refuses a segment whose removal has failed: the move ends there.
SwapRefused ==
    /\ job.at = "swap" /\ ~segs[job.work.base].open
    /\ job' = At("final")
    /\ UNCHANGED <<logVars, storeVars, tierVars, cacheVars, late, scan, sweepVars, faults>>

\* retireIntoJoin
retireIntoJoin ==
    LET b == Min(job.retired)
        old == segs[b]
    IN /\ job.at = "retire"
       /\ Unlocked(b)
       /\ segs' = [segs EXCEPT ![b] = [@ EXCEPT !.tier = None, !.key = None, !.open = FALSE]]
       /\ C!Invalidate({old.key})
       /\ job' = [job EXCEPT !.at = IF job.retired = {b} THEN "join" ELSE @,
                             !.retired = @ \ {b}, !.cleaned = @ \ {b},
                             !.superseded = @ \cup {[tier |-> old.tier, key |-> old.key]}]
       /\ UNCHANGED <<disk, listed, next, live, storeVars, tierVars, lock, late, scan, sweepVars, faults>>

\* cleanPass publishes its list, with the segments rolled since it began.
PublishList ==
    /\ job.at = "list"
    /\ listed' = job.cleaned \cup (listed \ job.old)
    /\ segs' = RestrictDomain(segs, LAMBDA b : b \in listed')
    /\ job' = [At("move") EXCEPT !.old = {}, !.cleaned = {}]
    /\ UNCHANGED <<disk, next, live, storeVars, tierVars, cacheVars, late, scan, sweepVars, faults>>

TierIndex(t) == CHOOSE i \in DOMAIN Tiers : Tiers[i] = t

\* moveSegment, from its checks to the copy.
moveSegment(b, dst) ==
    /\ job.at = "move" /\ May("move")
    /\ segs[b].tier \in TierNames \ ({dst} \cup readonly) /\ dst \notin readonly
    /\ May("move up") \/ TierIndex(segs[b].tier) < TierIndex(dst)
    /\ Present(b)
    /\ job' = [job EXCEPT !.at = "upload", !.op = "move", !.work = Work(b, dst, segs[b].offs)]
    /\ UNCHANGED <<logVars, storeVars, tierVars, cacheVars, late, scan, sweepVars, faults>>

\* The publishes that name no pending change: a move's release, the pass's last.
Republish ==
    /\ \/ /\ job.at = "release"
          /\ job' = Publishing(job, "release", <<job.work.tier>>, <<>>, {})
       \/ /\ job.at = "final"
          /\ job' = Publishing(job, "final", Tiers, <<>>, {})
    /\ UNCHANGED <<logVars, storeVars, tierVars, cacheVars, late, scan, sweepVars, faults>>

\* Mutant: manifests once missed are never up to date again.
EndPassStale ==
    /\ job.at \in {"published", "unpublished"}
    /\ stale' = (stale \/ job.at = "unpublished")
    /\ reclaim' = reclaim \cup job.superseded
    /\ job' = Idle
    /\ UNCHANGED <<logVars, storeVars, readonly, cacheVars, late, scan, sweepVars, faults>>

\* cleanPass ends: it queues what it superseded, and notes whether its manifests
\* were put.
EndPass ==
    /\ job.at \in {"published", "unpublished"}
    /\ stale' = (job.at = "unpublished")
    /\ reclaim' = reclaim \cup job.superseded
    /\ job' = Idle
    /\ UNCHANGED <<logVars, storeVars, readonly, cacheVars, late, scan, sweepVars, faults>>

-----------------------------------------------------------------------------
(* TruncateBefore *)

\* Up to the list: the boundary segment is rewritten into a local file, unless it
\* cannot be read, which ends the call.
TruncateBefore(minOffset) ==
    LET below == {b \in listed : End(segs[b].offs) <= minOffset}
        boundary == {b \in listed : b < minOffset /\ minOffset < End(segs[b].offs)}
        kept == {o \in UNION {segs[b].offs : b \in boundary} : o >= minOffset}
    IN /\ Free /\ May("trim") /\ late = NotLate
       /\ below \cup boundary # {}
       /\ May("trim a tier") \/ \A b \in boundary : segs[b].tier = Local \/ ~Readable(b)
       /\ live' = {o \in live : o >= minOffset}
       /\ IF \A b \in boundary : Readable(b)
          THEN /\ disk' = IF boundary = {} THEN disk ELSE With(disk, Min(kept), kept)
               /\ job' = [Idle EXCEPT !.at = "trimmed", !.old = below \cup boundary, !.work =
                             IF boundary = {} THEN NoWork ELSE Work(Min(kept), Local, kept)]
               /\ UNCHANGED late
          ELSE late' = [NotLate EXCEPT !.at = "read"] /\ UNCHANGED <<disk, job>>
       /\ UNCHANGED <<segs, listed, next, storeVars, tierVars, cacheVars, scan, sweepVars, faults>>

TrimLists ==
    LET w == job.work
        new == [offs |-> w.offs, tier |-> Local, key |-> None, open |-> TRUE]
    IN /\ job.at = "trimmed"
       /\ listed' = (listed \ job.old) \cup ({w.base} \ {None})
       /\ segs' = IF w.base = None THEN segs ELSE With(segs, w.base, new)
       /\ job' = [job EXCEPT !.at = "unlink", !.work = NoWork]
       /\ UNCHANGED <<disk, next, live, storeVars, tierVars, cacheVars, late, scan, sweepVars, faults>>

\* The outgoing segments are removed in order; the deferred publish follows, after
\* the lock.
TrimUnlinks(done, gone) ==
    LET b == Min(job.old)
        last == ~done \/ job.old = {b}
    IN /\ job.at = "unlink"
       /\ Unlocked(b)
       /\ IF done THEN gone /\ UNCHANGED faults
          ELSE faults < setting.faults /\ faults' = faults + 1
       /\ objects' = IF gone THEN Without(objects, {segs[b].key}) ELSE objects
       /\ disk' = IF gone /\ segs[b].tier = Local THEN Without(disk, {b}) ELSE disk
       /\ segs' = Without(segs, IF last THEN job.old ELSE {b})
       /\ job' = IF last THEN Idle ELSE [job EXCEPT !.old = @ \ {b}]
       /\ late' = IF last THEN [NotLate EXCEPT !.at = "read"] ELSE late
       /\ UNCHANGED <<listed, next, live, manifest, tierVars, cacheVars, scan, sweepVars>>

-----------------------------------------------------------------------------
(* Readers.  A scan holds a reference to the object it reads (acquireBacking);*)
(* a seek holds its segment's read lock while it uses the index.              *)

acquireBacking(r, b) ==
    /\ May("scan") /\ scan[r] = None
    /\ Offloaded(b) /\ Readable(b)
    /\ scan' = [scan EXCEPT ![r] = [key |-> segs[b].key, offs |-> segs[b].offs]]
    /\ UNCHANGED <<logVars, storeVars, tierVars, cacheVars, job, late, sweepVars, faults>>

releaseBacking(r) ==
    /\ scan[r] # None
    /\ scan' = [scan EXCEPT ![r] = None]
    /\ UNCHANGED <<logVars, storeVars, tierVars, cacheVars, job, late, sweepVars, faults>>

\* Nobody still reads a copy of k's index that has left the cache.
Fetchable(k) ==
    \/ May("fetch in use") \/ k \in DOMAIN cached
    \/ \A s \in Seekers : ~(seek[s].at = "use" /\ seek[s].key = k)

\* withIndex on a segment of this log, or of another handle on the same stores,
\* which may still name an object this one has superseded.
withIndex(s) ==
    /\ May("seek") /\ seek[s].at = "idle"
    /\ \/ \E b \in listed :
             /\ s \in Owners /\ Offloaded(b) /\ segs[b].open
             /\ C!Acquire(s, segs[b].key)
             /\ lock' = [lock EXCEPT ![s] = b]
       \/ \E k \in DOMAIN objects :
             /\ s \in Peers
             /\ Fetchable(k) /\ C!Acquire(s, k)
             /\ UNCHANGED lock
    /\ UNCHANGED <<logVars, storeVars, tierVars, job, late, scan, sweepVars, faults>>

\* What a seek does once it has begun.  A download fails when the store fails or
\* the object is not there.
SeekStep(s) ==
    /\ \/ /\ seek[s].at = "wait"
          /\ Fetchable(seek[s].key) /\ C!Acquire(s, seek[s].key)
          /\ UNCHANGED <<lock, faults>>
       \/ /\ seek[s].at = "fetch" /\ seek[s].key \in DOMAIN objects
          /\ C!FetchDone(s)
          /\ UNCHANGED <<lock, faults>>
       \/ /\ seek[s].at = "fetch" /\ (seek[s].key \notin DOMAIN objects \/ faults < setting.faults)
          /\ C!FetchFails(s)
          /\ lock' = [lock EXCEPT ![s] = None]
          /\ faults' = IF seek[s].key \in DOMAIN objects THEN faults + 1 ELSE faults
       \/ /\ C!Release(s)
          /\ lock' = [lock EXCEPT ![s] = None]
          /\ UNCHANGED faults
    /\ UNCHANGED <<logVars, storeVars, tierVars, job, late, scan, sweepVars>>

-----------------------------------------------------------------------------
(* The operator. *)

SetTierReadOnly(t, ro) ==
    /\ May("flip") /\ ro # (t \in readonly)
    /\ (job = Idle /\ late = NotLate) \/ May("flip in flight")
    /\ readonly' = IF ro THEN readonly \cup {t} ELSE readonly \ {t}
    /\ UNCHANGED <<logVars, storeVars, reclaim, stale, cacheVars, job, late, scan, sweepVars, faults>>

\* UnreferencedObjects takes no lock that keeps a job out: it reads the manifests
\* tier by tier, then what the segments name, then lists the stores tier by tier.
UnreferencedObjects ==
    /\ May("sweep") /\ sweep = NoSweep
    /\ (job = Idle /\ late = NotLate) \/ May("sweep in flight")
    /\ sweep' = [NoSweep EXCEPT !.at = "manifests", !.tiers = Tiers]
    /\ UNCHANGED <<logVars, storeVars, tierVars, cacheVars, job, late, scan, orphans, faults>>

SweepManifest ==
    LET t == Head(sweep.tiers)
        last == Len(sweep.tiers) = 1
    IN /\ sweep.at = "manifests"
       /\ sweep' = [sweep EXCEPT !.named = @ \cup KeysOf(manifest[t]),
                                 !.at = IF last THEN "segments" ELSE @,
                                 !.tiers = IF last THEN Tiers ELSE Tail(@)]
       /\ UNCHANGED <<logVars, storeVars, tierVars, cacheVars, job, late, scan, orphans, faults>>

\* Mutant: what the segments read is not counted.
SegmentsNameNothing == {}

\* objectKeysLocked of every segment of the list.
SegmentKeys == {segs[b].key : b \in {x \in listed : Offloaded(x)}}

SweepSegments ==
    /\ sweep.at = "segments"
    /\ sweep' = [sweep EXCEPT !.named = @ \cup SegmentKeys, !.at = "list"]
    /\ UNCHANGED <<logVars, storeVars, tierVars, cacheVars, job, late, scan, orphans, faults>>

SweepList ==
    LET t == Head(sweep.tiers)
        found == sweep.found \cup {[tier |-> t, key |-> k] :
                     k \in {x \in DOMAIN objects \ sweep.named : objects[x].tier = t}}
        last == Len(sweep.tiers) = 1
    IN /\ sweep.at = "list"
       /\ sweep' = IF last THEN NoSweep ELSE [sweep EXCEPT !.found = found, !.tiers = Tail(@)]
       /\ orphans' = IF last THEN found ELSE orphans
       /\ UNCHANGED <<logVars, storeVars, tierVars, cacheVars, job, late, scan, faults>>

\* A manifest or a store that cannot be read: no list at all.
SweepFails ==
    /\ sweep.at \in {"manifests", "list"}
    /\ faults < setting.faults
    /\ faults' = faults + 1
    /\ sweep' = NoSweep
    /\ UNCHANGED <<logVars, storeVars, tierVars, cacheVars, job, late, scan, orphans>>

\* All of the list, or what was deleted before the store failed.
DeleteStoreObjects(deleted) ==
    /\ deleted # {}
    /\ \A e \in orphans : e.tier \notin readonly
    /\ deleted # orphans => faults < setting.faults
    /\ faults' = IF deleted = orphans THEN faults ELSE faults + 1
    /\ objects' = Without(objects, {e.key : e \in deleted})
    /\ orphans' = {}
    /\ UNCHANGED <<logVars, manifest, tierVars, cacheVars, job, late, scan, sweep>>

-----------------------------------------------------------------------------
(* The process is killed and the log opened again.  Open deletes the local    *)
(* files of the segments it drops.                                            *)

CrashAndOpen ==
    /\ May("crash") /\ ~mergeRefused /\ ~overlapRefused
    /\ disk' = RestrictDomain(disk, LAMBDA b : b \in keptBases)
    /\ segs' = [b \in keptBases |->
                  IF b \in DOMAIN disk
                  THEN [offs |-> disk[b], tier |-> Local, key |-> None, open |-> TRUE]
                  ELSE [offs |-> adopted[b].offs, tier |-> adopted[b].tier,
                        key |-> adopted[b].key, open |-> TRUE]]
    /\ listed' = keptBases
    /\ readonly' = {} /\ reclaim' = {} /\ stale' = FALSE
    /\ job' = Idle /\ late' = NotLate
    /\ scan' = [r \in Scanners |-> None]
    /\ lock' = [s \in Seekers |-> None]
    /\ sweep' = NoSweep
    /\ C!NewRemoteIndexCache
    /\ UNCHANGED <<next, live, storeVars, orphans, faults>>

-----------------------------------------------------------------------------
\* The steps of a job and of a deferred publish.
JobStep ==
    \/ PutManifest
    \/ \E lands \in BOOLEAN : PutFails(lands)
    \/ Upload
    \/ UploadFails
    \/ \E removed \in BOOLEAN : attachOffloaded(removed)
    \/ \E done, gone \in BOOLEAN : cleanTiers(done, gone) \/ TrimUnlinks(done, gone)
    \/ NextStage
    \/ \E b \in job.cleaned, keep \in SUBSET (0..MaxOffset - 1) :
          keep \subseteq segs[b].offs /\ cleanSegment(b, keep)
    \/ \E run \in SUBSET job.cleaned : joinOneTiered(run)
    \/ Swap
    \/ SwapRefused
    \/ retireIntoJoin
    \/ PublishList
    \/ \E b \in listed, dst \in TierNames : moveSegment(b, dst)
    \/ Republish
    \/ EndPass
    \/ TrimLists

SweepStep == SweepManifest \/ SweepSegments \/ SweepList \/ SweepFails

LateStep == LateReads \/ LatePuts \/ LateFails

Step ==
    \/ Roll
    \/ \E o \in 1..MaxOffset : OffloadBefore(o) \/ TruncateBefore(o)
    \/ StartPass
    \/ JobStep
    \/ LateStep
    \/ \E r \in Scanners : (\E b \in listed : acquireBacking(r, b)) \/ releaseBacking(r)
    \/ \E s \in Seekers : withIndex(s) \/ SeekStep(s)
    \/ \E t \in TierNames, ro \in BOOLEAN : SetTierReadOnly(t, ro)
    \/ UnreferencedObjects \/ SweepStep
    \/ \E deleted \in SUBSET orphans : DeleteStoreObjects(deleted)
    \/ CrashAndOpen

\* A tier counts as handed over during the job from the flip to the job's end.
Recorded ==
    /\ flipped' = IF job' = Idle THEN {}
                  ELSE flipped \cup (readonly \ readonly') \cup (readonly' \ readonly)
    /\ UNCHANGED setting

Next == Step /\ Recorded

Spec == Init /\ [][Next]_vars

\* The cleaner ticks for as long as the log is open, a pass and a deferred publish
\* run to their end, and a scan ends.
FairSpec ==
    /\ Spec
    /\ WF_vars(StartPass /\ Recorded)
    /\ WF_vars(JobStep /\ Recorded)
    /\ WF_vars(LateStep /\ Recorded)
    /\ \A r \in Scanners : WF_vars(releaseBacking(r) /\ Recorded)

-----------------------------------------------------------------------------
(* Properties. *)

\* The types of the log's segments, of the manifests and of the objects, and the
\* index cache's list and table name the same keys.
TypeOK ==
    /\ listed \subseteq DOMAIN segs
    /\ DOMAIN objects \subseteq ObjectKeys
    /\ \A t \in TierNames : \A b \in DOMAIN manifest[t] : manifest[t][b].tier = t
    /\ \A b \in DOMAIN segs : segs[b].tier \in TierNames \cup {Local, None}
    /\ job.superseded \cup reclaim \cup orphans \subseteq [tier : TierNames, key : ObjectKeys]
    /\ C!CacheOK

\* The log, killed now, opens and serves every record nobody asked to remove.
Recovers ==
    /\ ~mergeRefused /\ ~overlapRefused
    /\ \A o \in live : \E b \in keptBases :
           /\ o \in OffsAt(b)
           /\ b \in DOMAIN disk \/ adopted[b].key \in DOMAIN objects

\* A log that is killed at any moment opens, and serves every record nobody asked
\* to remove: whichever of an upload, a commit of several manifests, a swap, a
\* release and a removal were done, the local files and the manifests together
\* name the bytes (open, mergeTierManifests, resolveSegmentOverlaps).  A tier may
\* become read-only between two jobs, not during one: publishTierManifests passes
\* over a tier that did, and the job goes on as if its change were committed.
RecoversEverything == ~May("flip in flight") => Recovers

\* Every record nobody asked to remove is in a listed segment that is open and
\* whose bytes are where the segment looks for them, whatever tiers are handed over
\* during a job and whenever an operator deletes what a sweep listed.  The sweep
\* itself runs beside no job: one that does may list an object between its upload
\* and its commit, or between a rewrite's swap and the sweep's own List
\* (UnreferencedObjects).
ServesLive ==
    \A o \in live : \E b \in listed : o \in segs[b].offs /\ segs[b].open /\ Present(b)

\* What is being read stays where it is, as long as one of its records is wanted.  A
\* scan keeps its object however often the segment has been rewritten, joined or
\* moved since (drainReclaim, storeBacking).  A seek of this log's own finds the
\* index object it is about to download: the lock it holds keeps the segment from
\* being repointed, and what is repointed is reclaimed only by a later pass.
ReadersKeepTheirObject ==
    /\ \A r \in Scanners : scan[r] # None /\ scan[r].offs \cap live # {} =>
           scan[r].key \in DOMAIN objects
    /\ \A s \in Owners : lock[s] \in DOMAIN segs /\ segs[lock[s]].offs \cap live # {} =>
           seek[s].key \in DOMAIN objects

\* The file under an index a seek is using is the one it acquired, through every
\* repointing of its segment by a pass, and a file in the cache directory is an
\* entry's or a seek still has it: none is left behind by an invalidation or a
\* failed download (index_cache.go, Invalidate and release).  Another handle may go
\* on seeking in an object this one has superseded, but downloads no second copy of
\* an index while a seek still reads the first: the two would share a file.
CacheKeepsItsFiles == C!IndexStaysUnderSeek /\ C!NoIndexFileLeaks

\* No step of an operation that began when a tier was read-only writes to it, nor
\* does the deferred publish of a truncation: its manifest and its objects stay as
\* they are, through offloads, retention, rewrites, joins, moves, reclaim and
\* DeleteStoreObjects (SetTierReadOnly).  TruncateBefore does not ask: the unlinks
\* of a truncation delete the objects of a read-only tier as well.
ReadOnlyRespected ==
    [][\A t \in readonly \ flipped :
          /\ manifest'[t] = manifest[t]
          /\ \/ {k \in DOMAIN objects : objects[k].tier = t}
                   = {k \in DOMAIN objects' : objects'[k].tier = t}
             \/ \E done, gone \in BOOLEAN : TrimUnlinks(done, gone)]_vars

\* What a rewrite, a join or a move superseded is deleted in the end, failed
\* deletions and failed manifests included, when no tier is handed over and no pass
\* is put off for a sweep.
ReclaimDrains ==
    ~May("flip") /\ ~May("seek") /\ ~May("sweep") /\ reclaim # {} ~> reclaim = {}
=============================================================================

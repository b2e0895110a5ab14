------------------------------ MODULE KeyedLog ------------------------------
(***************************************************************************)
(* What a compacted log promises its readers, with nothing said of         *)
(* segments, digests or passes.  Readers of decided records see, for each  *)
(* key, its newest value, and every record that has no key.  From the      *)
(* first undecided record on, the log is kept as it was written.           *)
(*                                                                         *)
(* Three things change this: a record is appended, and what it decides     *)
(* becomes visible; retention, where the log has a limit, forgets a        *)
(* prefix; a truncation, where its caller makes any, cuts a suffix.        *)
(* Compaction, joins, crashes and restarts change nothing.                 *)
(***************************************************************************)
EXTENDS Transactions

CONSTANTS Keys, Records, MaxOffset

VARIABLES stable,    \* for each key, the offset of its newest decided value or None
          unkeyed,   \* the offsets of the decided records that have no key
          pending,   \* the content from the first undecided record on
          next,      \* the next offset
          retains,   \* whether the log has a retention limit
          truncates  \* whether its caller truncates it

kvars == <<stable, unkeyed, pending, next, retains, truncates>>

KInit == /\ stable = [k \in Keys |-> None]
         /\ unkeyed = {}
         /\ pending = <<>>
         /\ next = 0
         /\ retains \in BOOLEAN /\ truncates \in BOOLEAN

\* r is appended, and every record now decided leaves the pending suffix.
KAppend(r) ==
    LET C == [o \in DOMAIN pending \cup {next} |-> IF o = next THEN r ELSE pending[o]]
        u == FirstUndecided(C, next + 1)
    IN /\ next < MaxOffset
       /\ next' = next + 1
       /\ stable' = [k \in Keys |-> Newest(C, k, u, stable[k])]
       /\ unkeyed' = unkeyed \cup VisibleOf(C, NoKey, u)
       /\ pending' = From(C, u)

\* Retention drops every record below o, none of them pending.
Forget(o) ==
    /\ retains
    /\ \A x \in DOMAIN pending : x >= o
    /\ stable' = [k \in Keys |-> IF stable[k] # None /\ stable[k] < o THEN None ELSE stable[k]]
    /\ unkeyed' = {x \in unkeyed : x >= o}
    /\ UNCHANGED <<pending, next>>

\* Truncation removes every record from o on.  What it uncovers for a key whose
\* value went is up to what compaction had left of it.
Cut(o) ==
    /\ truncates
    /\ next' <= o /\ next' < next
    /\ stable' \in [Keys -> {None} \cup 0..o - 1]
    /\ unkeyed' \subseteq {x \in unkeyed : x < o}
    /\ pending' = <<>> => /\ \A k \in Keys : stable[k] \in 0..o - 1 => stable'[k] = stable[k]
                         /\ unkeyed' = {x \in unkeyed : x < o}
    /\ DOMAIN pending' \subseteq 0..o - 1
    /\ \A x \in DOMAIN pending : x < o => x \in DOMAIN pending' /\ pending'[x] = pending[x]

KNext == /\ \/ \E r \in Records : KAppend(r)
            \/ \E o \in 0..MaxOffset : Forget(o) \/ Cut(o)
         /\ UNCHANGED <<retains, truncates>>

KSpec == KInit /\ [][KNext]_kvars
=============================================================================

----------------------------- MODULE MCTiering ------------------------------
(* Instances of Tiering: two tiers, one segment of two records or two.       *)
EXTENDS Tiering

CONSTANTS near, far
TwoTiers == <<near, far>>

\* Offloads and what may happen beside them, with f failures, offsets below o and
\* four objects.
Allow(what, f, o) == [may |-> what \cup {"offload"}, faults |-> f, offsets |-> o, keys |-> 4]

Offloads == Allow({"pass", "move"}, 1, 4)
Moves == Allow({"pass", "move", "crash"}, 1, 2)
Rewrites == Allow({"pass", "rewrite", "retain", "scan", "crash"}, 1, 2)
Joins == Allow({"pass", "join", "scan", "crash"}, 1, 4)
Trims == [Allow({"trim", "crash"}, 1, 4) EXCEPT !.keys = 3]
TrimsAndPasses == Allow({"pass", "trim"}, 1, 4)
Seeks == Allow({"pass", "move", "seek"}, 0, 2)
Handover == Allow({"pass", "move", "retain", "flip"}, 1, 2)
Sweeps == Allow({"pass", "rewrite", "sweep"}, 2, 2)

\* Tiers handed over at any moment.
InFlight(what, f, o) == Allow(what \cup {"flip", "flip in flight"}, f, o)
Handovers ==
    {InFlight({"pass", "move"}, 1, 2), InFlight({"pass", "retain"}, 1, 2),
     InFlight({"pass", "rewrite", "sweep"}, 0, 2), InFlight({"pass", "join"}, 0, 4),
     InFlight({"trim"}, 1, 4)}

Sets == {Offloads, Moves, Rewrites, Joins, Trims, TrimsAndPasses, Seeks, Handover, Sweeps}
            \cup Handovers

-----------------------------------------------------------------------------
(* Settings outside those, each of which breaks a property (see the README). *)

\* A truncation inside an offloaded segment, and a kill before its publish.
TrimATier == {Allow({"trim", "trim a tier", "crash"}, 0, 2)}

\* Two kills in the moves of two segments.
MoveTwo == {Allow({"pass", "move", "crash"}, 0, 4)}

\* A move towards the log after one away from it, each killed before its release:
\* either tier then holds an entry that says it came from the other.
MoveUp == {Allow({"pass", "move", "move up", "crash"}, 1, 2)}

\* A truncation's publish that is overtaken by an offload.
PublishLate == {Allow({"trim", "publish late", "crash"}, 0, 4)}

\* A local file that outlives its offload, and a join.
LeaveLocal == {Allow({"pass", "join", "keep a local file", "crash"}, 1, 4)}

\* A tier that becomes read-only between an upload and its commit.
FlipInFlight == {Allow({"flip", "flip in flight"}, 0, 2)}

\* A sweep beside a job: it lists an object the job has yet to commit.
SweepInFlight == {Allow({"sweep", "sweep in flight"}, 0, 2)}

\* A sweep while a superseded object is being read.
SweepUnderScan == {Allow({"pass", "rewrite", "sweep", "scan"}, 0, 2)}

\* Two seeks of another handle in an object this one supersedes, the second of
\* which downloads the index again.
FetchInUse == {Allow({"pass", "move", "seek", "fetch in use"}, 0, 2)}
=============================================================================

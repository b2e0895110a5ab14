--------------------------- MODULE MCSyncBarrier ---------------------------
(***************************************************************************)
(* SyncBarrier for TLC: two goroutines calling Sync.                       *)
(***************************************************************************)
EXTENDS SyncBarrier, TLC

CONSTANTS c1, c2

MCCallers == {c1, c2}
CallerSymmetry == Permutations(MCCallers)

\* The plain operations over three offsets and three files; what races with Sync
\* over two offsets, a pair at a time.
PlainAndRaces ==
  {[races |-> {}, offsets |-> 2, files |-> 3],
   [races |-> {"SyncAll", "trim"}, offsets |-> 1, files |-> 3],
   [races |-> {"trim", "Close"}, offsets |-> 1, files |-> 3],
   [races |-> {"SyncAll", "Close"}, offsets |-> 1, files |-> 2]}

\* What can take away the record or the file a caller waits for.
CutAndClosed == {[races |-> {"Truncate", "Close"}, offsets |-> 1, files |-> 2]}
============================================================================

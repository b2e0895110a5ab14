---------------------------- MODULE MCCommitLog ----------------------------
(***************************************************************************)
(* CommitLog for TLC.  The offsets are bounded by MaxOffset, which bounds  *)
(* the segments too: a segment holds at least one record before it splits. *)
(***************************************************************************)
EXTENDS CommitLog

Trims == {"TruncateBefore"}
Cuts == {"Truncate", "TruncateBefore"}

\* Trimmed from its front, with batches; cut at both ends; cut at both ends on a
\* failing disk; synced on a machine that loses power.
EverySetting ==
    { [calls |-> Trims, faults |-> {}, offsets |-> 3, batch |-> 2],
      [calls |-> Cuts \cup {"OverrideHighWatermark"}, faults |-> {}, offsets |-> 3, batch |-> 1],
      [calls |-> Cuts, faults |-> {"delete", "write"}, offsets |-> 3, batch |-> 1],
      [calls |-> {"Sync", "SyncAll"}, faults |-> {"power"}, offsets |-> 3, batch |-> 1] }

\* Cut from the end only.
Cut == { [calls |-> {"Truncate"}, faults |-> {}, offsets |-> 4, batch |-> 1] }
=============================================================================

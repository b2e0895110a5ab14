--------------------------- MODULE MCSegmentFile ---------------------------
(* One segment's files, without block compression and with it.             *)
EXTENDS SegmentFile

Layout(block, offsets, may) ==
  [block |-> block, batch |-> IF block THEN 2 ELSE 3, target |-> 3, offsets |-> offsets,
   may |-> may]

\* Per-record files under everything that can happen to one, and block files
\* under everything but a kill between the renames of a rewrite, a loss of power
\* that cuts the log between two blocks, and one that keeps a sidecar.
BothLayouts ==
  {Layout(FALSE, 2, {"rewrite", "join", "killInRename", "rename"}),
   Layout(FALSE, 3, {"map"}),
   Layout(FALSE, 3, {"power"}),
   Layout(TRUE, 3, {"rewrite", "rename"}),
   Layout(TRUE, 3, {"map"}),
   Layout(TRUE, 3, {"power"})}

\* A block file, and the kill between the renames.
BlockRewrite ==
  {[block |-> TRUE, batch |-> 3, target |-> 4, offsets |-> 3, may |-> {"rewrite", "killInRename"}]}

\* Block files joined, and killed between the renames or before the source's
\* table is removed.
BlockJoin ==
  {[block |-> TRUE, batch |-> 1, target |-> 2, offsets |-> 3, may |-> {"rewrite", "join", "killInRename"}]}

\* A rewrite of which a file cannot be renamed.
RenameFails == {Layout(FALSE, 2, {"rewrite", "rename"})}

\* Losses of power that leave more than a shorter log and a shorter index.
CutBetweenBlocks == {Layout(TRUE, 3, {"power", "boundary"})}
SidecarKept == {Layout(TRUE, 3, {"power", "sidecar"})}
IndexHoled == {Layout(FALSE, 3, {"power", "hole"})}
=============================================================================

--------------------------- MODULE MCLeaderEpoch ---------------------------
(***************************************************************************)
(* LeaderEpoch for TLC: the plain protocol over five offsets, and every    *)
(* situation at once over three.                                           *)
(***************************************************************************)
EXTENDS LeaderEpoch

Everything == {"unstamped", "trimActive", "trimEmpty", "trimInAssign",
               "cutInHole", "cutLeading", "flushFails", "crashInAssign"}

PlainAndEverything ==
  {[may |-> {}, offsets |-> 4], [may |-> Everything, offsets |-> 2]}
=============================================================================

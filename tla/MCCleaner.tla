----------------------------- MODULE MCCleaner ------------------------------
(***************************************************************************)
(* The settings under which TLC checks the maintenance pass: how many      *)
(* records are appended and of which kinds, how often the log rolls, what  *)
(* the caller's CleanSpec may ask for, how many crashes and failed file    *)
(* operations there are, and which stages run.                             *)
(***************************************************************************)
EXTENDS Cleaner

CONSTANTS k1, p1

R(kind, key, pid) == [kind |-> kind, key |-> key, pid |-> pid]

Put == R("put", k1, NoPid)
Del == R("del", k1, NoPid)
Plain == R("put", NoKey, NoPid)
TxPut == R("put", k1, p1)
TxPlain == R("put", NoKey, p1)
Commit == R("commit", NoKey, p1)
Abort == R("abort", NoKey, p1)

Base == [offsets |-> 5, roll |-> 1, records |-> {Put, Del}, faults |-> 1,
         ceiling |-> "last decided", slack |-> 0, strip |-> "no", expired |-> {0},
         young |-> {Infinity}, ttls |-> {0}, limits |-> {0}, join |-> 0, compact |-> TRUE,
         stripOnly |-> FALSE, leftovers |-> FALSE, truncates |-> FALSE]

Transactional == [Base EXCEPT !.records = {Put, TxPut, TxPlain, Commit, Abort}, !.offsets = 4,
                              !.strip = "to the ceiling"]
Interleaved == [Base EXCEPT !.records = {Put, TxPut, Commit, Abort}, !.roll = 2,
                            !.strip = "to the ceiling"]
StripOnly == [Base EXCEPT !.records = {TxPut, Commit, Abort}, !.offsets = 4,
                          !.strip = "below the ceiling", !.stripOnly = TRUE]
Tombstones == [Base EXCEPT !.records = {Put, Del, Plain}, !.expired = {Infinity}, !.roll = 2]
Young == [Base EXCEPT !.expired = {0, Infinity}, !.offsets = 4, !.slack = 1, !.young = {2, Infinity}]
Joins == [Base EXCEPT !.records = {Put, TxPut, Commit}, !.join = 4, !.roll = 2]
LeftBehind == [Base EXCEPT !.records = {Put, Plain}, !.join = 2, !.leftovers = TRUE,
                           !.compact = FALSE]
Retention == [Base EXCEPT !.records = {Put, TxPut, Commit}, !.offsets = 4, !.ttls = {0, 2},
                          !.limits = {0, 2}, !.join = 2, !.faults = 2]
Cuts == [Base EXCEPT !.records = {Put, Del}, !.offsets = 4, !.truncates = TRUE]

Sets == {Transactional, Interleaved, StripOnly, Tombstones, Young, Joins, LeftBehind, Retention, Cuts}

\* A joined-away input whose files stay, and a later pass that compacts.
LeftBehindAndCompacted == {[Joins EXCEPT !.records = {Put, Plain}, !.slack = 1, !.leftovers = TRUE]}

\* A truncation inside a segment, which later appends fill up again.
CutAndRefilled == {[Base EXCEPT !.records = {Put, Plain}, !.roll = 2, !.truncates = TRUE, !.faults = 0]}

\* A strip boundary above the compaction ceiling.
StripPastCeiling == {[Transactional EXCEPT !.strip = "all decided", !.faults = 0]}

\* The compaction ceiling at the first record that is not decided.
CeilingAtUndecided == {[Transactional EXCEPT !.ceiling = "first undecided", !.faults = 0]}
=============================================================================

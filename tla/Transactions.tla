---------------------------- MODULE Transactions ----------------------------
(***************************************************************************)
(* What the records of a log mean to the layer that writes transactions    *)
(* into it.  The log gives a record a key, a tombstone bit, a control bit  *)
(* and headers; the layer above names a producer in the headers of a       *)
(* transactional record and ends the transaction with a control record of  *)
(* that producer.  CleanSpec (clean.go) speaks of that layer's decisions:  *)
(* which records' transactions aborted, and where the decided prefix ends. *)
(*                                                                         *)
(* A content is a function from the offsets still in a log to records.     *)
(***************************************************************************)
EXTENDS Integers, FiniteSets, FiniteSetsExt, Functions

CONSTANTS NoKey,     \* the key of a record without one
          NoPid,     \* the producer of a record without transactional headers
          None       \* no offset

Marker(r) == r.kind \in {"commit", "abort"}
Tombstone(r) == r.kind = "del"
Headers(r) == ~Marker(r) /\ r.pid # NoPid

\* The offsets of the control records that end the transaction of the record at o.
MarkersOf(C, o) == {m \in DOMAIN C : m > o /\ Marker(C[m]) /\ C[m].pid = C[o].pid}

Undecided(C, o) == Headers(C[o]) /\ MarkersOf(C, o) = {}
Aborted(C, o) == /\ Headers(C[o])
                 /\ MarkersOf(C, o) # {}
                 /\ C[Min(MarkersOf(C, o))].kind = "abort"
Visible(C, o) == ~Marker(C[o]) /\ ~Undecided(C, o) /\ ~Aborted(C, o)

\* The first offset a reader of decided records may not pass.
FirstUndecided(C, next) == Min({o \in DOMAIN C : Undecided(C, o)} \cup {next})

\* The visible records of key k below an offset.
VisibleOf(C, k, below) == {o \in DOMAIN C : o < below /\ C[o].key = k /\ Visible(C, o)}

\* What a reader of decided records holds for key k: the offset of the newest
\* value, or what it held before this content, or nothing once deleted.
Newest(C, k, below, before) ==
    LET S == VisibleOf(C, k, below)
    IN IF S = {} THEN before
       ELSE IF Tombstone(C[Max(S)]) THEN None ELSE Max(S)

From(C, o) == RestrictDomain(C, LAMBDA x : x >= o)
=============================================================================

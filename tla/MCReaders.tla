----------------------------- MODULE MCReaders -----------------------------
(***************************************************************************)
(* Readers for TLC.  Readers share nothing but the log, which none of them *)
(* writes, so one reader that is built as either kind shows what many do.  *)
(***************************************************************************)
EXTENDS Readers

CONSTANT r1

MCReader == {r1}

S(may, offsets, records) == [may |-> may, offsets |-> offsets, records |-> records]

\* Followers beside a watermark that leads the tail and a switch to readonly;
\* beside compaction, with callers that give up; reads of a log that closes,
\* bounded ones too; and NotifyLEO.
EverySetting ==
    { S({"committed", "lead", "readonly"}, 2, 2),
      S({"committed", "compact", "cancel"}, 3, 3),
      S({"uncommitted", "compact", "cancel"}, 3, 2),
      S({"committed", "uncommitted", "close", "bounded"}, 2, 2),
      S({"leo"}, 3, 2) }

\* A follower and nothing but appends and rolls.
Rolls == { S({"uncommitted"}, 3, 2) }

\* Compaction of a segment that a committed reader is bounded in, that it reads in
\* below the watermark, or that ends the list it walks.
RewriteUnderAReader == { S({"committed", "compact", "rewrite under a reader"}, 4, 2) }

\* The watermark moved back, into an earlier segment.
MovedBack == { S({"committed", "override"}, 3, 2) }

\* A bounded uncommitted read over a segment that is rewritten.
BoundedAndCompacted == { S({"uncommitted", "bounded", "compact"}, 3, 2) }
=============================================================================

----------------------------- MODULE MCBackfill -----------------------------
(***************************************************************************)
(* TLC instance of Backfill: every legacy table of up to MaxLegacy rows    *)
(* within the clock's bound.                                               *)
(***************************************************************************)
EXTENDS Backfill

CONSTANT MaxLegacy

LegacyRows == [subject : {"own", "smtp", "complaint"}, at : 0..MaxClock, of : {0}]
                  \cup [subject : {"report"}, at : 0..MaxClock, of : 1..MaxLegacy]

LegacyTables ==
    {t \in UNION {[1..n -> LegacyRows] : n \in 0..MaxLegacy} : Plausible(t)}
=============================================================================

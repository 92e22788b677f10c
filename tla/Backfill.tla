------------------------------ MODULE Backfill ------------------------------
(***************************************************************************)
(* The one-shot command api/backfill_sources.py, which labels rows older   *)
(* than the column source: by subject, and with --pair-complaints also the *)
(* capture of each complaint report, guessed from the times. It runs next  *)
(* to the API, which ingests (always with a source) and deletes.           *)
(*                                                                         *)
(* The session has autoflush off: a query sees what was flushed, not what  *)
(* was only assigned. The nightly TRUNCATE waits for the command's         *)
(* transaction, and between its two commits it holds no row, so a reset is *)
(* left out. created_at never decreases with the id.                       *)
(***************************************************************************)
EXTENDS Integers, Sequences, FiniteSets

CONSTANTS PairWindow,  \* PAIR_WINDOW_SECONDS
          Legacy,      \* tables from before the column
          MaxId,       \* bound on rows
          MaxClock,    \* bound on time
          MaxRuns,     \* bound on runs of the command
          MaxDeletes   \* bound on deletes

Subjects == {"own", "smtp", "complaint", "report"}
Labels == {"smtp", "complaint", "report"}
NoSource == "null"

\* A report knows its capture, other rows have of = 0. The command does not
\* see it.
MailRow == [subject : Subjects, at : Nat, of : Nat]

\* A table that ingests can have left: the times go up with the ids, and a report
\* follows a capture, which has no other report.
Plausible(t) ==
    /\ \A i, j \in DOMAIN t : i < j => t[i].at <= t[j].at
    /\ \A a \in DOMAIN t : t[a].subject = "report" =>
          /\ t[a].of \in 1..(a - 1)
          /\ t[t[a].of].subject \in {"own", "complaint"}
          /\ \A b \in DOMAIN t \ {a} : t[b].of # t[a].of

ASSUME BackfillAssumption ==
    /\ PairWindow \in Nat
    /\ MaxId \in Nat /\ MaxClock \in Nat /\ MaxRuns \in Nat /\ MaxDeletes \in Nat
    /\ Legacy \subseteq Seq(MailRow)
    /\ \A t \in Legacy : Plausible(t)

VARIABLES rows,    \* everything ever ingested, by id
          source,  \* the committed column, by id
          gone,    \* ids of deleted rows
          clock,
          run,     \* the command in progress
          runs,    \* how often it was started
          done     \* history: <<report, row or 0>> of committed pairings

bvars == <<rows, source, gone, clock, run, runs, done>>

Ids == 1..Len(rows)
Present == Ids \ gone

NoRun == [pc |-> "idle", apply |-> FALSE, pair |-> FALSE, todo |-> {},
          picks |-> <<>>, mine |-> <<>>]

BInit ==
    /\ rows \in Legacy
    /\ source = [i \in 1..Len(rows) |-> NoSource]
    /\ gone = {}
    /\ clock = IF rows = <<>> THEN 0 ELSE rows[Len(rows)].at
    /\ run = NoRun
    /\ runs = 0
    /\ done = {}

(***************************************************************************)
(* The API                                                                 *)
(***************************************************************************)

Ingest(subject, of, label) ==
    /\ Len(rows) < MaxId
    /\ rows' = Append(rows, [subject |-> subject, at |-> clock, of |-> of])
    /\ source' = Append(source, label)
    /\ UNCHANGED <<gone, clock, run, runs, done>>

\* The capture and the report of a complaint; the pipe posts the report second,
\* and may do so after an upgrade that fell in between.
IngestComplaint == Ingest("own", 0, "complaint")

IngestReport ==
    \E c \in {i \in Ids : rows[i].subject \in {"own", "complaint"}} :
        /\ \A a \in Ids : rows[a].of # c
        /\ Ingest("report", c, "report")

\* A bulk delete commits. Rows the command has flushed are locked.
DeleteRow(i) ==
    /\ Cardinality(gone) < MaxDeletes
    /\ i \notin DOMAIN run.mine
    /\ gone' = gone \cup {i}
    /\ UNCHANGED <<rows, source, clock, run, runs, done>>

Second ==
    /\ clock < MaxClock
    /\ clock' = clock + 1
    /\ UNCHANGED <<rows, source, gone, run, runs, done>>

(***************************************************************************)
(* The command                                                             *)
(***************************************************************************)

\* The column as the command's statements see it.
Seen(i) == IF i \in DOMAIN run.mine THEN run.mine[i] ELSE source[i]

\* main, and the first query of run_exact.
Start(apply, pair) ==
    /\ run.pc = "idle"
    /\ runs < MaxRuns
    /\ runs' = runs + 1
    /\ run' = [NoRun EXCEPT !.pc = "exact", !.apply = apply, !.pair = pair,
                  !.todo = {i \in Present : source[i] = NoSource /\ rows[i].subject \in Labels}]
    /\ UNCHANGED <<rows, source, gone, clock, done>>

Merged(labels) == [i \in Ids |-> IF i \in DOMAIN labels THEN labels[i] ELSE source[i]]

\* Slip: the flush is followed by a commit whatever was asked for.
FlushedAlways(labels, next) ==
    /\ source' = Merged(labels)
    /\ run' = [next EXCEPT !.mine = <<>>]

\* session.flush(), and session.commit() with --apply: otherwise what was
\* written stays in the open transaction.
Flushed(labels, next) ==
    IF run.apply
    THEN /\ source' = Merged(labels)
         /\ run' = [next EXCEPT !.mine = <<>>]
    ELSE /\ source' = source
         /\ run' = [next EXCEPT !.mine = labels]

\* An UPDATE of a row that is gone raises StaleDataError instead, see Abort.
FlushExact ==
    /\ run.pc = "exact"
    /\ run.todo \subseteq Present
    /\ Flushed([i \in run.todo |-> rows[i].subject],
               [run EXCEPT !.pc = IF run.pair THEN "select" ELSE "end", !.todo = {}])
    /\ UNCHANGED <<rows, gone, clock, runs, done>>

\* run_pair_complaints reads all reports.
SelectReports ==
    /\ run.pc = "select"
    /\ run' = [run EXCEPT !.pc = "pair", !.todo = {i \in Present : Seen(i) = "report"}]
    /\ UNCHANGED <<rows, source, gone, clock, runs, done>>

\* Slip: a capture exactly one window old is out.
CandidatesInside(a) ==
    {r \in Present : /\ Seen(r) = NoSource
                     /\ r < a
                     /\ rows[r].at > rows[a].at - PairWindow
                     /\ rows[r].at <= rows[a].at}

\* The rows the query for report a selects.
Candidates(a) ==
    {r \in Present : /\ Seen(r) = NoSource
                     /\ r < a
                     /\ rows[r].at >= rows[a].at - PairWindow
                     /\ rows[r].at <= rows[a].at}

\* Slip: the rows come in ascending order.
LaterAscending(r, q) == rows[r].at < rows[q].at \/ (rows[r].at = rows[q].at /\ r <= q)

\* r comes before q in the order of the query.
Later(r, q) == rows[r].at > rows[q].at \/ (rows[r].at = rows[q].at /\ r >= q)

Nearest(a) == CHOOSE r \in Candidates(a) : \A q \in Candidates(a) : Later(r, q)

\* One turn of the loop. The label is assigned, and the next query does not
\* see it.
PairNext ==
    /\ run.pc = "pair"
    /\ run.todo # {}
    /\ LET a == CHOOSE i \in run.todo : \A j \in run.todo : i <= j
           pick == IF Candidates(a) = {} THEN 0 ELSE Nearest(a)
       IN run' = [run EXCEPT !.todo = @ \ {a}, !.picks = Append(@, <<a, pick>>)]
    /\ UNCHANGED <<rows, source, gone, clock, runs, done>>

Picks == {run.picks[k] : k \in DOMAIN run.picks}
Picked == {p[2] : p \in Picks} \ {0}

FlushPairs ==
    /\ run.pc = "pair"
    /\ run.todo = {}
    /\ Picked \subseteq Present
    /\ Flushed([i \in Picked \cup DOMAIN run.mine |->
                   IF i \in Picked THEN "complaint" ELSE run.mine[i]],
               [run EXCEPT !.pc = "end", !.picks = <<>>])
    /\ done' = IF run.apply THEN done \cup Picks ELSE done
    /\ UNCHANGED <<rows, gone, clock, runs>>

\* The session is closed, which rolls back a dry run. A StaleDataError, a lost
\* connection or a signal end the command at any time in the same way.
Abort ==
    /\ run.pc # "idle"
    /\ run' = NoRun
    /\ UNCHANGED <<rows, source, gone, clock, runs, done>>

Command ==
    \/ \E apply, pair \in BOOLEAN : Start(apply, pair)
    \/ FlushExact \/ SelectReports \/ PairNext \/ FlushPairs \/ Abort

BNext ==
    \/ IngestComplaint \/ IngestReport
    \/ \E i \in Present : DeleteRow(i)
    \/ Second
    \/ Command

BSpec == BInit /\ [][BNext]_bvars

(***************************************************************************)
(* Properties                                                              *)
(***************************************************************************)

\* What the command writes: it fills an empty source, only with --apply, and a
\* source that is there never changes, although the UPDATEs are blind and the
\* queries do not see labels that are only assigned.
FillsOnly ==
    [][\A i \in Ids : source'[i] # source[i] => source[i] = NoSource /\ run.apply]_bvars

TooOld(c, a) == rows[c].at < rows[a].at - PairWindow

\* A pairing puts the label on another row than the report's capture only when
\* that row came between the two, or the capture was out of reach: deleted, too
\* old, or labelled, be it by its subject or by an earlier run.
WrongNeedsCause ==
    \A p \in done :
        LET c == rows[p[1]].of IN
        p[2] \notin {0, c} => \/ c < p[2]
                              \/ TooOld(c, p[1])
                              \/ c \in gone
                              \/ source[c] # NoSource

\* The capture of a report that was paired stays without a label only when it is
\* too old, or when a row between the two took the label: two complaints that
\* overlap both take the later capture.
MissNeedsCause ==
    \A p \in done :
        LET c == rows[p[1]].of IN
        source[c] = NoSource => \/ TooOld(c, p[1])
                                \/ c \in gone
                                \/ \E r \in (c + 1)..(p[1] - 1) : source[r] = "complaint"
=============================================================================

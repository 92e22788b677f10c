-------------------------------- MODULE Store --------------------------------
(***************************************************************************)
(* The table test_emails and the handlers of api/main.py that write it,    *)
(* each on a session of its own in FastAPI's thread pool, next to the      *)
(* nightly reset of api/seed_and_reset.py. A session loads its rows, runs  *)
(* the analyser on them (whose verdict depends on DNS at that moment), and *)
(* flushes at commit: a statement per row in id order, for the columns     *)
(* that differ from what it loaded.                                        *)
(*                                                                         *)
(* Of PostgreSQL (READ COMMITTED) the model has the row lock a statement   *)
(* takes until commit, and the table lock that makes TRUNCATE wait for     *)
(* every transaction that has touched the table, and they for it.          *)
(***************************************************************************)
EXTENDS Integers, FiniteSets

CONSTANTS Sessions,   \* requests in progress
          MaxId,      \* bound on ids between two resets
          Mails,      \* what may be ingested
          SeedMails,  \* the curated set, by id: seed i is row i after a reset
          Verdicts,   \* analyses: values of auth_results and deliverability
          None

Ids == 1..MaxId
Seeds == 1..SeedMails
Texts == Mails \cup Seeds
Auths == {v.auth : v \in Verdicts}
Delivs == {v.deliv : v \in Verdicts}
Rows == [text : Texts, auth : Auths, deliv : Delivs]

ASSUME StoreAssumption ==
    /\ MaxId \in Nat
    /\ SeedMails \in Nat
    /\ SeedMails <= MaxId
    /\ None \notin Sessions \cup Rows

VARIABLES table,   \* committed rows
          lastId,  \* the id sequence
          sess,    \* per session: the request, its loaded rows, its analyses
          locks,   \* per id, the session whose open transaction wrote the row
          deleted, \* history: ids of committed deletes since the last reset
          raced    \* history: ids committed by a session while another one had
                   \* them loaded, since the last reset

svars == <<table, lastId, sess, locks, deleted, raced>>

\* The two columns stand for all that an analysis writes.
Row(text, v) == [text |-> text, auth |-> v.auth, deliv |-> v.deliv]

Nothing == [i \in {} |-> None]

Idle == [pc |-> "idle", op |-> None, loaded |-> Nothing, fresh |-> Nothing, todo |-> {},
         id |-> None, reset |-> FALSE]

Existing == {i \in Ids : table[i] # None}

\* Sessions whose transaction holds a lock on the table.
Open == {s \in Sessions : sess[s].pc = "flush"}

SInit ==
    /\ table = [i \in Ids |-> None]
    /\ lastId = 0
    /\ sess = [s \in Sessions |-> Idle]
    /\ locks = [i \in Ids |-> None]
    /\ deleted = {}
    /\ raced = {}

(***************************************************************************)
(* POST /ingest                                                            *)
(***************************************************************************)

\* Slip: the id is one more than the largest in the table.
InsertByMax(s, text, v) ==
    /\ sess[s].pc = "idle"
    /\ lastId < MaxId
    /\ \E id \in Ids \ Existing :
          /\ \A i \in Existing : i < id
          /\ id = 1 \/ id - 1 \in Existing
          /\ lastId' = IF id > lastId THEN id ELSE lastId
          /\ table' = [table EXCEPT ![id] = Row(text, v)]
          /\ sess' = [sess EXCEPT ![s] = [Idle EXCEPT !.pc = "refresh", !.op = text, !.id = id]]
    /\ UNCHANGED <<locks, deleted, raced>>

\* ingest_email up to db.commit(): the new row is only seen committed.
Insert(s, text, v) ==
    /\ sess[s].pc = "idle"
    /\ lastId < MaxId
    /\ lastId' = lastId + 1
    /\ table' = [table EXCEPT ![lastId + 1] = Row(text, v)]
    /\ sess' = [sess EXCEPT ![s] = [Idle EXCEPT !.pc = "refresh", !.op = text, !.id = lastId + 1]]
    /\ UNCHANGED <<locks, deleted, raced>>

\* db.refresh in a transaction of its own: the row is answered, or an error
\* when there is none under the id.
Refresh(s) ==
    /\ sess[s].pc = "refresh"
    /\ sess' = [sess EXCEPT ![s] = Idle]
    /\ UNCHANGED <<table, lastId, locks, deleted, raced>>

(***************************************************************************)
(* Reanalysis and bulk delete                                              *)
(***************************************************************************)

\* The rows are loaded and analysed; the changed ones wait for the flush.
Reanalyse(s, ids, fresh) ==
    /\ sess[s].pc = "idle"
    /\ ids # {}
    /\ sess' = [sess EXCEPT ![s] =
          [Idle EXCEPT !.pc = "flush", !.op = "reanalyse",
                       !.loaded = [i \in ids |-> table[i]],
                       !.fresh = fresh,
                       !.todo = {i \in ids : \E c \in {"auth", "deliv"} : fresh[i][c] # table[i][c]}]]
    /\ UNCHANGED <<table, lastId, locks, deleted, raced>>

\* The analyser raises on one of the rows: nothing was written yet.
AnalysisFails(s) ==
    /\ sess[s].pc = "flush"
    /\ sess[s].op = "reanalyse"
    /\ \A i \in Ids : locks[i] # s
    /\ sess' = [sess EXCEPT ![s] = Idle]
    /\ UNCHANGED <<table, lastId, locks, deleted, raced>>

Delete(s, ids) ==
    /\ sess[s].pc = "idle"
    /\ ids # {}
    /\ sess' = [sess EXCEPT ![s] =
          [Idle EXCEPT !.pc = "flush", !.op = "delete",
                       !.loaded = [i \in ids |-> table[i]], !.todo = ids]]
    /\ UNCHANGED <<table, lastId, locks, deleted, raced>>

\* Slip: deletes go out in the order of the page, newest first.
NextRowAsListed(s) ==
    IF sess[s].op = "delete"
    THEN CHOOSE i \in sess[s].todo : \A j \in sess[s].todo : i >= j
    ELSE CHOOSE i \in sess[s].todo : \A j \in sess[s].todo : i <= j

\* A flush sends its statements in primary key order.
NextRow(s) == CHOOSE i \in sess[s].todo : \A j \in sess[s].todo : i <= j

Flushing(s) == sess[s].pc = "flush" /\ sess[s].todo # {}

\* The statement found its row: it is locked until the end.
FlushRow(s) ==
    /\ Flushing(s)
    /\ locks[NextRow(s)] = None
    /\ table[NextRow(s)] # None
    /\ locks' = [locks EXCEPT ![NextRow(s)] = s]
    /\ sess' = [sess EXCEPT ![s].todo = @ \ {NextRow(s)}]
    /\ UNCHANGED <<table, lastId, deleted, raced>>

\* Slip: rows that others have locked are skipped.
FlushGoneOrLocked(s) ==
    /\ Flushing(s)
    /\ sess[s].op = "delete"
    /\ table[NextRow(s)] = None \/ locks[NextRow(s)] # None
    /\ sess' = [sess EXCEPT ![s].todo = @ \ {NextRow(s)}]
    /\ UNCHANGED <<table, lastId, locks, deleted, raced>>

\* A DELETE that finds no row is only warned about.
FlushGone(s) ==
    /\ Flushing(s)
    /\ sess[s].op = "delete"
    /\ table[NextRow(s)] = None
    /\ sess' = [sess EXCEPT ![s].todo = @ \ {NextRow(s)}]
    /\ UNCHANGED <<table, lastId, locks, deleted, raced>>

Unlocked(s) == [i \in Ids |-> IF locks[i] = s THEN None ELSE locks[i]]

\* Slip: a row that is gone is added again.
FlushStaleAdds(s) ==
    /\ Flushing(s)
    /\ sess[s].op = "reanalyse"
    /\ table[NextRow(s)] = None
    /\ table' = [table EXCEPT ![NextRow(s)] = Row(sess[s].loaded[NextRow(s)].text, sess[s].fresh[NextRow(s)])]
    /\ sess' = [sess EXCEPT ![s].todo = @ \ {NextRow(s)}]
    /\ UNCHANGED <<lastId, locks, deleted, raced>>

\* An UPDATE that finds no row raises StaleDataError: all is rolled back.
FlushStale(s) ==
    /\ Flushing(s)
    /\ sess[s].op = "reanalyse"
    /\ table[NextRow(s)] = None
    /\ locks' = Unlocked(s)
    /\ sess' = [sess EXCEPT ![s] = Idle]
    /\ UNCHANGED <<table, lastId, deleted, raced>>

Written(s) == {i \in Ids : locks[i] = s}

\* Slip: one of the columns is forgotten.
ValueForgotten(s, i, c) == IF c = "deliv" THEN table[i][c] ELSE sess[s].fresh[i][c]

\* A column is sent only when the analysis differs from what was loaded.
Value(s, i, c) ==
    IF sess[s].fresh[i][c] # sess[s].loaded[i][c] THEN sess[s].fresh[i][c] ELSE table[i][c]

Others(s, i) == {t \in Open \ {s} : i \in DOMAIN sess[t].loaded}

\* The commit of a reanalysis. reanalyze_test refreshes the row it answers
\* with, the bulk handlers answer with their counts.
CommitReanalysis(s) ==
    /\ sess[s].pc = "flush"
    /\ sess[s].op = "reanalyse"
    /\ sess[s].todo = {}
    /\ table' = [i \in Ids |->
          IF i \in Written(s)
          THEN [table[i] EXCEPT !.auth = Value(s, i, "auth"), !.deliv = Value(s, i, "deliv")]
          ELSE table[i]]
    /\ locks' = Unlocked(s)
    /\ raced' = raced \cup {i \in Written(s) : Others(s, i) # {}}
    /\ \/ sess' = [sess EXCEPT ![s] = Idle]
       \/ \E i \in DOMAIN sess[s].loaded :
             /\ DOMAIN sess[s].loaded = {i}
             /\ sess' = [sess EXCEPT ![s] =
                   [Idle EXCEPT !.pc = "refresh", !.op = sess[s].loaded[i].text, !.id = i]]
    /\ UNCHANGED <<lastId, deleted>>

CommitDelete(s) ==
    /\ sess[s].pc = "flush"
    /\ sess[s].op = "delete"
    /\ sess[s].todo = {}
    /\ table' = [i \in Ids |-> IF i \in Written(s) THEN None ELSE table[i]]
    /\ deleted' = deleted \cup Written(s)
    /\ locks' = Unlocked(s)
    /\ sess' = [sess EXCEPT ![s] = Idle]
    /\ UNCHANGED <<lastId, raced>>

(***************************************************************************)
(* The nightly reset, and the end of the API process.                      *)
(***************************************************************************)

\* What a reset leaves: n seeds under the first ids, no deletes, no races, and
\* the sequence restarted. Sessions between commit and refresh are not held up.
Reseeded(n, v) ==
    /\ table' = [i \in Ids |-> IF i <= n THEN Row(i, v[i]) ELSE None]
    /\ lastId' = n
    /\ deleted' = {}
    /\ raced' = {}
    /\ sess' = [s \in Sessions |-> [sess[s] EXCEPT !.reset = sess[s].pc = "refresh"]]

\* Slip: DELETE and a sequence restart, which wait for no reader.
ResetUnlocked(n, v) ==
    /\ locks = [i \in Ids |-> None]
    /\ Reseeded(n, v)
    /\ UNCHANGED locks

\* TRUNCATE ... RESTART IDENTITY and the seeds, in one transaction; a seed the
\* analyser fails on is left out.
Reset(n, v) ==
    /\ Open = {}
    /\ Reseeded(n, v)
    /\ UNCHANGED locks

\* The process is killed: open transactions are rolled back.
ApiDies ==
    /\ sess' = [s \in Sessions |-> Idle]
    /\ locks' = [i \in Ids |-> None]
    /\ UNCHANGED <<table, lastId, deleted, raced>>

Request(s) ==
    \/ \E text \in Mails, v \in Verdicts : Insert(s, text, v)
    \/ \E ids \in SUBSET Existing :
          \/ \E fresh \in [ids -> Verdicts] : Reanalyse(s, ids, fresh)
          \/ Delete(s, ids)

Work(s) ==
    AnalysisFails(s) \/ FlushRow(s) \/ FlushGone(s) \/ FlushStale(s)
        \/ CommitReanalysis(s) \/ CommitDelete(s) \/ Refresh(s)

SNext ==
    \/ \E s \in Sessions : Request(s) \/ Work(s)
    \/ \E n \in 0..SeedMails : \E v \in [1..n -> Verdicts] : Reset(n, v)
    \/ ApiDies

SSpec == SInit /\ [][SNext]_svars

(***************************************************************************)
(* Properties                                                              *)
(***************************************************************************)

\* Type invariant; a lock belongs to a session that is flushing, and a row that
\* is locked exists.
STypeOK ==
    /\ table \in [Ids -> Rows \cup {None}]
    /\ lastId \in 0..MaxId
    /\ \A s \in Sessions :
          /\ sess[s].pc \in {"idle", "flush", "refresh"}
          /\ sess[s].pc = "flush" => /\ DOMAIN sess[s].loaded \subseteq 1..lastId
                                     /\ sess[s].todo \subseteq DOMAIN sess[s].loaded
          /\ sess[s].pc = "refresh" => sess[s].id \in Ids
    /\ \A i \in Ids : locks[i] # None => locks[i] \in Open /\ table[i] # None
    /\ Existing \subseteq 1..lastId
    /\ deleted \subseteq 1..lastId

\* The ids a request loaded keep meaning the rows it loaded, although a reset
\* hands the same ids out again: no analysis lands on another message, and no
\* delete hits one that was not selected.
LoadedIsCurrent ==
    \A s \in Open : \A i \in DOMAIN sess[s].loaded :
        table[i] # None => table[i].text = sess[s].loaded[i].text

\* A deleted row never comes back, also when a reanalysis that began before the
\* delete writes after it.
DeletedStaysDeleted == deleted \cap Existing = {}

\* A bulk delete answers with the number of rows it loaded. All of them are gone
\* by then, although others may have deleted, or be about to write, some.
CountedIsGone ==
    [][\A s \in Sessions : CommitDelete(s) =>
          \A i \in DOMAIN sess[s].loaded : table'[i] = None]_svars

\* The row an ingest or a reanalysis answers with is the message it was about,
\* unless a reset fell between its commit and its refresh.
AnswerIsOwn ==
    \A s \in Sessions :
        sess[s].pc = "refresh" /\ ~sess[s].reset /\ table[sess[s].id] # None
          => table[sess[s].id].text = sess[s].op

\* The columns of a row come from one analysis, unless two reanalyses
\* overlapped on it: only then can each have written the columns it changed.
MixedNeedsRace ==
    \A i \in Existing \ raced : \E v \in Verdicts : table[i] = Row(table[i].text, v)

\* Session s needs a row that t has written.
Waits(s, t) == Flushing(s) /\ t # s /\ locks[NextRow(s)] = t

\* Whoever is waited for waits, if at all, for a later row: the handlers cannot
\* deadlock on each other's rows.
WaitsUpward ==
    \A s, t \in Sessions :
        Waits(s, t) /\ Flushing(t) => NextRow(s) < NextRow(t)
=============================================================================

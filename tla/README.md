# mailtest in TLA+

mailtest receives test mail, analyses it for deliverability and shows the result
on a small web UI. This directory holds TLA+ models of its moving parts, TLC
configurations that check them on small instances, and TLAPS proofs of the
properties that matter most. Paths below are relative to the repository root.

## 1. The system

```
 Internet -> VPS Postfix / relay --SMTP--> bridge --POST /ingest--> api --SQL--> postgres
                    \--pipe--> scripts/postfix_pipe_ingest.py --/         ^
 browser -> Caddy (X-Forwarded-For) --HTTP------------------------> api   | TRUNCATE + seed
                                                 seeder (seed_and_reset.py)
 home-watchdog (systemd timer) --curl /health--> api, tunnel
```

| component | code | state | operations | hard behaviour |
|---|---|---|---|---|
| email bridge | `bridge/bridge.py` | queue directory (a volume), one SMTP thread, one retry thread | RCPT, DATA, queue, retry pass | two threads on one directory, POST timeouts, crashes between any two file operations, retries of what was already stored |
| flood cap | `bridge/bridge.py` `_under_global_cap` | deque of accept times (memory) | accept, refuse | window edge, restart |
| ingest throttle | `api/ingest_throttle.py` | per-IP last request, day, count (memory) | check | midnight, restart, sub-second arithmetic |
| store | `api/main.py`, `api/models.py`, `api/database.py` | table `test_emails`, one session per request | ingest, reanalyse one / all / a selection, bulk delete, export, reads | sessions overlap: stale loads, row locks, commit before refresh |
| seeder | `api/seed_and_reset.py` | none of its own | truncate with identity restart, reseed, sleep to midnight | races with every session of the API |
| source backfill | `api/backfill_sources.py` | one transaction, then another | label by subject, pair complaints with reports, each dry or applied | does not read its own unflushed writes; guesses by time; runs next to ingests and deletes |
| redirect tracer | `api/redirect_trace.py` | chain of hops, deadline | one request per hop | hop limit, budgets, TLS fallback, exceptions |
| analyser | `api/analyzer.py`, `api/analyzer_core/` | none (pure, but for DNS) | parse, authenticate, check, score | alignment rules, score bounds, DNS that changes |
| demo mode, redaction | `api/demo_mode.py`, `api/redact.py` | none | write guard, size cap, redaction | - |
| pipe script | `scripts/postfix_pipe_ingest.py` | none | post capture, post report | the exit code alone decides whether Postfix retries; answers get lost |
| dev SMTP app | `smtp/app.py` | none | post and forget | errors are swallowed |
| watchdog | `ops/home-watchdog/mailtest-watchdog.sh` | two cooldown files | probe, heal, diagnose | cooldowns across one-shot runs, commands that fail, runs that are killed |
| relay, tunnel, hardening | `relay/`, `ops/` | configuration | - | - |

What makes each component correct:

- **bridge**: mail that was answered 250 is stored or in a file the retry loop
  will read until it is older than the window; a message is stored once unless
  the bridge could not know that it was, or sends it again all the same; the POSTs of a file are
  bounded in number; the queue drains.
- **flood cap**: no window holds more accepts than the cap, and a refusal has a
  cause.
- **throttle**: the cap per day and the distance between ingests hold for each
  client, one client never pays for another, and the answer tells how long to wait.
- **store and seeder**: a write or a delete hits the row that was selected, deletes
  last, an answer is about the row it was asked for, nobody waits for ever.
- **analyser**: the receiver's verdicts are kept, what is concluded locally is
  backed by what is reported, a good grade hides no failure.
- **tracer**: ends, near its budget, with a chain that accounts for itself.
- **backfill**: fills what is empty and nothing else, and a pairing goes wrong
  only where its guess must.
- **pipe script**: what Postfix takes for delivered is stored, once unless in doubt,
  and no mail is stuck for any other reason than an API that refuses it each time.
- **watchdog**: restarts and diagnoses keep their distance as far as its two files
  can be written and read, an API that is down
  comes back, and what the log claims is true.

The components meet in few places: the bridge and the browser call the API, the
API and the seeder share the table, the relay calls the bridge. `Bridge` has the
API as commits, refusals and late commits of a request; `Store` has each request as
a session of its own; `Analysis` and `RedirectTrace` are single calls whose
environment is DNS and the web; `Recovery` puts the pipe script next to the
watchdog, whose restart ends the requests the script waits for.

## 2. The modules

| module | models | checked by | proofs |
|---|---|---|---|
| `RateCap` | `_under_global_cap` | as a part of `Bridge` | `BridgeProofs` |
| `Bridge` | `bridge.py`; extends and composes `RateCap` | `MCBridge` (4 configurations) | `BridgeProofs` |
| `Delivery` | what a host that answers 250, or exit 0, promises | as a property of `Bridge` and of `Recovery` | `BridgeDeliveryProofs`, `RecoveryProofs` |
| `IngestThrottle` | `ingest_throttle.py` | `MCIngestThrottle` (2) | `IngestThrottleProofs` |
| `Store` | the writing handlers of `main.py`, `seed_and_reset.py` | `MCStore` | `StoreProofs` |
| `Analysis` | `analyzer_core` without the text | `MCAnalysis` (2) | `AnalysisProofs` |
| `RedirectTrace` | `trace_url` | `MCRedirectTrace` | `RedirectTraceProofs` |
| `Backfill` | `backfill_sources.py` next to the API | `MCBackfill` | `BackfillProofs` |
| `Watchdog` | `mailtest-watchdog.sh` | as a part of `Recovery` | `RecoveryProofs` |
| `PipeIngest` | `postfix_pipe_ingest.py` and what Postfix makes of its exit code | as a part of `Recovery` | `RecoveryProofs` |
| `Recovery` | the two together; implements `Delivery` | `MCRecovery` | `RecoveryProofs` |

Definitions marked `Slip` are plausible mistakes in the code. Each stands before
the definition it is a slip of; put in that one's place, it makes TLC find a
property violated, which shows that the property depends on the code being right.
No specification uses one.

### Bridge, RateCap, Delivery

- `smtp` is `handle_DATA` by its program counter: *capture* and *arf* are the two
  POSTs, *tmp* and *rename* the two steps of `_queue_payload`, *reply* the 250 on
  its way. `handle_DATA` never awaits, so one value is enough: aiosmtpd's event
  loop is blocked meanwhile.
- `retry` is the main thread: the pass's `now`, the paths `glob` returned and
  the file in hand.
- `queue` is `QUEUE_DIR`. A file is *tmp*, *json*, or *torn* while its text is
  incomplete, which `write_text` in `_process_retry_queue` makes it.
- `req`, `rows`, `late` are the API: a request in progress, the commits of each
  payload, and requests that go on after their client's timeout.
- `tx` is what the sender was told: a 451, a lost reply or a crash leaves the
  message with the sender, who tries again.
- `Crash` stands for every end of the process: what was in memory is gone, files
  and requests under way stay. `QueueFailed` is a disk error in `_queue_payload`;
  `ReadFailed` a read error in the retry pass, which deletes the file as an invalid
  one; `UnlinkFailed` an unlink that raises after a successful POST, which counts as
  a failed attempt. Each of these, and a lost reply, is one of `faults`.
- `doubted`, `expired`, `shredded`, `posts` and `accepts` are history: no guard reads
  them.
- `RateCap` keeps the deque and, for the properties, all accepts of the process.
  `Bridge` uses its `Admit`, `Refuse`, `CapTick` and `Restart` as conjuncts. Its
  bounds are per process: a restart forgets the accepts, in the code and here.
- `Delivery` knows only promises ("acked", "bounced") and custody ("queued",
  "stored", "dropped"). `ImplementsDelivery` is the refinement, with `Promise` and
  `Custody` computed from `tx`, `queue`, `rows` and the histories.

### IngestThrottle

A request takes two steps, because `enforce_ingest_throttle` reads the clock
twice: `Arrive` reads `now`, and the step under the lock reads the day again
and decides. `_lock` covers no await, so those steps are atomic. `Hz` ticks make
a second, so that an interval has fractions as the code's floats do; a day is
`DayLength` ticks. `RefuseDaily` and `RefuseSoon` keep the day that was rolled
over, as the code does on the object it mutates. The clock is taken to be at
least one interval past the epoch and not to step back.

### Store

`Insert` is `ingest_email` up to its commit, `Refresh` the transaction that reads
the answer. `Reanalyse` loads rows and analyses them; `FlushRow` sends one
statement, in primary key order, and takes the row's lock; `CommitReanalysis`
writes, of each row, the columns whose new value differs from the loaded one
(that is what SQLAlchemy sends). `Delete` is the same with DELETE statements.
An UPDATE that meets no row raises (`FlushStale`), a DELETE that meets none is a
warning (`FlushGone`), and `bulk_delete_tests` counts the row all the same. `Reset` is the seeder's transaction: TRUNCATE waits for
every open transaction on the table, and they for it, so it is one step at a
moment when none is open. The analysis of a row is two columns, enough to tell
a mixture from a whole one. Sessions, flushing and locks come from SQLAlchemy and
PostgreSQL and are modelled from how `main.py` uses them.

### Analysis

One action per stage of `analyze_message` that decides something. Each DNS lookup
may return anything, so `CheckSpf`, `CheckInfrastructure`, `CheckDkim`, `Details` and
`AuthChecks` are nondeterministic. A message is the set of facts the stages read:
header verdicts, From, the sources of the envelope sender, the top hop, the
signatures, and what the receiver said of the DMARC record. `Stamped` is what an
ingest adds, and `Envelope` the ladder from the captured sender down to the From
header. `Details` verifies the signatures a second time (`shown`), with DNS free
to answer differently, and looks for the DMARC record up the domains of the From
header and then of the one the receiver named (`record`). Where the DKIM library
cannot be imported (`dkimpy` is false), both rounds fail every signature, a
receiver's pass or not. `Impact` has the points
of every check, and `lacks` the checks that did not pass.

### RedirectTrace

The loop of `trace_url`: *top* is the deadline and the lookup, *request* and
*insecure* the two attempts of a hop. Sites are arbitrary. `Raises` is an
address that makes the standard library raise a `ValueError`, which no handler
names: the caller gets no chain.

### Backfill

`rows` is everything ever ingested and `source` the committed column. `run` is the
command: `todo` what a query returned, `picks` the labels that are assigned but not
flushed, which no later query sees (the session has autoflush off), `mine` what is
flushed but not committed, which its own queries see and which nobody else can
delete. Whether it commits is `--apply`, whether it pairs `--pair-complaints`.
`MailRow` knows of each report which capture it belongs to; the command does not,
and guesses by time. `done` keeps what was paired. The nightly reset is left out:
TRUNCATE waits for the command's transaction, and between its two transactions
the command holds no row. A mail of the pipe during an upgrade can have an
unlabelled capture and a labelled report, so `IngestReport` may follow any capture.
The legacy tables are those that ingests can leave (`Plausible`): times go up with the
ids, and a report has an earlier capture, which has no other report.

### Watchdog, PipeIngest, Recovery

`Watchdog` is one run of the script after another by program counter, every
command of it an action. The two files are modelled by the age of the time in
them, which stops growing at the cooldown: a missing, an empty and an old file make
the script do the same. `nowAge` is the age of the variable `now`, so that a slow
restart is a restart that is noted with an old time. `troubles` counts outages,
probes that a working API answers too late, a failed `cd`, and runs cut short.
`docker compose` may fail at any time at no cost, and so may the reading and the
writing of the two files: the script takes a time it cannot read for long past
(`DecideHealUnread`, `DecideDiagUnread`), and goes on after an `echo` that failed, which
leaves the old time or an empty file (`NoteHealFails`, `NoteDiagFails`). The wall clock
does not step back. `sinceHeal`, `sinceDiag`, `unwritten`, `unsaved` and `fell` are
history.

`PipeIngest` has one script per message by the POST it is at. An answer above 399
and every error of the connection is a failure; when the answer is lost, or the
script killed, the request may be stored or still be (`late`), which is noted in
`doubted`. The exit code is all Postfix learns, and `Reactions` is what its
configuration makes of a failure: keep the mail or bounce it.

`Recovery` instantiates `PipeIngest` with `Online`, the API up and the tunnel too. The
watchdog's `docker compose kill` is one step with `Broken`, which ends every
request in progress; an API that hangs behind a stale proxy (`ApiGone`) may end
them or not. This way implements `Delivery` too (`PipeImplementsDelivery`): exit 0 is
the 250, and custody is the table alone, as the script has no queue.

## 3. The runs

| run | configuration | shows |
|---|---|---|
| bridge | 1 message of any of three envelopes, 2 file names, cap 1, 1 fault | `AckedIsHeld`, `DuplicateNeedsDoubt`, `PostsBounded`, `ReportFollowsCapture`, `RemovalJustified`; the contract (`ImplementsDelivery`); the flood cap (`WindowCap`, `RefusalJustified`) |
| live | 1 message, 1 fault, fairness | `QueueDrains`, `SendersSettle` |
| complaint | a complaint, no fault | **violated**: `ComplaintMakesTwoRows` |
| torn | 1 message, 1 fault | **violated**: `DroppedOnlyAfterWindow` |
| throttle | 1 client, cap 2, 2 s, half-second ticks, two midnights, 1 restart | `DailyCapKept`, `SpacingKept`, `RefusalsFair`, `RetryHintNearly` |
| hint | the same without restart | **violated**: `RetryHintSuffices` |
| store | 2 sessions, 2 ids, 2 mails, 1 seed | `LoadedIsCurrent`, `DeletedStaysDeleted`, `CountedIsGone`, `AnswerIsOwn`, `MixedNeedsRace`, `WaitsUpward` |
| analysis | some 500 messages, 5 envelope senders, every DNS outcome | `ReceiverVerdictKept`, `PassNotContradicted`, `LocalPassIsAligned`, `GradeAIsClean` |
| alignment | a message with two signatures | **violated**: `AlignedIdentifierPassed` |
| trace | 2 web addresses and 1 other, 3 hops | `ChainAccounts`, `UnverifiedIsFlagged`, `OverrunIsOneHop`, `TraceEnds` |
| backfill | every legacy table of up to 4 rows, 2 runs of any mode, 1 delete | `WrongNeedsCause`, `MissNeedsCause`, `FillsOnly` |
| recovery | 1 complaint, cooldowns of 2, 2 troubles, 1 fault, fairness | `DeliveredIsStored`, `TwiceNeedsDoubt`, `DiagnosisTrue`, `HealsSpaced`, `DiagsSpaced`, `ApiComesBack`, `MailSettles`, `PipeImplementsDelivery` |

### What the violated runs show

- **complaint**. When either POST of a complaint fails, the `except` branch queues
  the capture alone (`bridge.py:253`). If it was the report that failed, the
  capture is stored twice and the report never; `ops/production-mx/README.md:184`
  promises one of each.
- **torn**. `_queue_payload` writes a temporary file and renames it, but a
  failed retry is written back in place (`bridge.py:315`). A process killed in
  between leaves text that is not JSON, and the next pass unlinks it: mail that
  was acknowledged is lost long before the announced window. An error in reading a
  file that is intact has the same end (`bridge.py:289-293`); the property does not
  count it, so that the run shows the loss no disk error is needed for.
- **hint**. "Please wait 59s" is the integer part of 59.5 s: a client that waits
  exactly that long is refused again (`ingest_throttle.py:90`). It is never more
  than a second, which `RetryHintNearly` checks.
- **alignment**. `dkim_aligned` holds when some signature verified and some
  signature is of the From domain (`auth.py:622`, and `auth.py:338` for the
  local DMARC verdict). With an ESP's signature that verifies and the brand's that
  does not, no aligned identifier passed, and the page says that one did.

### Bounds, and why they are enough

- *Time in the bridge*. Only differences between the clock and a kept stamp are
  ever compared, so `MCBridge` lets the clock tick only while a visible file is not
  yet older than the retry window or a deque entry not yet out of the rate
  window. Afterwards another tick changes no guard. Window and interval of one
  unit still have all the cases: too young, due, at the edge, too old.
- *File names*. A message has a file per failed POST; with one fault there are
  at most two files at once for one message, and `WriteTmp` waits when there is no
  free name (the code draws a fresh uuid, and never waits).
- *Faults*. One fault is enough to separate every crash point; two are covered
  by the proofs, which have no bound on faults.
- *One message* in the runs of the bridge: two only compete for the SMTP thread and
  the cap, and with a cap of one a message that is offered again competes with
  its own first accept. Two messages and a fault make more than 20 million
  states; the proofs are for any number of messages. The liveness run has a cap
  window of zero: it asks whether the threads progress, and a wait for the cap is
  a wait for the clock.
- *Throttle*. `DayLength = 9` with an interval of 4 ticks lets the cap of two be
  reached within a day; the clock passes two midnights. Clients share nothing but
  the order of requests, so one is checked; the proofs are for any number.
- *Store*. Two sessions are enough for every pair of requests to interleave with a
  reset; two ids for a selection of more than one row, and for an id to be used
  again after a reset. Sessions and mails are symmetric (no liveness is checked
  there).
- *Analysis* takes all combinations of the verdicts and domains its guards tell
  apart. *Trace*: two addresses can redirect to each other, to themselves and
  away; three hops have a first, an inner and a last.

- *Backfill*. Four rows are two complaints that overlap (two captures, then two
  reports), or one with a row in between; a window of one unit and a clock of two
  have captures inside, at the edge of and outside the window. Two runs let one
  run meet the labels of another.
- *Recovery*. A cooldown of two has an age before, at and past its limit, two
  troubles are an outage and a killed run, or a slow probe, on top of each other. A
  killed run between the restart and its note (`unwritten`) needs two of them, and a
  second outage after one that was healed is within the cooldown.

`MCAnalysis`, `MCRedirectTrace` and `MCBackfill` switch the deadlock check off: one
analysis and one trace end, and the bounds on rows, time, runs and deletes let the
command come to rest. All other systems run for ever.

### Fairness

- `SmtpStep`, `RetryStep`: weak fairness of each thread. Every wait in them is a POST
  with a timeout, which ends in `GiveUp` whatever the API does. Nothing is asked
  of the API: `ApiCommit` and `ApiRefuse` may never happen.
- `Rcpt`, `Data`: weak fairness of the relay, a Postfix that goes on offering what
  it holds after 451 or a lost connection. The models put no end to its patience.
- The clock ticks (while a stamp is pending). Without it a queued file would
  neither become due nor expire.
- `RedirectTrace`: the thread of the request goes on. A lookup and a request end;
  `MaxLookup` and `MaxRequest` bound them.
- `Recovery`: weak fairness of the timer (`Fire`), of the script (`Watch`: each of its
  commands has a timeout or ends), of time, of Postfix and its script (`Deliver`), and
  of a request that was sent (`Serve`: it ends by an answer or its timeout); the
  tunnel's service restarts itself. Strong fairness of `Up` alone: a restart that is
  tried again and again works some time. This is asked of the world, not of the
  code (`docker compose` has not even a timeout in the script); what the code must do is
  try again, and `ApiComesBack` fails when it does not. Nothing is asked of the API's
  answers: it may refuse a mail every time, as it does with one over the size limit
  (`main.py:287`), and `MailSettles` then says that each of Postfix's attempts gets as
  far as the API. Troubles and lost answers are finitely many; refusals, failed
  restarts and file errors are not.

## 4. The proofs

TLAPS checks the theorems for every value of the constants that satisfies the
modules' assumptions (which say little more than that numbers are naturals and
`None` is none of the values).

- **Flood cap** (`BridgeProofs`): `CapInv` adds to `WindowCap` that the deque is
  the tail of all accepts that is not older than the window (`DequeIsTail`).
  `WindowCap` alone is not inductive: `Admit` sees the deque, not the accepts. The
  bridge's steps are the cap's or leave it alone (`BridgeIsCap`), so its bounds hold in
  the bridge (`BridgeHoldsCap`).
- **Custody** (`BridgeProofs`): `AckedIsHeld` follows from `CustodyInv`, which adds
  what each thread knows at each step: that the file the SMTP thread is about to
  rename holds its message (`SmtpKnows`), that paths a pass still has to visit
  exist, since only that thread removes files (`RetryKnows`), and that a torn file is
  one it is rewriting or the work of a crash (`TornKnown`).
- **Retries** (`BridgeProofs`): `SpacingInv` says that the recorded last attempt of a
  file is at least (attempts - 1) intervals after its creation and that the `now` of
  the pass is not in the future; the guard of `RetryPost` then bounds the recorded
  attempts by the window. `CountInv` says that the POSTs really sent are the recorded
  ones, the one in hand, and at most one more per fault, as a crash leaves an attempt
  unrecorded; `PostsAreBounded` is the two together. How far apart two POSTs are is not
  bounded: a slow pass records what it sends late with the time it began.
  `RemovalsAreJustified` is an action property from `CustodyInv` and
  `SpacingInv`: an expiry decided on a stale `now` is still an expiry, and the one
  other cause is a read error.
  `BannerHoldsWithoutFault` is the other side of the violated run *torn*: as long as
  there was no fault, the only torn file is the one being written back, and no step
  removes that one.
- **Refinement**: `BridgeImplementsDelivery`: initial states map to initial states,
  and every step, crashes included, is a step or a stutter of the abstract
  specification.
- **Duplicates** (`BridgeDeliveryProofs`): `OnceInv` says that a message on which no
  doubt was cast has one home at a time: the sender, the SMTP thread, one file, or
  the database, and two of them only between a retried POST and the unlink. The doubts
  are the POSTs whose end the bridge cannot know, and two cases in which it knows and
  sends again: a failed report, a failed unlink.
  `ReportInv` says of a report under way, sent or late, that its capture is stored.
- **Throttle** (`IngestThrottleProofs`): `Backed` ties the counters of a client to its
  accepts: the last `count` accepts are of this process and of the counter's day,
  earlier ones of an earlier day, and `last` is the time of the last. `ThrottleInv`
  adds that no state is from a day to come. The daily cap, the spacing and the
  causes of refusals follow. `HintInv` adds that a hint is about the latest accept;
  `HintCovers` is the arithmetic of the integer division.
- **Store** (`StoreProofs`): `SInv`. Sessions that flush have loaded rows of the past and
  locks are theirs (`Held`), what is written lies below what is still to be written
  (`Upward`), what a delete is done with is locked by it or gone (`DeletesDone`),
  what nobody else wrote is as it was loaded (`LoadedUnlessRaced`), and the row an
  answer is read from has been there (`Answers`). No property but `WaitsUpward`
  is inductive without these.
- **Analyser** (`AnalysisProofs`): `AInv` says per stage what is known of verdicts,
  of the alignment behind a pass and of the record, for every set of messages,
  domains and answers of DNS. The score is a sum over the set of failed checks, a
  recursive function whose existence must be proved first: `SumsExist` takes the
  least size at which it failed, and `SumOfPoints` then gives, for two different
  checks of a set, that their points together are no more than the set's.
  `GradeInv` says at each stage which checks are missing for which verdict, so
  that a grade of A, at most 10 points lost, leaves room for one warning only.
  `AlignmentClaimHolds` is the other side of the violated run *alignment*: the
  page's claim is true when all signatures are of the From domain, or none is.
- **Backfill** (`BackfillProofs`): `BInv`. The table stays plausible (`TableInv`), what a
  run is about to write is empty, its picks have their reasons (`RunInv`), and so have
  the pairings it committed (`DoneInv`). `HasCause` is stable under every step
  (`CauseStays`, from `Grows`: rows stay, deletes last, labels last).
  `WrongNeedsCause` alone is not inductive: it says nothing of the picks a run has not
  flushed. That the query's order finds the capture, or something later, is
  `PickHasCause`, which needs the order of the table. Assumed is only that the legacy
  tables are plausible.
- **Tracer** (`RedirectTraceProofs`): `OverrunInv` has what is left of the overrun
  at each stage of a hop; `ChainInv` says that while a trace goes on, all its
  hops redirect and the last leads to the current address; `FlagInv` that the hops
  without a verified certificate are the ones of the history.
- **Recovery** (`RecoveryProofs`): the watchdog and the script have an invariant each,
  and every step of the composition is a step of each or leaves it alone.
  `HealInv` says that the file and the true age agree but for a restart the file does
  not tell of (`unwritten`), `DiagInv` that the file is never older than the diagnosis it
  stands for, with the same exception (`unsaved`), and that a time about to be noted
  is not either.
  `CaptureFirst` and `Undoubted` say what is stored, sent and late at each
  point of the script. `PipeIsDelivery` is the refinement of `Delivery`: a script that
  ends is an ack, a bounce or a stutter, a commit of a capture a store, and
  `CaptureFirst` is what makes the ack legal.

Type invariants are proved where a proof needs them (`TypeCorrect`,
`ThrottleTypeCorrect`, `TraceTypeCorrect`, `StoreTypeCorrect`, `RecoveryTypeCorrect`,
`AnalysisTypeCorrect`, which has the bounds of the score, and `BackfillTypeCorrect`).

Model-checked only: liveness (`QueueDrains`, `SendersSettle`, `TraceEnds`,
`ApiComesBack`, `MailSettles`), which is beyond the prover, and, being false, the
properties of the four violated runs. Every other property of a run is a theorem.

## 5. What is not modelled

- Text: headers, MIME, regular expressions, reports, redaction, templates. The
  models take from a message what the code branches on.
- Reading handlers, demo mode and redaction: guards and rewriting without state.
- The seeder's daemon loop: `Reset` may happen at any time, which includes 00:01.
- What is refused after the throttle let it in (`main.py` checks size and checksum
  later): it counts against the quota, and nothing says whether it should.
- Hands other than the bridge's in the queue directory. An exception in the main
  thread that is not caught is a `Crash`.
- The clocks: `time.time()` and `time.monotonic()` advance together and never step
  back; nor does the `date` of the watchdog.
- Ids a page of the browser holds across the nightly reset: `LoadedIsCurrent` is about
  ids held inside a transaction.
- `smtp/app.py`, the development server: one POST whose error is dropped.
- Configuration of Postfix, Caddy, SSH and Docker.

## 6. Plan

Done, the most important behaviour first: the bridge with its cap, its contract and
its proofs; the throttle; the store with the seeder; the analyser; the tracer; the
backfill; the watchdog and the pipe script, alone and together; proofs of every
safety property of these.

Left:

1. A composition of `IngestThrottle` with the ingest of `Store`: what an accept that
   fails validation costs a client.
2. The bridge next to the watchdog, as the pipe script is in `Recovery`.

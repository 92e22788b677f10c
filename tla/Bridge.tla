------------------------------- MODULE Bridge -------------------------------
(***************************************************************************)
(* The email bridge (bridge/bridge.py): an SMTP thread that takes mail and *)
(* POSTs it to the API, and the main thread that retries what could not be *)
(* posted from a directory of JSON files. The directory is a volume and    *)
(* survives the process; everything else in the bridge does not.           *)
(*                                                                         *)
(* Each .json or .tmp file is an entry of queue; the sender (the Postfix   *)
(* relay) and the API's commits are environment actions.                   *)
(***************************************************************************)
EXTENDS RateCap

CONSTANTS Messages,        \* mail the relay has for the bridge
          Envelopes,       \* recipient sets a sender may ask for
          ItemIds,         \* uuid4 file names
          RetryInterval,   \* RETRY_INTERVAL_SECONDS
          MaxRetryWindow,  \* MAX_RETRY_WINDOW_SECONDS
          MaxFaults,       \* bound on crashes, lost replies and file errors
          None

\* handle_RCPT: check@, demo@ and complaint@ are taken; bounce@ and the rest
\* are answered 550.
Allowed == {"check", "demo", "complaint"}

Threads == {"smtp", "retry"}
Kinds == {"capture", "arf"}
Payloads == Messages \X Kinds

\* A queue file: "tmp" before the rename, "json" once the retry loop can read
\* it, "torn" while its text is incomplete. The other fields are its content.
Item == [file : {"tmp", "json", "torn"}, msg : Messages,
         created : Nat, last : Nat, attempts : Nat]

ASSUME BridgeAssumption ==
    /\ RetryInterval \in Nat
    /\ MaxRetryWindow \in Nat
    /\ MaxFaults \in Nat
    /\ None \notin Messages
    /\ None \notin ItemIds
    /\ None \notin Item

VARIABLES tx,        \* the sender's view of each message
          rcpts,     \* recipients the bridge accepted for it
          smtp,      \* the SMTP thread: pc, the message and the file it writes
          retry,     \* the main thread: pc, the pass's now, paths left, path
          req,       \* per thread, its POST /ingest in progress
          queue,     \* QUEUE_DIR
          rows,      \* API: commits of each payload
          late,      \* API: requests whose client has given up
          faults,    \* history: crashes, lost replies and file errors
          expired,   \* history: messages a file of which was dropped as old
          shredded,  \* history: messages a file of which was dropped as invalid
          doubted,   \* history: messages that may be POSTed again after a POST
                     \* that may have stored them, or did
          posts      \* history: POSTs of the message in a file, the first included

apivars == <<rows, late>>
history == <<expired, shredded, doubted, posts>>
vars == <<capvars, tx, rcpts, smtp, retry, req, queue, apivars, faults, history>>

IdleSmtp == [pc |-> "idle", msg |-> None, id |-> None]
AsleepRetry == [pc |-> "sleep", now |-> 0, todo |-> {}, id |-> None]

Files == {id \in ItemIds : queue[id] # None}
Visible == {id \in Files : queue[id].file # "tmp"}

\* What thread t is posting.
Posted(t) == IF t = "smtp" THEN <<smtp.msg, smtp.pc>>
                           ELSE <<queue[retry.id].msg, "capture">>

Init ==
    /\ CapInit
    /\ tx = [m \in Messages |-> "new"]
    /\ rcpts = [m \in Messages |-> {}]
    /\ smtp = IdleSmtp
    /\ retry = AsleepRetry
    /\ req = [t \in Threads |-> "none"]
    /\ queue = [id \in ItemIds |-> None]
    /\ rows = [p \in Payloads |-> 0]
    /\ late = [p \in Payloads |-> 0]
    /\ faults = 0
    /\ expired = {}
    /\ shredded = {}
    /\ doubted = {}
    /\ posts = [id \in ItemIds |-> 0]

\* A step that goes wrong. Nothing else bounds the number of these.
Fault == faults < MaxFaults /\ faults' = faults + 1

(***************************************************************************)
(* The SMTP thread. handle_DATA never awaits, so a call blocks the event   *)
(* loop: no other command is answered until it returns.                    *)
(***************************************************************************)

\* The RCPT commands of one envelope. The sender bounces what got 550 and goes
\* on with the rest; without an accepted recipient there is no DATA.
Rcpt(m) ==
    /\ smtp.pc = "idle"
    /\ tx[m] = "new"
    /\ \E to \in Envelopes :
          /\ rcpts' = [rcpts EXCEPT ![m] = to \cap Allowed]
          /\ tx' = [tx EXCEPT ![m] = IF to \cap Allowed = {} THEN "bounced" ELSE "open"]
    /\ UNCHANGED <<capvars, smtp, retry, req, queue, apivars, faults, history>>

\* handle_DATA under the cap: the capture is posted.
Data(m) ==
    /\ smtp.pc = "idle"
    /\ tx[m] = "open"
    /\ Admit
    /\ tx' = [tx EXCEPT ![m] = "data"]
    /\ smtp' = [pc |-> "capture", msg |-> m, id |-> None]
    /\ req' = [req EXCEPT !["smtp"] = "sent"]
    /\ UNCHANGED <<rcpts, retry, queue, apivars, faults, history>>

\* handle_DATA over the cap: 451, and the sender keeps the message.
Defer(m) ==
    /\ smtp.pc = "idle"
    /\ tx[m] = "open"
    /\ Refuse
    /\ UNCHANGED <<tx, rcpts, smtp, retry, req, queue, apivars, faults, history>>

\* Slip: every capture gets a report.
CaptureOkReported ==
    /\ smtp.pc = "capture"
    /\ req["smtp"] = "committed"
    /\ smtp' = [smtp EXCEPT !.pc = "arf"]
    /\ req' = [req EXCEPT !["smtp"] = "sent"]
    /\ UNCHANGED <<capvars, tx, rcpts, retry, queue, apivars, faults, history>>

\* The capture was stored; a complaint has its feedback report posted next.
CaptureOk ==
    /\ smtp.pc = "capture"
    /\ req["smtp"] = "committed"
    /\ IF "complaint" \in rcpts[smtp.msg]
         THEN /\ smtp' = [smtp EXCEPT !.pc = "arf"]
              /\ req' = [req EXCEPT !["smtp"] = "sent"]
         ELSE /\ smtp' = [smtp EXCEPT !.pc = "reply"]
              /\ req' = [req EXCEPT !["smtp"] = "none"]
    /\ UNCHANGED <<capvars, tx, rcpts, retry, queue, apivars, faults, history>>

ArfOk ==
    /\ smtp.pc = "arf"
    /\ req["smtp"] = "committed"
    /\ smtp' = [smtp EXCEPT !.pc = "reply"]
    /\ req' = [req EXCEPT !["smtp"] = "none"]
    /\ UNCHANGED <<capvars, tx, rcpts, retry, queue, apivars, faults, history>>

\* Thread t gives up on its POST: an error answer, a lost answer or the 30 s
\* timeout, after which the API may still commit the request.
GiveUp(t) ==
    /\ req[t] # "none"
    /\ req' = [req EXCEPT ![t] = "none"]
    /\ late' = IF req[t] = "sent" THEN [late EXCEPT ![Posted(t)] = @ + 1] ELSE late
    /\ doubted' = IF req[t] # "refused" \/ Posted(t)[2] = "arf"
                    THEN doubted \cup {Posted(t)[1]} ELSE doubted
    /\ UNCHANGED <<rows, expired, shredded, posts>>

\* Either POST of handle_DATA raised: the capture is queued, also when it was
\* the report that failed.
PostFailed ==
    /\ smtp.pc \in Kinds
    /\ GiveUp("smtp")
    /\ smtp' = [smtp EXCEPT !.pc = "tmp"]
    /\ UNCHANGED <<capvars, tx, rcpts, retry, queue, faults>>

\* Slip: the temporary file has one fixed name and must not exist.
WriteTmpExclusive ==
    /\ smtp.pc = "tmp"
    /\ Files = Visible
    /\ \E id \in ItemIds \ Files :
          /\ queue' = [queue EXCEPT ![id] =
                [file |-> "tmp", msg |-> smtp.msg, created |-> clock,
                 last |-> clock, attempts |-> 1]]
          /\ smtp' = [smtp EXCEPT !.pc = "rename", !.id = id]
          /\ posts' = [posts EXCEPT ![id] = 1]
    /\ UNCHANGED <<capvars, tx, rcpts, retry, req, apivars, faults, expired, shredded, doubted>>

\* _queue_payload writes <id>.tmp ...
WriteTmp ==
    /\ smtp.pc = "tmp"
    /\ \E id \in ItemIds \ Files :
          /\ queue' = [queue EXCEPT ![id] =
                [file |-> "tmp", msg |-> smtp.msg, created |-> clock,
                 last |-> clock, attempts |-> 1]]
          /\ smtp' = [smtp EXCEPT !.pc = "rename", !.id = id]
          /\ posts' = [posts EXCEPT ![id] = 1]
    /\ UNCHANGED <<capvars, tx, rcpts, retry, req, apivars, faults, expired, shredded, doubted>>

\* Slip: the rename is forgotten.
RenameForgotten ==
    /\ smtp.pc = "rename"
    /\ smtp' = [smtp EXCEPT !.pc = "reply", !.id = None]
    /\ UNCHANGED <<capvars, tx, rcpts, retry, req, queue, apivars, faults, history>>

\* ... and renames it to <id>.json.
Rename ==
    /\ smtp.pc = "rename"
    /\ queue' = [queue EXCEPT ![smtp.id].file = "json"]
    /\ smtp' = [smtp EXCEPT !.pc = "reply", !.id = None]
    /\ UNCHANGED <<capvars, tx, rcpts, retry, req, apivars, faults, history>>

\* The 250 reaches the sender.
Reply ==
    /\ smtp.pc = "reply"
    /\ tx' = [tx EXCEPT ![smtp.msg] = "acked"]
    /\ smtp' = IdleSmtp
    /\ UNCHANGED <<capvars, rcpts, retry, req, queue, apivars, faults, history>>

(***************************************************************************)
(* The main thread: _process_retry_queue, over and over.                   *)
(***************************************************************************)

\* The pass reads the clock once, before it lists the directory.
StartPass ==
    /\ retry.pc = "sleep"
    /\ retry' = [retry EXCEPT !.pc = "glob", !.now = clock]
    /\ UNCHANGED <<capvars, tx, rcpts, smtp, req, queue, apivars, faults, history>>

Glob ==
    /\ retry.pc = "glob"
    /\ retry' = [retry EXCEPT !.pc = "scan", !.todo = Visible]
    /\ UNCHANGED <<capvars, tx, rcpts, smtp, req, queue, apivars, faults, history>>

\* uuid4 names sort in no particular order, so any path may be next.
Scanning(id) == retry.pc = "scan" /\ id \in retry.todo

Age(id) == retry.now - queue[id].created

\* json.loads raised: the file is removed, with the message in it.
DropInvalid(id) ==
    /\ Scanning(id)
    /\ queue[id].file = "torn"
    /\ shredded' = shredded \cup {queue[id].msg}
    /\ queue' = [queue EXCEPT ![id] = None]
    /\ retry' = [retry EXCEPT !.todo = @ \ {id}]
    /\ UNCHANGED <<capvars, tx, rcpts, smtp, req, apivars, faults, expired, doubted, posts>>

\* read_text raised (an I/O error, no file descriptor left): an intact file goes
\* the same way.
ReadFailed(id) ==
    /\ Scanning(id)
    /\ Fault
    /\ shredded' = shredded \cup {queue[id].msg}
    /\ queue' = [queue EXCEPT ![id] = None]
    /\ retry' = [retry EXCEPT !.todo = @ \ {id}]
    /\ UNCHANGED <<capvars, tx, rcpts, smtp, req, apivars, expired, doubted, posts>>

\* Slip: an item exactly as old as the window is dropped.
DropExpiredAtEdge(id) ==
    /\ Scanning(id)
    /\ queue[id].file = "json"
    /\ Age(id) >= MaxRetryWindow
    /\ expired' = expired \cup {queue[id].msg}
    /\ queue' = [queue EXCEPT ![id] = None]
    /\ retry' = [retry EXCEPT !.todo = @ \ {id}]
    /\ UNCHANGED <<capvars, tx, rcpts, smtp, req, apivars, faults, shredded, doubted, posts>>

DropExpired(id) ==
    /\ Scanning(id)
    /\ queue[id].file = "json"
    /\ Age(id) > MaxRetryWindow
    /\ expired' = expired \cup {queue[id].msg}
    /\ queue' = [queue EXCEPT ![id] = None]
    /\ retry' = [retry EXCEPT !.todo = @ \ {id}]
    /\ UNCHANGED <<capvars, tx, rcpts, smtp, req, apivars, faults, shredded, doubted, posts>>

\* Slip: a pass waits for a recent item in place of leaving it for the next.
SkipRecentStuck(id) ==
    /\ Scanning(id)
    /\ queue[id].file = "json"
    /\ Age(id) <= MaxRetryWindow
    /\ retry.now - queue[id].last < RetryInterval
    /\ UNCHANGED vars

SkipRecent(id) ==
    /\ Scanning(id)
    /\ queue[id].file = "json"
    /\ Age(id) <= MaxRetryWindow
    /\ retry.now - queue[id].last < RetryInterval
    /\ retry' = [retry EXCEPT !.todo = @ \ {id}]
    /\ UNCHANGED <<capvars, tx, rcpts, smtp, req, queue, apivars, faults, history>>

RetryPost(id) ==
    /\ Scanning(id)
    /\ queue[id].file = "json"
    /\ Age(id) <= MaxRetryWindow
    /\ retry.now - queue[id].last >= RetryInterval
    /\ req' = [req EXCEPT !["retry"] = "sent"]
    /\ retry' = [retry EXCEPT !.pc = "posting", !.todo = @ \ {id}, !.id = id]
    /\ posts' = [posts EXCEPT ![id] = @ + 1]
    /\ UNCHANGED <<capvars, tx, rcpts, smtp, queue, apivars, faults, expired, shredded, doubted>>

RetryOk ==
    /\ retry.pc = "posting"
    /\ req["retry"] = "committed"
    /\ req' = [req EXCEPT !["retry"] = "none"]
    /\ retry' = [retry EXCEPT !.pc = "unlink"]
    /\ UNCHANGED <<capvars, tx, rcpts, smtp, queue, apivars, faults, history>>

\* Slip: a delivered item keeps its file.
UnlinkForgotten ==
    /\ retry.pc = "unlink"
    /\ retry' = [retry EXCEPT !.pc = "scan", !.id = None]
    /\ UNCHANGED <<capvars, tx, rcpts, smtp, req, queue, apivars, faults, history>>

Unlink ==
    /\ retry.pc = "unlink"
    /\ queue' = [queue EXCEPT ![retry.id] = None]
    /\ retry' = [retry EXCEPT !.pc = "scan", !.id = None]
    /\ UNCHANGED <<capvars, tx, rcpts, smtp, req, apivars, faults, history>>

\* The failed item is written back in place: write_text first empties the file
\* (its content is then only in the thread's memory) ...
RetryFailed ==
    /\ retry.pc = "posting"
    /\ GiveUp("retry")
    /\ queue' = [queue EXCEPT ![retry.id].file = "torn"]
    /\ retry' = [retry EXCEPT !.pc = "rewrite"]
    /\ UNCHANGED <<capvars, tx, rcpts, smtp, faults>>

\* unlink raised, inside the try of the POST: a message that is stored is written
\* back like one that failed.
UnlinkFailed ==
    /\ retry.pc = "unlink"
    /\ Fault
    /\ queue' = [queue EXCEPT ![retry.id].file = "torn"]
    /\ retry' = [retry EXCEPT !.pc = "rewrite"]
    /\ doubted' = doubted \cup {queue[retry.id].msg}
    /\ UNCHANGED <<capvars, tx, rcpts, smtp, req, apivars, expired, shredded, posts>>

\* Slip: the time of the attempt is not written back.
RewriteStale ==
    /\ retry.pc = "rewrite"
    /\ queue' = [queue EXCEPT ![retry.id].file = "json",
                              ![retry.id].attempts = @ + 1]
    /\ retry' = [retry EXCEPT !.pc = "scan", !.id = None]
    /\ UNCHANGED <<capvars, tx, rcpts, smtp, req, apivars, faults, history>>

\* ... then fills it, with the pass's now as the time of the attempt.
Rewrite ==
    /\ retry.pc = "rewrite"
    /\ queue' = [queue EXCEPT ![retry.id].file = "json",
                              ![retry.id].last = retry.now,
                              ![retry.id].attempts = @ + 1]
    /\ retry' = [retry EXCEPT !.pc = "scan", !.id = None]
    /\ UNCHANGED <<capvars, tx, rcpts, smtp, req, apivars, faults, history>>

EndPass ==
    /\ retry.pc = "scan"
    /\ retry.todo = {}
    /\ retry' = AsleepRetry
    /\ UNCHANGED <<capvars, tx, rcpts, smtp, req, queue, apivars, faults, history>>

(***************************************************************************)
(* The API: it commits a request (now, or after its client gave up) or     *)
(* answers it with an error.                                               *)
(***************************************************************************)

ApiCommit(t) ==
    /\ req[t] = "sent"
    /\ req' = [req EXCEPT ![t] = "committed"]
    /\ rows' = [rows EXCEPT ![Posted(t)] = @ + 1]
    /\ UNCHANGED <<capvars, tx, rcpts, smtp, retry, queue, late, faults, history>>

ApiRefuse(t) ==
    /\ req[t] = "sent"
    /\ req' = [req EXCEPT ![t] = "refused"]
    /\ UNCHANGED <<capvars, tx, rcpts, smtp, retry, queue, apivars, faults, history>>

LateCommit(p) ==
    /\ late[p] > 0
    /\ late' = [late EXCEPT ![p] = @ - 1]
    /\ rows' = [rows EXCEPT ![p] = @ + 1]
    /\ UNCHANGED <<capvars, tx, rcpts, smtp, retry, req, queue, faults, history>>

(***************************************************************************)
(* Time and faults.                                                        *)
(***************************************************************************)

Tick ==
    /\ CapTick
    /\ UNCHANGED <<tx, rcpts, smtp, retry, req, queue, apivars, faults, history>>

\* The handler returned 250 but the connection is gone: the sender tries again.
ReplyLost ==
    /\ Fault
    /\ smtp.pc = "reply"
    /\ tx' = [tx EXCEPT ![smtp.msg] = "open"]
    /\ doubted' = doubted \cup {smtp.msg}
    /\ smtp' = IdleSmtp
    /\ UNCHANGED <<capvars, rcpts, retry, req, queue, apivars, expired, shredded, posts>>

\* Slip: the error is swallowed and 250 answered.
QueueFailedAcked ==
    /\ Fault
    /\ smtp.pc \in {"tmp", "rename"}
    /\ tx' = [tx EXCEPT ![smtp.msg] = "acked"]
    /\ smtp' = IdleSmtp
    /\ UNCHANGED <<capvars, rcpts, retry, req, queue, apivars, history>>

\* _queue_payload raised: aiosmtpd answers 500 and the sender bounces.
QueueFailed ==
    /\ Fault
    /\ smtp.pc \in {"tmp", "rename"}
    /\ tx' = [tx EXCEPT ![smtp.msg] = "bounced"]
    /\ smtp' = IdleSmtp
    /\ UNCHANGED <<capvars, rcpts, retry, req, queue, apivars, history>>

\* The process dies (a kill, or an exception in the main thread such as a full
\* disk in write_text) and is started again. Requests it had sent go on.
Crash ==
    /\ Fault
    /\ Restart
    /\ tx' = [m \in Messages |-> IF tx[m] = "data" THEN "open" ELSE tx[m]]
    /\ smtp' = IdleSmtp
    /\ retry' = AsleepRetry
    /\ req' = [t \in Threads |-> "none"]
    /\ late' = [p \in Payloads |->
                  late[p] + (IF req["smtp"] = "sent" /\ Posted("smtp") = p THEN 1 ELSE 0)
                          + (IF req["retry"] = "sent" /\ Posted("retry") = p THEN 1 ELSE 0)]
    /\ doubted' = doubted \cup {m \in Messages : \/ tx[m] = "data"
                                                 \/ /\ retry.pc \in {"posting", "unlink"}
                                                    /\ queue[retry.id].msg = m}
    /\ UNCHANGED <<rcpts, queue, rows, expired, shredded, posts>>

SmtpStep == CaptureOk \/ ArfOk \/ PostFailed \/ WriteTmp \/ Rename \/ Reply

RetryStep ==
    \/ StartPass \/ Glob \/ RetryOk \/ Unlink \/ RetryFailed \/ Rewrite \/ EndPass
    \/ \E id \in ItemIds : DropInvalid(id) \/ DropExpired(id) \/ SkipRecent(id) \/ RetryPost(id)

RetryFault == UnlinkFailed \/ \E id \in ItemIds : ReadFailed(id)

ApiStep ==
    \/ \E t \in Threads : ApiCommit(t) \/ ApiRefuse(t)
    \/ \E p \in Payloads : LateCommit(p)

Next ==
    \/ \E m \in Messages : Rcpt(m) \/ Data(m) \/ Defer(m)
    \/ SmtpStep
    \/ RetryStep
    \/ ApiStep
    \/ ReplyLost \/ QueueFailed \/ RetryFault \/ Crash
    \/ Tick

Spec == Init /\ [][Next]_vars

\* Each thread keeps running (a POST ends by its timeout at the latest), time
\* passes, and the relay goes on offering the mail it holds.
Fairness ==
    /\ WF_vars(SmtpStep)
    /\ WF_vars(RetryStep)
    /\ WF_vars(\E m \in Messages : Rcpt(m))
    /\ WF_vars(\E m \in Messages : Data(m))

(***************************************************************************)
(* Properties                                                              *)
(***************************************************************************)

\* Type invariant, with what each thread's pc says of its other fields.
TypeOK ==
    /\ CapTypeOK
    /\ tx \in [Messages -> {"new", "open", "data", "acked", "bounced"}]
    /\ rcpts \in [Messages -> SUBSET Allowed]
    /\ smtp \in [pc : {"idle", "capture", "arf", "tmp", "rename", "reply"},
                 msg : Messages \cup {None}, id : ItemIds \cup {None}]
    /\ retry \in [pc : {"sleep", "glob", "scan", "posting", "unlink", "rewrite"},
                  now : Nat, todo : SUBSET ItemIds, id : ItemIds \cup {None}]
    /\ req \in [Threads -> {"none", "sent", "committed", "refused"}]
    /\ queue \in [ItemIds -> Item \cup {None}]
    /\ rows \in [Payloads -> Nat]
    /\ late \in [Payloads -> Nat]
    /\ faults \in 0..MaxFaults
    /\ expired \subseteq Messages
    /\ shredded \subseteq Messages
    /\ doubted \subseteq Messages
    /\ posts \in [ItemIds -> Nat]

Stored(m) == rows[<<m, "capture">>] > 0
Queued(m) == \E id \in Visible : queue[id].msg = m

Held(m) ==
    \/ Stored(m)
    \/ Queued(m)
    \/ m \in expired
    \/ m \in shredded /\ faults > 0

\* A message that was answered 250 is in the database, is in a file the retry
\* loop will read, or was given up on as too old. The one other way to lose it
\* is a queue file found unreadable, and that takes a fault: a crash in the
\* middle of its rewriting, or an error in reading it.
AckedIsHeld == \A m \in Messages : tx[m] = "acked" => Held(m)

\* What the SMTP thread knows at each pc. With RetryKnows and TornKnown it
\* makes AckedIsHeld inductive.
SmtpKnows ==
    /\ smtp.pc # "idle" => smtp.msg \in Messages
    /\ req["smtp"] # "none" => smtp.pc \in Kinds
    /\ smtp.pc = "arf" => Stored(smtp.msg)
    /\ smtp.pc = "capture" /\ req["smtp"] = "committed" => Stored(smtp.msg)
    /\ smtp.pc = "rename" => /\ smtp.id \in Files
                             /\ queue[smtp.id].file = "tmp"
                             /\ queue[smtp.id].msg = smtp.msg
    /\ smtp.pc = "reply" => Held(smtp.msg)

\* What the main thread knows: the file it holds and the paths it has left are
\* still there, and only it makes a file unreadable.
RetryKnows ==
    /\ retry.pc \in {"posting", "unlink", "rewrite"} =>
          /\ retry.id \in Visible
          /\ queue[retry.id].file = IF retry.pc = "rewrite" THEN "torn" ELSE "json"
          /\ retry.id \notin retry.todo
    /\ req["retry"] # "none" => retry.pc = "posting"
    /\ retry.pc = "unlink" => Stored(queue[retry.id].msg)
    /\ req["retry"] = "committed" => Stored(queue[retry.id].msg)
    /\ retry.todo \subseteq Visible

TornKnown ==
    \A id \in Files :
        queue[id].file = "torn" => \/ retry.pc = "rewrite" /\ retry.id = id
                                  \/ faults > 0

CustodyInv == TypeOK /\ AckedIsHeld /\ SmtpKnows /\ RetryKnows /\ TornKnown

\* An intact queue file disappears only when its message is stored or older
\* than the retry window, or when the read of it failed: neither a pass that
\* decides by an old clock reading nor a restart removes another.
RemovalJustified ==
    [][\A id \in ItemIds :
         /\ id \in Files
         /\ queue[id].file = "json"
         /\ queue'[id] = None
         => \/ Stored(queue[id].msg)
            \/ clock - queue[id].created > MaxRetryWindow
            \/ faults' > faults /\ retry.pc = "scan"]_vars

\* A message is captured at most once unless a POST ended without the bridge
\* knowing whether it was stored, a 250 was lost, or the bridge knew and sends it
\* again all the same: when the report's POST failed, when the file of a stored
\* message could not be removed. What was only ever refused with 451 leaves
\* nothing behind.
DuplicateNeedsDoubt ==
    \A m \in Messages \ doubted :
        /\ rows[<<m, "capture">>] <= 1
        /\ Stored(m) /\ Queued(m) => retry.pc \in {"posting", "unlink"} /\ queue[retry.id].msg = m
        /\ tx[m] \in {"new", "open"} => ~Stored(m) /\ ~Queued(m) /\ late[<<m, "capture">>] = 0

\* No feedback report is stored, or can still be, for a message that is not.
ReportFollowsCapture ==
    \A m \in Messages :
        rows[<<m, "arf">>] + late[<<m, "arf">>] > 0 => Stored(m) /\ "complaint" \in rcpts[m]

\* The POSTs of one file, counted as they are sent, are no more than the retry
\* intervals in the retry window allow, and one more per fault: a crash leaves an
\* attempt unrecorded. That is a bound on their number, not on their distance: a
\* pass with slow POSTs sends late what it records with the time it began, so
\* that the next pass may send the same file seconds later.
PostsBounded ==
    \A id \in Files : (posts[id] - 1 - faults) * RetryInterval <= MaxRetryWindow

\* How the bridge implements Delivery: what the sender was told, and the
\* durable copies of a message.
Promise == [m \in Messages |->
    IF tx[m] \in {"acked", "bounced"} THEN tx[m] ELSE "open"]
Custody == [m \in Messages |->
    IF Stored(m) THEN "stored"
    ELSE IF Queued(m) THEN "queued"
    ELSE IF m \in expired \cup shredded THEN "dropped"
    ELSE "none"]

Ideal == INSTANCE Delivery WITH promise <- Promise, custody <- Custody

\* Through crashes, timeouts and retries the bridge answers for good at most
\* once, acknowledges only what a durable copy backs, and never loses hold of
\* a stored message.
ImplementsDelivery == Ideal!Spec

\* Every file the retry loop can see is eventually gone.
QueueDrains == \A id \in ItemIds : id \in Visible ~> id \notin Visible

\* Every message is eventually answered for good, 451s notwithstanding.
SendersSettle == \A m \in Messages : <>(tx[m] \in {"acked", "bounced"})
=============================================================================

------------------------ MODULE BridgeDeliveryProofs ------------------------
(***************************************************************************)
(* The bridge implements Delivery: every step of it is a step of the ideal *)
(* or leaves promise and custody alone.                                    *)
(***************************************************************************)
EXTENDS BridgeProofs

\* The message the SMTP thread works on is in the sender's DATA command.
TxKnown == smtp.pc # "idle" => tx[smtp.msg] = "data"

LEMMA TxKnownInit == Init => TxKnown
  BY DEF Init, TxKnown, IdleSmtp

LEMMA TxKnownStep == CustodyInv /\ TxKnown /\ [Next]_vars => TxKnown'
  <1> SUFFICES ASSUME CustodyInv, TxKnown, [Next]_vars PROVE TxKnown'
    OBVIOUS
  <1>0. TypeOK
    BY DEF CustodyInv
  <1>1. CASE tx' = tx /\ smtp' = smtp
    BY <1>1 DEF TxKnown
  <1>2. CASE tx' = tx /\ smtp.pc # "idle" /\ smtp'.msg = smtp.msg
    BY <1>2 DEF TxKnown
  <1>3. CASE smtp'.pc = "idle"
    BY <1>3 DEF TxKnown
  <1>4. CASE UNCHANGED vars
    BY <1>1, <1>4 DEF vars
  <1>5. ASSUME NEW m \in Messages, Rcpt(m) \/ Defer(m) PROVE TxKnown'
    BY <1>0, <1>1, <1>5 DEF Rcpt, Defer, TxKnown
  <1>6. ASSUME NEW m \in Messages, Data(m) PROVE TxKnown'
    BY <1>0, <1>6 DEF Data, TxKnown, TypeOK
  <1>7. CASE CaptureOk \/ ArfOk \/ PostFailed
    BY <1>0, <1>2, <1>7 DEF CaptureOk, ArfOk, PostFailed, Kinds, TypeOK
  <1>8. CASE WriteTmp \/ Rename
    BY <1>0, <1>2, <1>8 DEF WriteTmp, Rename, TypeOK
  <1>9. CASE Reply \/ ReplyLost \/ QueueFailed \/ Crash
    BY <1>3, <1>9 DEF Reply, ReplyLost, QueueFailed, Crash, IdleSmtp
  <1>10. CASE RetryStep
    BY <1>1, <1>10 DEF RetryStep, StartPass, Glob, RetryOk, Unlink, RetryFailed, Rewrite, EndPass,
                       DropInvalid, DropExpired, SkipRecent, RetryPost
  <1>11. CASE ApiStep
    BY <1>1, <1>11 DEF ApiStep, ApiCommit, ApiRefuse, LateCommit
  <1>12. CASE RetryFault \/ Tick
    BY <1>1, <1>12 DEF RetryFault, UnlinkFailed, ReadFailed, Tick
  <1> QED
    BY <1>4, <1>5, <1>6, <1>7, <1>8, <1>9, <1>10, <1>11, <1>12 DEF Next, SmtpStep

\* Custody of one message depends on its row, its visible files and its losses.
LEMMA CustodyOf ==
    ASSUME NEW m \in Messages
    PROVE  /\ Stored(m) => Custody[m] = "stored"
           /\ ~Stored(m) /\ Queued(m) => Custody[m] = "queued"
           /\ ~Stored(m) /\ ~Queued(m) /\ m \in expired \cup shredded => Custody[m] = "dropped"
           /\ ~Stored(m) /\ ~Queued(m) /\ m \notin expired \cup shredded => Custody[m] = "none"
           /\ Stored(m)' => Custody'[m] = "stored"
           /\ ~Stored(m)' /\ Queued(m)' => Custody'[m] = "queued"
           /\ ~Stored(m)' /\ ~Queued(m)' /\ m \in expired' \cup shredded' => Custody'[m] = "dropped"
           /\ ~Stored(m)' /\ ~Queued(m)' /\ m \notin expired' \cup shredded' => Custody'[m] = "none"
  BY DEF Custody

LEMMA CustodySame ==
    ASSUME NEW m \in Messages,
           Stored(m)' <=> Stored(m),
           Stored(m) \/ (Queued(m)' <=> Queued(m)),
           m \in expired' \cup shredded' <=> m \in expired \cup shredded
    PROVE  Custody'[m] = Custody[m]
  BY CustodyOf

\* Two functions on the messages that agree everywhere but at m.
LEMMA CustodyExcept ==
    ASSUME NEW m \in Messages, NEW v, Custody'[m] = v,
           \A n \in Messages \ {m} : Custody'[n] = Custody[n]
    PROVE  Custody' = [Custody EXCEPT ![m] = v]
  BY DEF Custody

LEMMA CustodyAllSame ==
    ASSUME \A n \in Messages : Custody'[n] = Custody[n]
    PROVE  Custody' = Custody
  BY DEF Custody

LEMMA PromiseSame ==
    ASSUME tx' = tx
    PROVE  Promise' = Promise
  BY DEF Promise

LEMMA QueuedSame ==
    ASSUME queue' = queue, NEW m \in Messages
    PROVE  Queued(m)' <=> Queued(m)
  BY DEF Queued, Visible, Files

\* A step that touches neither the rows, nor the files, nor the losses.
LEMMA CustodyIdle ==
    ASSUME queue' = queue, rows' = rows, expired' = expired, shredded' = shredded
    PROVE  Custody' = Custody
  <1>1. ASSUME NEW m \in Messages PROVE Custody'[m] = Custody[m]
    BY QueuedSame, CustodySame DEF Stored
  <1> QED
    BY <1>1, CustodyAllSame

\* What a step must be: a step of the ideal, or a stutter.
IdealStep == Ideal!Next \/ (Promise' = Promise /\ Custody' = Custody)

\* A message gets one more row: the ideal stores it.
LEMMA CommitIsIdeal ==
    ASSUME CustodyInv, NEW p \in Payloads, rows' = [rows EXCEPT ![p] = @ + 1],
           UNCHANGED <<tx, queue, expired, shredded>>
    PROVE  IdealStep
  <1>0. TypeOK
    BY DEF CustodyInv
  <1>1. PICK m \in Messages, k \in Kinds : p = <<m, k>>
    BY DEF Payloads
  <1>2. Promise' = Promise
    BY PromiseSame
  <1>3. ASSUME NEW n \in Messages, <<n, "capture">> # p PROVE Custody'[n] = Custody[n]
    <2>1. Stored(n)' <=> Stored(n)
      BY <1>0, <1>3 DEF Stored, TypeOK
    <2> QED
      BY <2>1, QueuedSame, CustodySame
  <1>4. CASE k = "capture"
    <2>1. Stored(m)'
      BY <1>0, <1>1, <1>4 DEF Stored, TypeOK
    <2>2. Custody'[m] = "stored"
      BY <2>1, CustodyOf
    <2>3. \A n \in Messages \ {m} : Custody'[n] = Custody[n]
      BY <1>1, <1>3
    <2>4. Custody' = [Custody EXCEPT ![m] = "stored"]
      BY <2>2, <2>3, CustodyExcept
    <2> QED
      BY <1>2, <2>4 DEF IdealStep, Ideal!Next, Ideal!Store
  <1>5. CASE k # "capture"
    <2>1. \A n \in Messages : Custody'[n] = Custody[n]
      BY <1>1, <1>3, <1>5
    <2> QED
      BY <1>2, <2>1, CustodyAllSame DEF IdealStep
  <1> QED
    BY <1>4, <1>5

\* A file of m goes, and m is recorded as lost: the ideal drops m, unless m is
\* stored or has another file.
LEMMA DropIsIdeal ==
    ASSUME CustodyInv, NEW id \in Visible, queue' = [queue EXCEPT ![id] = None],
           expired' \cup shredded' = expired \cup shredded \cup {queue[id].msg},
           UNCHANGED <<tx, rows>>
    PROVE  IdealStep
  <1>0. TypeOK /\ id \in ItemIds /\ id \in Files
    BY DEF CustodyInv, Visible, Files
  <1>1. PICK m \in Messages : m = queue[id].msg
    BY <1>0, FileIsItem, ItemFields
  <1>2. Promise' = Promise
    BY PromiseSame
  <1>3. \A i \in ItemIds \ {id} : queue'[i] = queue[i]
    BY <1>0 DEF TypeOK
  <1>4. queue'[id] = None
    BY <1>0 DEF TypeOK
  <1>5. Visible' = Visible \ {id}
    BY <1>3, <1>4 DEF Visible, Files
  <1>6. \A n \in Messages : Stored(n)' <=> Stored(n)
    BY DEF Stored
  <1>7. ASSUME NEW n \in Messages \ {m} PROVE Custody'[n] = Custody[n]
    <2>1. Queued(n)' <=> Queued(n)
      BY <1>1, <1>3, <1>5, <1>7 DEF Queued, Visible, Files
    <2> QED
      BY <1>1, <1>6, <1>7, <2>1, CustodySame
  <1>8. CASE Stored(m) \/ Queued(m)'
    <2>1. Queued(m)
      BY <1>1 DEF Queued
    <2>2. Custody'[m] = Custody[m]
      BY <1>6, <1>8, <2>1, CustodyOf
    <2>3. \A n \in Messages : Custody'[n] = Custody[n]
      BY <1>7, <2>2
    <2> QED
      BY <1>2, <2>3, CustodyAllSame DEF IdealStep
  <1>9. CASE ~Stored(m) /\ ~Queued(m)'
    <2>1. Custody[m] = "queued"
      BY <1>1, <1>9, CustodyOf DEF Queued
    <2>2. Custody'[m] = "dropped"
      BY <1>1, <1>6, <1>9, CustodyOf
    <2>3. Custody' = [Custody EXCEPT ![m] = "dropped"]
      BY <1>7, <2>2, CustodyExcept
    <2> QED
      BY <1>2, <2>1, <2>3 DEF IdealStep, Ideal!Next, Ideal!Drop
  <1> QED
    BY <1>8, <1>9

\* A step that changes one file's content but neither its message nor its
\* visibility.
LEMMA TouchIsIdeal ==
    ASSUME CustodyInv, NEW id \in ItemIds,
           \A i \in ItemIds \ {id} : queue'[i] = queue[i],
           id \in Visible <=> id \in Visible',
           id \in Visible => queue'[id].msg = queue[id].msg,
           UNCHANGED <<tx, rows, expired, shredded>>
    PROVE  IdealStep
  <1>1. Visible' = Visible
    BY DEF Visible, Files
  <1>2. ASSUME NEW n \in Messages PROVE Custody'[n] = Custody[n]
    <2>1. \A i \in Visible : queue'[i].msg = queue[i].msg
      BY DEF Visible, Files
    <2>2. Queued(n)' <=> Queued(n)
      BY <1>1, <2>1 DEF Queued
    <2>3. Stored(n)' <=> Stored(n)
      BY DEF Stored
    <2> QED
      BY <1>2, <2>2, <2>3, CustodySame
  <1> QED
    BY <1>2, CustodyAllSame, PromiseSame DEF IdealStep

LEMMA RenameIsIdeal == CustodyInv /\ Rename => IdealStep
  <1> SUFFICES ASSUME CustodyInv, Rename PROVE IdealStep
    OBVIOUS
  <1>0. /\ TypeOK /\ smtp.id \in ItemIds /\ smtp.id \in Files /\ smtp.id \notin Visible
        /\ queue[smtp.id] \in Item
    BY FileIsItem DEF Rename, CustodyInv, SmtpKnows, Files, Visible
  <1>1. PICK m \in Messages : m = queue[smtp.id].msg
    BY <1>0, ItemFields
  <1>2. /\ queue'[smtp.id] = [queue[smtp.id] EXCEPT !.file = "json"]
        /\ \A i \in ItemIds \ {smtp.id} : queue'[i] = queue[i]
        /\ UNCHANGED <<tx, rows, expired, shredded>>
    BY <1>0 DEF Rename, TypeOK, apivars, history
  <1>3. /\ queue'[smtp.id] \in Item /\ queue'[smtp.id].file = "json"
        /\ queue'[smtp.id].msg = m
    BY <1>0, <1>1, <1>2 DEF Item
  <1>4. Visible' = Visible \cup {smtp.id}
    BY ZenonT(60), <1>0, <1>2, <1>3, ItemFields DEF Visible, Files
  <1>5. Promise' = Promise
    BY <1>2, PromiseSame
  <1>6. \A n \in Messages : Stored(n)' <=> Stored(n)
    BY <1>2 DEF Stored
  <1>7. ASSUME NEW n \in Messages \ {m} PROVE Custody'[n] = Custody[n]
    <2>1. \A i \in Visible : queue'[i].msg = queue[i].msg
      BY <1>0, <1>2 DEF Visible, Files
    <2>2. n # queue'[smtp.id].msg
      BY <1>3
    <2>3. Queued(n)' <=> Queued(n)
      BY <1>4, <2>1, <2>2 DEF Queued
    <2> QED
      BY <1>2, <1>6, <1>7, <2>3, CustodySame
  <1>8. Queued(m)'
    BY <1>0, <1>3, <1>4 DEF Queued
  <1>9. CASE Stored(m) \/ Queued(m)
    <2>1. Custody'[m] = Custody[m]
      BY <1>6, <1>8, <1>9, CustodyOf
    <2>2. \A n \in Messages : Custody'[n] = Custody[n]
      BY <1>7, <2>1
    <2> QED
      BY <1>5, <2>2, CustodyAllSame DEF IdealStep
  <1>10. CASE ~Stored(m) /\ ~Queued(m)
    <2>1. Custody[m] \in {"none", "dropped"}
      BY <1>10, CustodyOf
    <2>2. Custody'[m] = "queued"
      BY <1>6, <1>8, <1>10, CustodyOf
    <2>3. Custody' = [Custody EXCEPT ![m] = "queued"]
      BY <1>7, <2>2, CustodyExcept
    <2> QED
      BY <1>5, <2>1, <2>3 DEF IdealStep, Ideal!Next, Ideal!Enqueue
  <1> QED
    BY <1>9, <1>10

\* A held message is in somebody's custody.
LEMMA HeldCustody ==
    ASSUME NEW m \in Messages, Held(m)
    PROVE  Custody[m] # "none"
  BY CustodyOf DEF Held

LEMMA ReplyIsIdeal == CustodyInv /\ TxKnown /\ Reply => IdealStep
  <1> SUFFICES ASSUME CustodyInv, TxKnown, Reply PROVE IdealStep
    OBVIOUS
  <1>0. TypeOK /\ smtp.msg \in Messages /\ Held(smtp.msg) /\ tx[smtp.msg] = "data"
    BY DEF Reply, CustodyInv, SmtpKnows, TxKnown
  <1>1. tx' = [tx EXCEPT ![smtp.msg] = "acked"]
    BY DEF Reply
  <1>2. Custody' = Custody
    BY CustodyIdle DEF Reply, apivars, history
  <1>3. Promise[smtp.msg] = "open"
    BY <1>0 DEF Promise
  <1>4. Promise' = [Promise EXCEPT ![smtp.msg] = "acked"]
    BY <1>0, <1>1 DEF Promise, TypeOK
  <1> QED
    BY <1>0, <1>2, <1>3, <1>4, HeldCustody DEF IdealStep, Ideal!Next, Ideal!Ack

\* A sender is told 550 or 500 only while nothing was promised.
LEMMA BounceIsIdeal ==
    ASSUME CustodyInv, NEW m \in Messages, tx[m] \in {"new", "data"},
           tx' = [tx EXCEPT ![m] = "bounced"],
           UNCHANGED <<queue, rows, expired, shredded>>
    PROVE  IdealStep
  <1>1. Custody' = Custody
    BY CustodyIdle
  <1>2. Promise[m] = "open"
    BY DEF Promise
  <1>3. Promise' = [Promise EXCEPT ![m] = "bounced"]
    BY DEF Promise, CustodyInv, TypeOK
  <1> QED
    BY <1>1, <1>2, <1>3 DEF IdealStep, Ideal!Next, Ideal!Bounce

\* A step that only moves messages between open states.
LEMMA OpenIsIdeal ==
    ASSUME CustodyInv, tx' \in [Messages -> {"new", "open", "data", "acked", "bounced"}],
           \A m \in Messages : \/ tx'[m] = tx[m]
                               \/ /\ tx[m] \in {"new", "open", "data"}
                                  /\ tx'[m] \in {"new", "open", "data"},
           UNCHANGED <<queue, rows, expired, shredded>>
    PROVE  IdealStep
  <1>1. Custody' = Custody
    BY CustodyIdle
  <1>2. Promise' = Promise
    BY DEF Promise, CustodyInv, TypeOK
  <1> QED
    BY <1>1, <1>2 DEF IdealStep

LEMMA IdleIsIdeal ==
    ASSUME UNCHANGED <<tx, queue, rows, expired, shredded>>
    PROVE  IdealStep
  BY CustodyIdle, PromiseSame DEF IdealStep

LEMMA DeliveryStep == CustodyInv /\ TxKnown /\ [Next]_vars => IdealStep
  <1> SUFFICES ASSUME CustodyInv, TxKnown, [Next]_vars PROVE IdealStep
    OBVIOUS
  <1>0. TypeOK /\ TypeOK' /\ SmtpKnows /\ RetryKnows
    BY TypeStep DEF CustodyInv
  <1>1. CASE UNCHANGED vars
    BY <1>1, IdleIsIdeal DEF vars, apivars, history
  <1>2. ASSUME NEW m \in Messages, Rcpt(m) PROVE IdealStep
    <2>1. CASE tx' = [tx EXCEPT ![m] = "bounced"]
      BY <1>2, <2>1, BounceIsIdeal DEF Rcpt, apivars, history
    <2>2. CASE tx' = [tx EXCEPT ![m] = "open"]
      BY <1>0, <1>2, <2>2, OpenIsIdeal DEF Rcpt, TypeOK, apivars, history
    <2> QED
      BY <1>2, <2>1, <2>2 DEF Rcpt
  <1>3. ASSUME NEW m \in Messages, Data(m) PROVE IdealStep
    BY <1>0, <1>3, OpenIsIdeal DEF Data, TypeOK, apivars, history
  <1>4. ASSUME NEW m \in Messages, Defer(m) PROVE IdealStep
    BY <1>4, IdleIsIdeal DEF Defer, apivars, history
  <1>5. CASE CaptureOk \/ ArfOk \/ PostFailed
    BY <1>5, IdleIsIdeal DEF CaptureOk, ArfOk, PostFailed, GiveUp, apivars, history
  <1>6. CASE WriteTmp
    <2>1. PICK id \in ItemIds \ Files :
             queue' = [queue EXCEPT ![id] =
                    [file |-> "tmp", msg |-> smtp.msg, created |-> clock,
                     last |-> clock, attempts |-> 1]]
      BY <1>6 DEF WriteTmp
    <2>2. /\ id \notin Visible /\ queue'[id].file = "tmp"
          /\ \A i \in ItemIds \ {id} : queue'[i] = queue[i]
      BY <1>0, <2>1 DEF TypeOK, Visible
    <2>3. id \notin Visible'
      BY <2>2 DEF Visible
    <2>4. UNCHANGED <<tx, rows, expired, shredded>>
      BY <1>6 DEF WriteTmp, apivars, history
    <2> QED
      BY <2>1, <2>2, <2>3, <2>4, TouchIsIdeal
  <1>7. CASE Rename
    BY <1>7, RenameIsIdeal
  <1>8. CASE Reply
    BY <1>8, ReplyIsIdeal
  <1>9. CASE StartPass \/ Glob \/ RetryOk \/ EndPass
    BY <1>9, IdleIsIdeal DEF StartPass, Glob, RetryOk, EndPass, apivars, history
  <1>10. ASSUME NEW id \in ItemIds, DropInvalid(id) \/ DropExpired(id) \/ ReadFailed(id)
         PROVE  IdealStep
    <2>1. /\ id \in Visible
          /\ queue' = [queue EXCEPT ![id] = None]
          /\ expired' \cup shredded' = expired \cup shredded \cup {queue[id].msg}
          /\ tx' = tx /\ rows' = rows
      BY <1>0, <1>10 DEF DropInvalid, DropExpired, ReadFailed, Scanning, RetryKnows, apivars
    <2> QED
      BY <2>1, DropIsIdeal
  <1>11. ASSUME NEW id \in ItemIds, SkipRecent(id) \/ RetryPost(id) PROVE IdealStep
    BY <1>11, IdleIsIdeal DEF SkipRecent, RetryPost, apivars, history
  <1>12. CASE Unlink
    <2>1. /\ retry.id \in Visible /\ Stored(queue[retry.id].msg)
          /\ queue' = [queue EXCEPT ![retry.id] = None]
          /\ UNCHANGED <<tx, rows, expired, shredded>>
      BY <1>0, <1>12 DEF Unlink, RetryKnows, apivars, history
    <2>2. ASSUME NEW n \in Messages PROVE Custody'[n] = Custody[n]
      <3>1. Stored(n)' <=> Stored(n)
        BY <2>1 DEF Stored
      <3>2. CASE Stored(n)
        BY <2>1, <3>1, <3>2, CustodySame
      <3>3. CASE ~Stored(n)
        <4>1. \A i \in ItemIds \ {retry.id} : queue'[i] = queue[i]
          BY <1>0, <2>1 DEF TypeOK
        <4>2. queue[retry.id].msg # n /\ queue'[retry.id] = None
          BY <1>0, <2>1, <3>3 DEF TypeOK, Visible, Files
        <4>3. Queued(n)' <=> Queued(n)
          BY <4>1, <4>2 DEF Queued, Visible, Files
        <4> QED
          BY <2>1, <3>1, <4>3, CustodySame
      <3> QED
        BY <3>2, <3>3
    <2> QED
      BY <2>1, <2>2, CustodyAllSame, PromiseSame DEF IdealStep
  <1>13. CASE RetryFailed \/ UnlinkFailed
    <2>1. retry.id \in Visible /\ retry.id \in ItemIds /\ queue[retry.id] \in Item
      BY <1>0, <1>13, FileIsItem DEF RetryFailed, UnlinkFailed, RetryKnows, Visible
    <2>2. /\ queue'[retry.id] = [queue[retry.id] EXCEPT !.file = "torn"]
          /\ \A i \in ItemIds \ {retry.id} : queue'[i] = queue[i]
          /\ UNCHANGED <<tx, rows, expired, shredded>>
      BY <1>0, <1>13, <2>1 DEF RetryFailed, UnlinkFailed, GiveUp, TypeOK, apivars
    <2>3. /\ queue'[retry.id] \in Item /\ queue'[retry.id].file = "torn"
          /\ queue'[retry.id].msg = queue[retry.id].msg
      BY <2>1, <2>2 DEF Item
    <2>4. retry.id \in Visible'
      BY <2>1, <2>3, ItemFields DEF Visible, Files
    <2> QED
      BY <2>1, <2>2, <2>3, <2>4, TouchIsIdeal
  <1>14. CASE Rewrite
    <2>1. /\ retry.id \in Visible /\ retry.id \in ItemIds /\ queue[retry.id] \in Item
          /\ queue[retry.id].attempts + 1 \in Nat /\ retry.now \in Nat
      BY <1>0, <1>14, FileIsItem, ItemFields DEF Rewrite, RetryKnows, Visible, TypeOK
    <2>2. /\ queue'[retry.id] = [queue[retry.id] EXCEPT
                !.file = "json", !.last = retry.now, !.attempts = @ + 1]
          /\ \A i \in ItemIds \ {retry.id} : queue'[i] = queue[i]
          /\ UNCHANGED <<tx, rows, expired, shredded>>
      BY <1>0, <1>14, <2>1 DEF Rewrite, TypeOK, apivars, history
    <2>3. /\ queue'[retry.id] \in Item /\ queue'[retry.id].file = "json"
          /\ queue'[retry.id].msg = queue[retry.id].msg
      BY <2>1, <2>2 DEF Item
    <2>4. retry.id \in Visible'
      BY <2>1, <2>3, ItemFields DEF Visible, Files
    <2> QED
      BY <2>1, <2>2, <2>3, <2>4, TouchIsIdeal
  <1>15. ASSUME NEW t \in Threads, ApiCommit(t) PROVE IdealStep
    <2>1. Posted(t) \in Payloads
      BY <1>15, PostedType DEF ApiCommit
    <2> QED
      BY <1>15, <2>1, CommitIsIdeal DEF ApiCommit, history
  <1>16. ASSUME NEW t \in Threads, ApiRefuse(t) PROVE IdealStep
    BY <1>16, IdleIsIdeal DEF ApiRefuse, apivars, history
  <1>17. ASSUME NEW p \in Payloads, LateCommit(p) PROVE IdealStep
    BY <1>17, CommitIsIdeal DEF LateCommit, history
  <1>18. CASE ReplyLost
    <2>1. tx[smtp.msg] = "data"
      BY <1>18 DEF ReplyLost, TxKnown
    <2> QED
      BY <1>0, <1>18, <2>1, OpenIsIdeal DEF ReplyLost, TypeOK, apivars
  <1>19. CASE QueueFailed
    <2>1. smtp.msg \in Messages /\ tx[smtp.msg] = "data"
      BY <1>0, <1>19 DEF QueueFailed, SmtpKnows, TxKnown
    <2> QED
      BY <1>19, <2>1, BounceIsIdeal DEF QueueFailed, apivars, history
  <1>20. CASE Crash
    BY <1>0, <1>20, OpenIsIdeal DEF Crash, TypeOK
  <1>21. CASE Tick
    BY <1>21, IdleIsIdeal DEF Tick, apivars, history
  <1> QED
    BY <1>1, <1>2, <1>3, <1>4, <1>5, <1>6, <1>7, <1>8, <1>9, <1>10, <1>11, <1>12, <1>13, <1>14,
       <1>15, <1>16, <1>17, <1>18, <1>19, <1>20, <1>21
       DEF Next, SmtpStep, RetryStep, RetryFault, ApiStep

LEMMA DeliveryInit == Init => Ideal!Init
  BY DEF Init, Ideal!Init, Promise, Custody, Stored, Queued, Visible, Files, Payloads, Kinds

\* Whatever crashes, timeouts and retries it goes through, the bridge answers a
\* sender for good at most once, acknowledges only what a durable copy backs,
\* and keeps what is stored.
THEOREM BridgeImplementsDelivery == Spec => ImplementsDelivery
  <1>1. Init => CustodyInv /\ TxKnown
    BY CustodyInit, TxKnownInit
  <1>2. CustodyInv /\ TxKnown /\ [Next]_vars => CustodyInv' /\ TxKnown'
    BY CustodyStep, TxKnownStep
  <1>3. CustodyInv /\ TxKnown /\ [Next]_vars => [Ideal!Next]_<<Promise, Custody>>
    BY DeliveryStep DEF IdealStep
  <1> QED
    BY <1>1, <1>2, <1>3, DeliveryInit, PTL DEF Spec, ImplementsDelivery, Ideal!Spec

(***************************************************************************)
(* The feedback reports.                                                   *)
(***************************************************************************)

\* A report of m is stored, or a POST of one may still be.
Reported(m) == rows[<<m, "arf">>] > 0 \/ late[<<m, "arf">>] > 0

\* The SMTP thread is at a report only for a complaint, and what has been
\* reported is a complaint that is past its RCPT commands.
ReportInv ==
    /\ smtp.pc = "arf" => "complaint" \in rcpts[smtp.msg]
    /\ \A m \in Messages :
          Reported(m) => Stored(m) /\ "complaint" \in rcpts[m] /\ tx[m] # "new"

\* The recipients of a message are settled once.
LEMMA RcptsKept ==
    ASSUME CustodyInv, [Next]_vars, NEW m \in Messages, tx[m] # "new"
    PROVE  tx'[m] # "new" /\ rcpts'[m] = rcpts[m]
  <1>0. TypeOK
    BY DEF CustodyInv
  <1>1. CASE tx' = tx /\ rcpts' = rcpts
    BY <1>1
  <1>2. CASE rcpts' = rcpts /\ \E n, v : v # "new" /\ tx' = [tx EXCEPT ![n] = v]
    BY <1>0, <1>2 DEF TypeOK
  <1>3. ASSUME NEW n \in Messages, Rcpt(n) PROVE tx'[m] # "new" /\ rcpts'[m] = rcpts[m]
    BY <1>0, <1>3 DEF Rcpt, TypeOK
  <1>4. ASSUME NEW n \in Messages, Data(n) \/ Defer(n) PROVE tx'[m] # "new" /\ rcpts'[m] = rcpts[m]
    BY <1>1, <1>2, <1>4 DEF Data, Defer
  <1>5. CASE SmtpStep
    BY <1>1, <1>2, <1>5 DEF SmtpStep, CaptureOk, ArfOk, PostFailed, WriteTmp, Rename, Reply
  <1>6. CASE RetryStep
    BY <1>1, <1>6 DEF RetryStep, StartPass, Glob, RetryOk, Unlink, RetryFailed, Rewrite, EndPass,
                     DropInvalid, DropExpired, SkipRecent, RetryPost
  <1>7. CASE ApiStep
    BY <1>1, <1>7 DEF ApiStep, ApiCommit, ApiRefuse, LateCommit
  <1>8. CASE ReplyLost \/ QueueFailed
    BY <1>2, <1>8 DEF ReplyLost, QueueFailed
  <1>9. CASE Crash
    BY <1>0, <1>9 DEF Crash, TypeOK
  <1>10. CASE RetryFault \/ Tick \/ UNCHANGED vars
    BY <1>1, <1>10 DEF RetryFault, UnlinkFailed, ReadFailed, Tick, vars
  <1> QED
    BY <1>3, <1>4, <1>5, <1>6, <1>7, <1>8, <1>9, <1>10 DEF Next

\* Only the SMTP thread posts reports.
LEMMA NewReport ==
    ASSUME CustodyInv, [Next]_vars, NEW m \in Messages, Reported(m)'
    PROVE  Reported(m) \/ (smtp.pc = "arf" /\ smtp.msg = m)
  <1> DEFINE r == <<m, "arf">>
  <1>0. TypeOK /\ r \in Payloads /\ rows[r] \in Nat /\ late[r] \in Nat
    BY DEF CustodyInv, TypeOK, Payloads, Kinds
  <1>1. ASSUME rows' = rows, late' = late PROVE Reported(m)
    BY <1>1 DEF Reported
  <1>2. Posted("smtp") = r => smtp.pc = "arf" /\ smtp.msg = m
    BY DEF Posted
  <1>3. Posted("retry") # r
    BY DEF Posted
  <1>4. ASSUME NEW t \in Threads, Posted(t) # r, rows' = rows,
               late' = late \/ late' = [late EXCEPT ![Posted(t)] = @ + 1]
        PROVE  Reported(m)
    BY <1>0, <1>4 DEF Reported, TypeOK
  <1>5. ASSUME NEW t \in Threads, GiveUp(t) PROVE Reported(m) \/ (smtp.pc = "arf" /\ smtp.msg = m)
    BY <1>2, <1>3, <1>4, <1>5 DEF GiveUp, Threads
  <1>6. ASSUME NEW t \in Threads, ApiCommit(t)
        PROVE  Reported(m) \/ (smtp.pc = "arf" /\ smtp.msg = m)
    <2>1. CASE Posted(t) = r
      BY <1>2, <1>3, <2>1 DEF Threads
    <2>2. CASE Posted(t) # r
      BY <1>0, <1>6, <2>2 DEF ApiCommit, Reported, TypeOK
    <2> QED
      BY <2>1, <2>2
  <1>7. ASSUME NEW p \in Payloads, LateCommit(p) PROVE Reported(m)
    <2>1. CASE p = r
      BY <1>7, <2>1 DEF LateCommit, Reported
    <2>2. CASE p # r
      BY <1>0, <1>7, <2>2 DEF LateCommit, Reported, TypeOK
    <2> QED
      BY <2>1, <2>2
  <1>8. CASE Crash
    <2>1. rows'[r] = rows[r]
      BY <1>8 DEF Crash
    <2>2. late'[r] = late[r] + (IF req["smtp"] = "sent" /\ Posted("smtp") = r THEN 1 ELSE 0)
                             + (IF req["retry"] = "sent" /\ Posted("retry") = r THEN 1 ELSE 0)
      BY <1>0, <1>8 DEF Crash
    <2> QED
      BY <1>0, <1>2, <1>3, <2>1, <2>2 DEF Reported
  <1>9. CASE UNCHANGED vars
    BY <1>1, <1>9 DEF vars, apivars
  <1>10. ASSUME NEW n \in Messages, Rcpt(n) \/ Data(n) \/ Defer(n) PROVE Reported(m)
    BY <1>1, <1>10 DEF Rcpt, Data, Defer, apivars
  <1>11. CASE CaptureOk \/ ArfOk \/ WriteTmp \/ Rename \/ Reply \/ ReplyLost \/ QueueFailed \/ Tick
    BY <1>1, <1>11 DEF CaptureOk, ArfOk, WriteTmp, Rename, Reply, ReplyLost, QueueFailed, Tick, apivars
  <1>12. CASE PostFailed \/ RetryFailed
    BY <1>5, <1>12 DEF PostFailed, RetryFailed, Threads
  <1>13. CASE StartPass \/ Glob \/ RetryOk \/ Unlink \/ Rewrite \/ EndPass
    BY <1>1, <1>13 DEF StartPass, Glob, RetryOk, Unlink, Rewrite, EndPass, apivars
  <1>14. ASSUME NEW id \in ItemIds, DropInvalid(id) \/ DropExpired(id) \/ SkipRecent(id) \/ RetryPost(id)
         PROVE  Reported(m)
    BY <1>1, <1>14 DEF DropInvalid, DropExpired, SkipRecent, RetryPost, apivars
  <1>15. ASSUME NEW t \in Threads, ApiRefuse(t) PROVE Reported(m)
    BY <1>1, <1>15 DEF ApiRefuse, apivars
  <1>16. CASE RetryFault
    BY <1>1, <1>16 DEF RetryFault, UnlinkFailed, ReadFailed, apivars
  <1> QED
    BY <1>6, <1>7, <1>8, <1>9, <1>10, <1>11, <1>12, <1>13, <1>14, <1>15, <1>16
       DEF Next, SmtpStep, RetryStep, ApiStep

\* The SMTP thread comes to a report from the capture of a complaint.
LEMMA AtReport ==
    ASSUME CustodyInv, [Next]_vars, smtp'.pc = "arf"
    PROVE  /\ smtp'.msg = smtp.msg
           /\ smtp.pc = "arf" \/ (smtp.pc = "capture" /\ "complaint" \in rcpts[smtp.msg])
  <1>0. TypeOK
    BY DEF CustodyInv
  <1>1. CASE smtp' = smtp
    BY <1>1
  <1>2. CASE UNCHANGED vars
    BY <1>2 DEF vars
  <1>3. ASSUME NEW n \in Messages, Rcpt(n) \/ Defer(n) PROVE smtp' = smtp
    BY <1>3 DEF Rcpt, Defer
  <1>4. ASSUME NEW n \in Messages, Data(n) PROVE FALSE
    BY <1>0, <1>4 DEF Data, TypeOK
  <1>5. CASE CaptureOk
    BY <1>0, <1>5 DEF CaptureOk, TypeOK
  <1>6. CASE ArfOk \/ PostFailed \/ WriteTmp \/ Rename
    BY <1>0, <1>6 DEF ArfOk, PostFailed, WriteTmp, Rename, TypeOK
  <1>9. CASE Reply \/ ReplyLost \/ QueueFailed \/ Crash
    BY <1>9 DEF Reply, ReplyLost, QueueFailed, Crash, IdleSmtp
  <1>7. CASE RetryStep
    BY <1>1, <1>7 DEF RetryStep, StartPass, Glob, RetryOk, Unlink, RetryFailed, Rewrite, EndPass,
                     DropInvalid, DropExpired, SkipRecent, RetryPost
  <1>8. CASE ApiStep \/ RetryFault \/ Tick
    BY <1>1, <1>8 DEF ApiStep, ApiCommit, ApiRefuse, LateCommit, RetryFault, UnlinkFailed, ReadFailed,
                      Tick
  <1> QED
    BY <1>1, <1>2, <1>3, <1>4, <1>5, <1>6, <1>7, <1>8, <1>9 DEF Next, SmtpStep

LEMMA ReportAlways == Spec => []ReportInv
  <1>1. Init => ReportInv
    BY DEF Init, ReportInv, Reported, IdleSmtp, Payloads, Kinds
  <1>2. CustodyInv /\ TxKnown /\ ReportInv /\ [Next]_vars => ReportInv'
    <2> SUFFICES ASSUME CustodyInv, TxKnown, ReportInv, [Next]_vars PROVE ReportInv'
      OBVIOUS
    <2>1. ASSUME smtp'.pc = "arf" PROVE "complaint" \in rcpts'[smtp'.msg]
      <3>1. /\ smtp'.msg = smtp.msg /\ smtp.pc # "idle"
            /\ "complaint" \in rcpts[smtp.msg]
        BY <2>1, AtReport DEF ReportInv
      <3>2. smtp.msg \in Messages /\ tx[smtp.msg] # "new"
        BY <3>1 DEF CustodyInv, SmtpKnows, TxKnown
      <3> QED
        BY <3>1, <3>2, RcptsKept
    <2>2. ASSUME NEW m \in Messages, Reported(m)'
          PROVE  Stored(m)' /\ "complaint" \in rcpts'[m] /\ tx'[m] # "new"
      <3>1. Stored(m) /\ "complaint" \in rcpts[m] /\ tx[m] # "new"
        <4>1. CASE Reported(m)
          BY <4>1 DEF ReportInv
        <4>2. CASE smtp.pc = "arf" /\ smtp.msg = m
          BY <4>2 DEF ReportInv, CustodyInv, SmtpKnows, TxKnown
        <4> QED
          BY <2>2, <4>1, <4>2, NewReport
      <3> QED
        BY <3>1, StoredStep, RcptsKept
    <2> QED
      BY <2>1, <2>2 DEF ReportInv
  <1>3. CustodyInv /\ TxKnown /\ [Next]_vars => TxKnown'
    BY TxKnownStep
  <1> QED
    BY <1>1, <1>2, <1>3, TxKnownInit, CustodyAlways, PTL DEF Spec

\* No feedback report is stored, or still on its way, for a message that is not
\* stored or was no complaint, whatever fails and is repeated in between.
THEOREM ReportsFollowCaptures == Spec => []ReportFollowsCapture
  <1>1. CustodyInv /\ ReportInv => ReportFollowsCapture
    <2> SUFFICES ASSUME CustodyInv, ReportInv, NEW m \in Messages,
                        rows[<<m, "arf">>] + late[<<m, "arf">>] > 0
                 PROVE  Stored(m) /\ "complaint" \in rcpts[m]
      BY DEF ReportFollowsCapture
    <2>1. rows[<<m, "arf">>] \in Nat /\ late[<<m, "arf">>] \in Nat
      BY DEF CustodyInv, TypeOK, Payloads, Kinds
    <2>2. Reported(m)
      BY <2>1 DEF Reported
    <2> QED
      BY <2>2 DEF ReportInv
  <1> QED
    BY <1>1, CustodyAlways, ReportAlways, PTL

(***************************************************************************)
(* One capture of each message.                                            *)
(***************************************************************************)

\* The files a message is in, readable or not, and the rows it has.
Copies(m) == {id \in Files : queue[id].msg = m}
Captures(m) == rows[<<m, "capture">>]
Retrying(m) == retry.pc \in {"posting", "unlink"} /\ queue[retry.id].msg = m

\* A message no doubt was cast on has one home at a time: the sender, the SMTP
\* thread, one queue file, or the database, and it is in a file and the
\* database only while the main thread is about to remove the file.
Once(m) ==
    /\ late[<<m, "capture">>] = 0
    /\ \A i, j \in Copies(m) : i = j
    /\ Captures(m) <= 1
    /\ Captures(m) = 1 /\ Copies(m) # {} => Retrying(m)
    /\ Retrying(m) /\ retry.pc = "posting" /\ req["retry"] # "committed" => Captures(m) = 0
    /\ tx[m] \in {"new", "open"} => Captures(m) = 0 /\ Copies(m) = {}
    /\ smtp.msg = m =>
          /\ smtp.pc \in {"capture", "arf", "tmp"} => Copies(m) = {}
          /\ smtp.pc = "capture" /\ req["smtp"] # "committed" => Captures(m) = 0
          /\ smtp.pc \in {"tmp", "rename"} => Captures(m) = 0

OnceInv == \A m \in Messages \ doubted : Once(m)

LEMMA CaptureTyped ==
    ASSUME CustodyInv, NEW m \in Messages
    PROVE  <<m, "capture">> \in Payloads /\ Captures(m) \in Nat
  BY DEF CustodyInv, TypeOK, Payloads, Kinds, Captures

LEMMA CopiesSame ==
    ASSUME queue' = queue, NEW m
    PROVE  Copies(m)' = Copies(m)
  BY DEF Copies, Files

LEMMA CopiesLess ==
    ASSUME TypeOK, NEW id \in ItemIds, queue' = [queue EXCEPT ![id] = None], NEW m
    PROVE  Copies(m)' = Copies(m) \ {id} /\ \A i \in ItemIds \ {id} : queue'[i] = queue[i]
  BY DEF TypeOK, Copies, Files

\* A change of a file that leaves its message alone.
LEMMA CopiesTouched ==
    ASSUME TypeOK, NEW id \in Files, queue'[id] # None, queue'[id].msg = queue[id].msg,
           \A i \in ItemIds \ {id} : queue'[i] = queue[i], NEW m
    PROVE  Copies(m)' = Copies(m) /\ \A i \in ItemIds : queue'[i].msg = queue[i].msg
  BY DEF TypeOK, Copies, Files

\* The main thread has a file of the message it retries.
LEMMA RetryingHasCopy ==
    ASSUME CustodyInv, NEW m \in Messages, Retrying(m)
    PROVE  retry.id \in Copies(m)
  BY DEF CustodyInv, RetryKnows, Visible, Retrying, Copies

\* A step that leaves the queue, the rows and the threads' places alone.
LEMMA OnceSame ==
    ASSUME NEW m \in Messages, Once(m),
           UNCHANGED <<queue, rows, late, smtp>>,
           retry.pc \in {"posting", "unlink"} => retry' = retry,
           retry'.pc \in {"posting", "unlink"} => retry' = retry,
           tx'[m] \in {"new", "open"} => tx[m] \in {"new", "open"},
           req'["smtp"] = req["smtp"], req'["retry"] = req["retry"]
    PROVE  Once(m)'
  BY CopiesSame DEF Once, Captures, Retrying

\* The steps of the SMTP thread.
LEMMA OnceSmtp ==
    ASSUME CustodyInv, TxKnown, NEW m \in Messages, m \notin doubted', Once(m), SmtpStep
    PROVE  Once(m)'
  <1>0. TypeOK /\ Captures(m) \in Nat
    BY CaptureTyped DEF CustodyInv
  <1>1. CASE CaptureOk \/ ArfOk
    <2>1. /\ UNCHANGED <<queue, rows, late, retry, tx>> /\ req'["retry"] = req["retry"]
          /\ smtp'.msg = smtp.msg /\ smtp.pc \in {"capture", "arf"}
          /\ smtp'.pc \in {"arf", "reply"}
      BY <1>0, <1>1 DEF CaptureOk, ArfOk, TypeOK, Threads, apivars
    <2> QED
      BY <2>1, CopiesSame DEF Once, Captures, Retrying
  <1>2. CASE PostFailed
    <2>1. /\ UNCHANGED <<queue, rows, retry, tx>> /\ req'["retry"] = req["retry"]
          /\ smtp'.msg = smtp.msg /\ smtp'.pc = "tmp" /\ smtp.pc \in Kinds
          /\ req["smtp"] # "none" /\ req'["smtp"] = "none"
          /\ late' = IF req["smtp"] = "sent" THEN [late EXCEPT ![Posted("smtp")] = @ + 1] ELSE late
          /\ doubted' = IF req["smtp"] # "refused" \/ Posted("smtp")[2] = "arf"
                        THEN doubted \cup {Posted("smtp")[1]} ELSE doubted
      BY <1>0, <1>2 DEF PostFailed, GiveUp, TypeOK, Threads
    <2>2. Posted("smtp") = <<smtp.msg, smtp.pc>>
      BY DEF Posted
    <2>3. CASE smtp.msg = m
      <3>1. req["smtp"] = "refused" /\ smtp.pc = "capture" /\ late' = late
        BY <2>1, <2>2, <2>3 DEF Kinds
      <3> QED
        BY <2>1, <2>3, <3>1, CopiesSame DEF Once, Captures, Retrying
    <2>4. CASE smtp.msg # m
      <3>1. late'[<<m, "capture">>] = late[<<m, "capture">>]
        BY <1>0, <2>1, <2>2, <2>4, CaptureTyped DEF TypeOK
      <3> QED
        BY <2>1, <2>4, <3>1, CopiesSame DEF Once, Captures, Retrying
    <2> QED
      BY <2>3, <2>4
  <1>3. CASE WriteTmp
    <2>1. PICK id \in ItemIds \ Files :
             /\ queue' = [queue EXCEPT ![id] =
                    [file |-> "tmp", msg |-> smtp.msg, created |-> clock,
                     last |-> clock, attempts |-> 1]]
             /\ smtp' = [smtp EXCEPT !.pc = "rename", !.id = id]
      BY <1>3 DEF WriteTmp
    <2>2. /\ UNCHANGED <<rows, late, retry, req, tx>> /\ smtp.pc = "tmp"
          /\ smtp'.pc = "rename" /\ smtp'.msg = smtp.msg /\ smtp.msg \in Messages
      BY <1>0, <1>3, <2>1 DEF WriteTmp, TypeOK, apivars, CustodyInv, SmtpKnows
    <2>3. /\ queue'[id].msg = smtp.msg /\ queue'[id] # None
          /\ \A i \in ItemIds \ {id} : queue'[i] = queue[i]
      <3>1. queue'[id] \in Item
        BY <1>0, <2>1, <2>2 DEF TypeOK, CapTypeOK, Item
      <3> QED
        BY <1>0, <2>1, <3>1, ItemFields DEF TypeOK
    <2>4. Copies(m)' = IF smtp.msg = m THEN Copies(m) \cup {id} ELSE Copies(m)
      BY <2>1, <2>3 DEF Copies, Files
    <2>5. Retrying(m)' <=> Retrying(m)
      <3>1. retry.pc \in {"posting", "unlink"} => retry.id \in Files
        BY DEF CustodyInv, RetryKnows, Visible
      <3>2. retry.pc \in {"posting", "unlink"} => queue'[retry.id] = queue[retry.id]
        BY <2>1, <2>3, <3>1 DEF Files
      <3> QED
        BY <2>2, <3>2 DEF Retrying
    <2>6. CASE smtp.msg = m
      <3>1. Copies(m) = {} /\ Captures(m) = 0 /\ tx[m] = "data"
        BY <2>2, <2>6 DEF Once, TxKnown
      <3>2. Copies(m)' = {id}
        BY <2>4, <2>6, <3>1
      <3> QED
        BY <2>2, <2>5, <2>6, <3>1, <3>2 DEF Once, Captures
    <2>7. CASE smtp.msg # m
      BY <2>2, <2>4, <2>5, <2>7 DEF Once, Captures
    <2> QED
      BY <2>6, <2>7
  <1>4. CASE Rename
    <2>1. smtp.id \in Files /\ smtp.id \in ItemIds /\ queue[smtp.id] \in Item
      BY <1>0, <1>4, FileIsItem DEF Rename, CustodyInv, SmtpKnows
    <2>2. /\ UNCHANGED <<rows, late, retry, req, tx>>
          /\ smtp'.pc = "reply" /\ smtp'.msg = smtp.msg
          /\ queue'[smtp.id] = [queue[smtp.id] EXCEPT !.file = "json"]
          /\ \A i \in ItemIds \ {smtp.id} : queue'[i] = queue[i]
      BY <1>0, <1>4, <2>1 DEF Rename, TypeOK, apivars
    <2>3. queue'[smtp.id] \in Item /\ queue'[smtp.id].msg = queue[smtp.id].msg
      BY <2>1, <2>2 DEF Item
    <2>4. Copies(m)' = Copies(m) /\ \A i \in ItemIds : queue'[i].msg = queue[i].msg
      BY <1>0, <2>1, <2>2, <2>3, ItemFields, CopiesTouched
    <2>5. Retrying(m)' <=> Retrying(m)
      BY <1>0, <2>2, <2>4 DEF Retrying, CustodyInv, RetryKnows, Visible, Files
    <2> QED
      BY <2>2, <2>4, <2>5 DEF Once, Captures
  <1>5. CASE Reply
    <2>1. /\ UNCHANGED <<queue, rows, late, retry, req>> /\ smtp'.pc = "idle"
          /\ tx'[m] \in {"new", "open"} => tx[m] \in {"new", "open"}
      BY <1>0, <1>5 DEF Reply, IdleSmtp, TypeOK, apivars
    <2> QED
      BY <2>1, CopiesSame DEF Once, Captures, Retrying
  <1> QED
    BY <1>1, <1>2, <1>3, <1>4, <1>5 DEF SmtpStep

\* A step of the main thread that neither posts nor removes.
LEMMA OnceAside ==
    ASSUME NEW m \in Messages, Once(m), UNCHANGED <<rows, late, smtp, tx>>,
           req'["smtp"] = req["smtp"], Copies(m)' \subseteq Copies(m),
           Captures(m) = 1 => Copies(m)' = {}, ~Retrying(m)'
    PROVE  Once(m)'
  BY DEF Once, Captures

\* The steps of the main thread.
LEMMA OnceRetry ==
    ASSUME CustodyInv, NEW m \in Messages, m \notin doubted', Once(m), RetryStep
    PROVE  Once(m)'
  <1>0. TypeOK /\ Captures(m) \in Nat
    BY CaptureTyped DEF CustodyInv
  <1>1. CASE StartPass \/ Glob \/ EndPass
    <2>1. UNCHANGED <<rows, late, smtp, tx, req, queue>>
      BY <1>1 DEF StartPass, Glob, EndPass, apivars
    <2>2. retry.pc \in {"sleep", "glob", "scan"} /\ retry'.pc \in {"sleep", "glob", "scan"}
      <3>1. CASE StartPass
        BY <1>0, <3>1 DEF StartPass, TypeOK
      <3>2. CASE Glob
        BY <1>0, <3>2 DEF Glob, TypeOK
      <3>3. CASE EndPass
        BY <3>3 DEF EndPass, AsleepRetry
      <3> QED
        BY <1>1, <3>1, <3>2, <3>3
    <2> QED
      BY <2>1, <2>2, OnceSame
  <1>2. ASSUME NEW id \in ItemIds, SkipRecent(id) PROVE Once(m)'
    <2>1. /\ UNCHANGED <<rows, late, smtp, tx, req, queue>>
          /\ retry.pc \notin {"posting", "unlink"} /\ retry'.pc \notin {"posting", "unlink"}
      BY <1>0, <1>2 DEF SkipRecent, Scanning, TypeOK, apivars
    <2> QED
      BY <2>1, OnceSame
  <1>3. ASSUME NEW id \in ItemIds, DropInvalid(id) \/ DropExpired(id) PROVE Once(m)'
    <2>1. /\ UNCHANGED <<rows, late, smtp, tx, req>> /\ queue' = [queue EXCEPT ![id] = None]
          /\ retry.pc \notin {"posting", "unlink"} /\ retry'.pc \notin {"posting", "unlink"}
      BY <1>0, <1>3 DEF DropInvalid, DropExpired, Scanning, TypeOK, apivars
    <2>2. Copies(m)' \subseteq Copies(m)
      BY <1>0, <2>1, CopiesLess
    <2>3. ~Retrying(m) /\ ~Retrying(m)'
      BY <2>1 DEF Retrying
    <2>4. Captures(m) = 1 => Copies(m)' = {}
      BY <2>2, <2>3 DEF Once
    <2> QED
      BY <2>1, <2>2, <2>3, <2>4, OnceAside
  <1>4. ASSUME NEW id \in ItemIds, RetryPost(id) PROVE Once(m)'
    <2>1. /\ UNCHANGED <<rows, late, smtp, tx, queue>> /\ req'["smtp"] = req["smtp"]
          /\ retry.pc = "scan" /\ retry'.pc = "posting" /\ retry'.id = id
      BY <1>0, <1>4 DEF RetryPost, Scanning, TypeOK, Threads, apivars
    <2>2. Copies(m)' = Copies(m) /\ ~Retrying(m) /\ Captures(m)' = Captures(m)
      BY <2>1, CopiesSame DEF Retrying, Captures
    <2>3. Retrying(m)' => Copies(m) # {}
      <3>1. id \in Files
        BY <1>4 DEF RetryPost, Scanning, CustodyInv, RetryKnows, Visible
      <3> QED
        BY <2>1, <3>1 DEF Retrying, Copies
    <2>4. Copies(m) # {} => Captures(m) = 0
      BY <1>0, <2>2 DEF Once
    <2> QED
      BY <1>0, <2>1, <2>2, <2>3, <2>4 DEF Once
  <1>5. CASE RetryOk
    <2>1. /\ UNCHANGED <<rows, late, smtp, tx, queue>> /\ req'["smtp"] = req["smtp"]
          /\ retry.pc = "posting" /\ retry'.pc = "unlink" /\ retry'.id = retry.id
      BY <1>0, <1>5 DEF RetryOk, TypeOK, Threads, apivars
    <2> QED
      BY <2>1, CopiesSame DEF Once, Captures, Retrying
  <1>6. CASE Unlink
    <2>1. /\ UNCHANGED <<rows, late, smtp, tx, req>> /\ queue' = [queue EXCEPT ![retry.id] = None]
          /\ retry.pc = "unlink" /\ retry'.pc = "scan" /\ retry.id \in ItemIds
      BY <1>0, <1>6 DEF Unlink, TypeOK, apivars, CustodyInv, RetryKnows, Visible, Files
    <2>2. Copies(m)' = Copies(m) \ {retry.id} /\ ~Retrying(m)'
      BY <1>0, <2>1, CopiesLess DEF Retrying
    <2>3. ASSUME Captures(m) = 1 PROVE Copies(m)' = {}
      <3>1. CASE Retrying(m)
        <4>1. retry.id \in Copies(m)
          BY <3>1, RetryingHasCopy
        <4> QED
          BY <2>2, <4>1 DEF Once
      <3>2. CASE ~Retrying(m)
        BY <2>2, <2>3, <3>2 DEF Once
      <3> QED
        BY <3>1, <3>2
    <2> QED
      BY <2>1, <2>2, <2>3, OnceAside
  <1>7. CASE RetryFailed
    <2>1. /\ UNCHANGED <<rows, smtp, tx>> /\ req'["smtp"] = req["smtp"]
          /\ retry.pc = "posting" /\ retry'.pc = "rewrite" /\ retry.id \in Files
          /\ late' = IF req["retry"] = "sent" THEN [late EXCEPT ![Posted("retry")] = @ + 1] ELSE late
          /\ doubted' = IF req["retry"] # "refused" \/ Posted("retry")[2] = "arf"
                        THEN doubted \cup {Posted("retry")[1]} ELSE doubted
          /\ req["retry"] # "none"
          /\ queue' = [queue EXCEPT ![retry.id].file = "torn"]
      BY <1>0, <1>7 DEF RetryFailed, GiveUp, TypeOK, Threads, CustodyInv, RetryKnows, Visible
    <2>2. Posted("retry") = <<queue[retry.id].msg, "capture">>
      BY DEF Posted
    <2>3. retry.id \in ItemIds /\ queue[retry.id] \in Item
      BY <1>0, <2>1, FileIsItem
    <2>4. /\ queue'[retry.id] = [queue[retry.id] EXCEPT !.file = "torn"]
          /\ \A i \in ItemIds \ {retry.id} : queue'[i] = queue[i]
      BY <1>0, <2>1, <2>3 DEF TypeOK
    <2>5. queue'[retry.id] \in Item /\ queue'[retry.id].msg = queue[retry.id].msg
      BY <2>3, <2>4 DEF Item
    <2>6. Copies(m)' = Copies(m) /\ ~Retrying(m)'
      BY <1>0, <2>1, <2>4, <2>5, ItemFields, CopiesTouched DEF Retrying
    <2>7. late'[<<m, "capture">>] = late[<<m, "capture">>]
      <3>1. CASE queue[retry.id].msg = m
        BY <2>1, <2>2, <3>1
      <3>2. CASE queue[retry.id].msg # m
        BY <1>0, <2>1, <2>2, <3>2, CaptureTyped DEF TypeOK
      <3> QED
        BY <3>1, <3>2
    <2>8. ASSUME Captures(m) = 1 PROVE Copies(m) = {}
      <3>1. CASE Retrying(m)
        <4>1. req["retry"] = "refused"
          BY <2>1, <2>2, <3>1 DEF Retrying
        <4> QED
          BY <2>1, <2>8, <3>1, <4>1 DEF Once
      <3>2. CASE ~Retrying(m)
        BY <2>8, <3>2 DEF Once
      <3> QED
        BY <3>1, <3>2
    <2> QED
      BY <2>1, <2>6, <2>7, <2>8 DEF Once, Captures
  <1>8. CASE Rewrite
    <2>1. /\ UNCHANGED <<rows, late, smtp, tx, req>>
          /\ retry.pc = "rewrite" /\ retry'.pc = "scan" /\ retry.id \in Files
          /\ queue' = [queue EXCEPT ![retry.id].file = "json",
                                    ![retry.id].last = retry.now,
                                    ![retry.id].attempts = @ + 1]
      BY <1>0, <1>8 DEF Rewrite, TypeOK, apivars, CustodyInv, RetryKnows, Visible
    <2>2. retry.id \in ItemIds /\ queue[retry.id] \in Item
      BY <1>0, <2>1, FileIsItem
    <2>3. \A i \in ItemIds \ {retry.id} : queue'[i] = queue[i]
      BY <1>0, <2>1, <2>2 DEF TypeOK
    <2>4. queue'[retry.id] # None /\ queue'[retry.id].msg = queue[retry.id].msg
      <3>1. /\ queue'[retry.id].file = "json"
            /\ queue'[retry.id].msg = queue[retry.id].msg
            /\ queue'[retry.id] \in Item \cup {None}
        BY <1>0, <2>1, <2>2 DEF TypeOK, Item
      <3>2. queue'[retry.id] = [queue[retry.id] EXCEPT !.file = "json", !.last = retry.now, !.attempts = @ + 1]
        BY <1>0, <2>1, <2>2 DEF TypeOK
      <3>3. queue'[retry.id] \in Item
        <4>1. queue[retry.id].attempts + 1 \in Nat /\ retry.now \in Nat
          BY <1>0, <2>2, ItemFields DEF TypeOK
        <4> QED
          BY <2>2, <3>2, <4>1 DEF Item
      <3> QED
        BY <3>1, <3>3, ItemFields
    <2>5. Copies(m)' = Copies(m) /\ ~Retrying(m) /\ ~Retrying(m)'
      BY <1>0, <2>1, <2>3, <2>4, CopiesTouched DEF Retrying
    <2> QED
      BY <2>1, <2>5, OnceAside DEF Once
  <1> QED
    BY <1>1, <1>2, <1>3, <1>4, <1>5, <1>6, <1>7, <1>8 DEF RetryStep

\* Errors of the queue directory in the main thread: a file lost to one takes its
\* message along, and a file kept by one casts doubt on its message.
LEMMA OnceRetryFault ==
    ASSUME CustodyInv, NEW m \in Messages, m \notin doubted', Once(m), RetryFault
    PROVE  Once(m)'
  <1>0. TypeOK /\ Captures(m) \in Nat
    BY CaptureTyped DEF CustodyInv
  <1>1. ASSUME NEW id \in ItemIds, ReadFailed(id) PROVE Once(m)'
    <2>1. /\ UNCHANGED <<rows, late, smtp, tx, req>> /\ queue' = [queue EXCEPT ![id] = None]
          /\ retry.pc \notin {"posting", "unlink"} /\ retry'.pc \notin {"posting", "unlink"}
      BY <1>0, <1>1 DEF ReadFailed, Scanning, TypeOK, apivars
    <2>2. Copies(m)' \subseteq Copies(m)
      BY <1>0, <2>1, CopiesLess
    <2>3. ~Retrying(m) /\ ~Retrying(m)'
      BY <2>1 DEF Retrying
    <2>4. Captures(m) = 1 => Copies(m)' = {}
      BY <2>2, <2>3 DEF Once
    <2> QED
      BY <2>1, <2>2, <2>3, <2>4, OnceAside
  <1>2. CASE UnlinkFailed
    <2>1. /\ UNCHANGED <<rows, late, smtp, tx, req>>
          /\ retry.pc = "unlink" /\ retry'.pc = "rewrite" /\ retry.id \in Files
          /\ queue' = [queue EXCEPT ![retry.id].file = "torn"]
          /\ queue[retry.id].msg # m
      BY <1>0, <1>2 DEF UnlinkFailed, TypeOK, apivars, CustodyInv, RetryKnows, Visible
    <2>2. retry.id \in ItemIds /\ queue[retry.id] \in Item
      BY <1>0, <2>1, FileIsItem
    <2>3. /\ queue'[retry.id] = [queue[retry.id] EXCEPT !.file = "torn"]
          /\ \A i \in ItemIds \ {retry.id} : queue'[i] = queue[i]
      BY <1>0, <2>1, <2>2 DEF TypeOK
    <2>4. queue'[retry.id] \in Item /\ queue'[retry.id].msg = queue[retry.id].msg
      BY <2>2, <2>3 DEF Item
    <2>5. Copies(m)' = Copies(m) /\ ~Retrying(m) /\ ~Retrying(m)'
      BY <1>0, <2>1, <2>3, <2>4, ItemFields, CopiesTouched DEF Retrying
    <2> QED
      BY <2>1, <2>5, OnceAside DEF Once
  <1> QED
    BY <1>1, <1>2 DEF RetryFault

\* The API's steps: a commit is the first of its message.
LEMMA OnceApi ==
    ASSUME CustodyInv, TxKnown, NEW m \in Messages, Once(m), ApiStep
    PROVE  Once(m)'
  <1> DEFINE p == <<m, "capture">>
  <1>0. TypeOK /\ Captures(m) \in Nat /\ p \in Payloads
    BY CaptureTyped DEF CustodyInv
  <1>1. ASSUME NEW t \in Threads, ApiCommit(t) \/ ApiRefuse(t) PROVE Once(m)'
    <2>1. /\ UNCHANGED <<late, smtp, tx, retry, queue>>
          /\ req[t] = "sent" /\ req'[t] \in {"committed", "refused"}
          /\ \A u \in Threads \ {t} : req'[u] = req[u]
          /\ rows' = rows \/ (req'[t] = "committed" /\ rows' = [rows EXCEPT ![Posted(t)] = @ + 1])
      BY <1>0, <1>1 DEF ApiCommit, ApiRefuse, TypeOK, apivars
    <2>2. CASE rows' = rows \/ Posted(t) # p
      <3>1. Captures(m)' = Captures(m)
        BY <1>0, <2>1, <2>2 DEF Captures, TypeOK
      <3>2. ASSUME NEW u \in Threads, req'[u] # "committed" PROVE req[u] # "committed"
        BY <2>1, <3>2
      <3> QED
        BY <2>1, <3>1, <3>2, CopiesSame DEF Once, Retrying, Threads
    <2>3. CASE rows' # rows /\ Posted(t) = p
      <3>1. Captures(m)' = Captures(m) + 1 /\ req'[t] = "committed"
        BY <1>0, <2>1, <2>3 DEF Captures, TypeOK
      <3>2. CASE t = "smtp"
        <4>1. smtp.msg = m /\ smtp.pc = "capture"
          BY <2>3, <3>2 DEF Posted
        <4>2. Captures(m) = 0 /\ Copies(m) = {} /\ ~Retrying(m)
          BY <2>1, <3>2, <4>1, RetryingHasCopy DEF Once
        <4>3. tx[m] = "data"
          BY <4>1 DEF TxKnown
        <4> QED
          BY <2>1, <3>1, <3>2, <4>1, <4>2, <4>3, CopiesSame DEF Once, Retrying
      <3>3. CASE t = "retry"
        <4>1. retry.pc = "posting" /\ queue[retry.id].msg = m
          BY <2>1, <2>3, <3>3 DEF Posted, CustodyInv, RetryKnows
        <4>2. Retrying(m) /\ Captures(m) = 0 /\ retry.id \in Copies(m)
          BY <2>1, <3>3, <4>1, RetryingHasCopy DEF Once, Retrying
        <4>3. ~(smtp.msg = m /\ smtp.pc = "rename")
          <5>1. ASSUME smtp.msg = m, smtp.pc = "rename" PROVE smtp.id = retry.id
            BY <4>2, <5>1 DEF CustodyInv, SmtpKnows, Once, Copies
          <5>2. queue[retry.id].file = "json"
            BY <4>1 DEF CustodyInv, RetryKnows
          <5> QED
            BY <5>1, <5>2 DEF CustodyInv, SmtpKnows
        <4> QED
          BY <2>1, <3>1, <3>3, <4>1, <4>2, <4>3, CopiesSame DEF Once, Retrying
      <3> QED
        BY <3>2, <3>3 DEF Threads
    <2> QED
      BY <2>2, <2>3
  <1>2. ASSUME NEW q \in Payloads, LateCommit(q) PROVE Once(m)'
    <2>1. q # p
      BY <1>2 DEF LateCommit, Once
    <2>2. /\ UNCHANGED <<smtp, tx, retry, queue, req>>
          /\ rows'[p] = rows[p] /\ late'[p] = late[p]
      BY <1>0, <1>2, <2>1 DEF LateCommit, TypeOK
    <2> QED
      BY <2>2, CopiesSame DEF Once, Captures, Retrying
  <1> QED
    BY <1>1, <1>2 DEF ApiStep

\* Doubts stay.
LEMMA DoubtStays == [Next]_vars => doubted \subseteq doubted'
  <1> SUFFICES ASSUME [Next]_vars PROVE doubted \subseteq doubted'
    OBVIOUS
  <1>1. ASSUME NEW t \in Threads, GiveUp(t) PROVE doubted \subseteq doubted'
    BY <1>1 DEF GiveUp
  <1>2. CASE SmtpStep
    BY <1>1, <1>2 DEF SmtpStep, CaptureOk, ArfOk, PostFailed, WriteTmp, Rename, Reply, history, Threads
  <1>3. CASE RetryStep
    BY <1>1, <1>3 DEF RetryStep, StartPass, Glob, RetryOk, Unlink, RetryFailed, Rewrite, EndPass,
                      DropInvalid, DropExpired, SkipRecent, RetryPost, history, Threads
  <1>4. CASE ApiStep \/ Tick
    BY <1>4 DEF ApiStep, ApiCommit, ApiRefuse, LateCommit, Tick, history
  <1>5. CASE ReplyLost \/ QueueFailed \/ RetryFault \/ Crash
    BY <1>5 DEF ReplyLost, QueueFailed, RetryFault, UnlinkFailed, ReadFailed, Crash, history
  <1>6. ASSUME NEW m \in Messages, Rcpt(m) \/ Data(m) \/ Defer(m) PROVE doubted \subseteq doubted'
    BY <1>6 DEF Rcpt, Data, Defer, history
  <1>7. CASE UNCHANGED vars
    BY <1>7 DEF vars, history
  <1> QED
    BY <1>2, <1>3, <1>4, <1>5, <1>6, <1>7 DEF Next

\* A crash casts doubt on the messages it catches in the hands of a thread.
LEMMA OnceCrash ==
    ASSUME CustodyInv, TxKnown, NEW m \in Messages, m \notin doubted', Once(m), Crash
    PROVE  Once(m)'
  <1> DEFINE p == <<m, "capture">>
  <1>0. TypeOK /\ Captures(m) \in Nat /\ p \in Payloads
    BY CaptureTyped DEF CustodyInv
  <1>1. /\ tx[m] # "data" /\ ~Retrying(m)
        /\ UNCHANGED <<rows, queue>> /\ smtp'.pc = "idle" /\ retry'.pc = "sleep"
        /\ tx'[m] = tx[m]
        /\ late'[p] = late[p] + (IF req["smtp"] = "sent" /\ Posted("smtp") = p THEN 1 ELSE 0)
                              + (IF req["retry"] = "sent" /\ Posted("retry") = p THEN 1 ELSE 0)
    BY <1>0 DEF Crash, IdleSmtp, AsleepRetry, Retrying
  <1>2. ~(req["smtp"] = "sent" /\ Posted("smtp") = p)
    BY <1>1 DEF Posted, CustodyInv, SmtpKnows, TxKnown, Kinds
  <1>3. ~(req["retry"] = "sent" /\ Posted("retry") = p)
    BY <1>1 DEF Posted, CustodyInv, RetryKnows, Retrying
  <1>4. late'[p] = 0
    BY <1>1, <1>2, <1>3 DEF Once
  <1> QED
    BY <1>1, <1>4, CopiesSame DEF Once, Captures, Retrying

LEMMA OnceStep ==
    ASSUME CustodyInv, TxKnown, OnceInv, [Next]_vars, NEW m \in Messages \ doubted'
    PROVE  Once(m)'
  <1>0. TypeOK /\ Once(m)
    BY DoubtStays DEF CustodyInv, OnceInv
  <1>1. ASSUME NEW n \in Messages, Rcpt(n) \/ Defer(n) PROVE Once(m)'
    <2>1. /\ UNCHANGED <<queue, rows, late, smtp, retry, req>>
          /\ tx'[m] \in {"new", "open"} => tx[m] \in {"new", "open"}
      BY <1>0, <1>1 DEF Rcpt, Defer, TypeOK, apivars
    <2> QED
      BY <1>0, <2>1, OnceSame
  <1>2. ASSUME NEW n \in Messages, Data(n) PROVE Once(m)'
    <2>1. /\ UNCHANGED <<queue, rows, late, retry>> /\ req'["retry"] = req["retry"]
          /\ tx[n] = "open" /\ tx'[n] = "data" /\ smtp'.pc = "capture" /\ smtp'.msg = n
          /\ n # m => tx'[m] = tx[m]
      BY <1>0, <1>2 DEF Data, TypeOK, Threads, apivars
    <2> QED
      BY <1>0, <2>1, CopiesSame DEF Once, Captures, Retrying
  <1>3. CASE ReplyLost \/ QueueFailed
    <2>1. /\ UNCHANGED <<queue, rows, late, retry, req>> /\ smtp'.pc = "idle"
          /\ tx'[m] \in {"new", "open"} => tx[m] \in {"new", "open"}
      <3>1. CASE ReplyLost
        <4>1. smtp.msg # m
          BY <3>1 DEF ReplyLost
        <4> QED
          BY <1>0, <3>1, <4>1 DEF ReplyLost, TypeOK, IdleSmtp, apivars
      <3>2. CASE QueueFailed
        BY <1>0, <3>2 DEF QueueFailed, TypeOK, IdleSmtp, apivars
      <3> QED
        BY <1>3, <3>1, <3>2
    <2> QED
      BY <1>0, <2>1, CopiesSame DEF Once, Captures, Retrying
  <1>4. CASE Tick \/ UNCHANGED vars
    <2>1. UNCHANGED <<queue, rows, late, smtp, tx, retry, req>>
      BY <1>4 DEF Tick, vars, apivars
    <2> QED
      BY <1>0, <2>1, OnceSame
  <1> QED
    BY <1>0, <1>1, <1>2, <1>3, <1>4, OnceSmtp, OnceRetry, OnceRetryFault, OnceApi, OnceCrash
       DEF Next

LEMMA OnceAlways == Spec => []OnceInv
  <1>1. Init => OnceInv
    <2> SUFFICES ASSUME Init, NEW m \in Messages PROVE Once(m)
      BY DEF OnceInv
    <2>1. Files = {} /\ rows[<<m, "capture">>] = 0 /\ late[<<m, "capture">>] = 0
      BY DEF Init, Files, Payloads, Kinds
    <2> QED
      BY <2>1 DEF Init, Once, Copies, Captures, Retrying, IdleSmtp, AsleepRetry
  <1>2. CustodyInv /\ TxKnown /\ OnceInv /\ [Next]_vars => OnceInv'
    BY OnceStep DEF OnceInv
  <1>3. CustodyInv /\ TxKnown /\ [Next]_vars => TxKnown'
    BY TxKnownStep
  <1> QED
    BY <1>1, <1>2, <1>3, TxKnownInit, CustodyAlways, PTL DEF Spec

\* A message is captured at most once unless a POST of it ended in doubt, a 250
\* was lost, its report failed, or its file could not be removed (in the last two
\* the bridge knows it is stored): for any number of messages, files and faults.
THEOREM DuplicatesNeedDoubt == Spec => []DuplicateNeedsDoubt
  <1>1. CustodyInv /\ OnceInv => DuplicateNeedsDoubt
    <2> SUFFICES ASSUME CustodyInv, OnceInv, NEW m \in Messages \ doubted
                 PROVE  /\ rows[<<m, "capture">>] <= 1
                        /\ Stored(m) /\ Queued(m) => retry.pc \in {"posting", "unlink"} /\ queue[retry.id].msg = m
                        /\ tx[m] \in {"new", "open"} => ~Stored(m) /\ ~Queued(m) /\ late[<<m, "capture">>] = 0
      BY DEF DuplicateNeedsDoubt
    <2>1. Once(m) /\ Captures(m) \in Nat
      BY CaptureTyped DEF OnceInv
    <2>2. (Stored(m) => Captures(m) = 1) /\ (Captures(m) = 0 => ~Stored(m))
      BY <2>1 DEF Once, Stored, Captures
    <2>3. Queued(m) => Copies(m) # {}
      BY DEF Queued, Copies, Visible
    <2> QED
      BY <2>1, <2>2, <2>3 DEF Once, Captures, Retrying
  <1> QED
    BY <1>1, CustodyAlways, OnceAlways, PTL
=============================================================================

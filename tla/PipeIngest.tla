----------------------------- MODULE PipeIngest -----------------------------
(***************************************************************************)
(* The pipe script (scripts/postfix_pipe_ingest.py), which Postfix starts  *)
(* for a delivery: it POSTs the message to the API, and for complaint@ a   *)
(* feedback report after it. All that Postfix learns is the exit code. 0   *)
(* ends the delivery; what Postfix does on 1, or when the script is        *)
(* killed, its configuration decides: keep the mail or bounce it.          *)
(*                                                                         *)
(* The API is the commits of the requests, reached only while it is        *)
(* online; a request whose client is gone may still commit.                *)
(***************************************************************************)
EXTENDS Integers

CONSTANTS Messages,
          Complaints,  \* those to complaint@
          Reactions,   \* to a failed delivery: "queued", "bounced"
          MaxFaults    \* bound on lost answers and killed scripts

VARIABLES online,   \* the API can be reached
          mail,     \* Postfix's view: "queued", "running", "delivered", "bounced"
          pipe,     \* the script: "none", or the POST it is at
          post,     \* that POST: "none", "sent", "committed", "failed"
          rows,     \* commits of each payload
          late,     \* requests that outlive their client
          faults,
          doubted   \* history: mail whose script ended without knowing, or
                    \* without telling, that the capture was stored

pvars == <<mail, pipe, post, rows, late, faults, doubted>>
store == <<rows, late>>

Kinds == {"capture", "report"}
Payloads == Messages \X Kinds

PInit ==
    /\ online \in BOOLEAN
    /\ mail = [m \in Messages |-> "queued"]
    /\ pipe = [m \in Messages |-> "none"]
    /\ post = [m \in Messages |-> "none"]
    /\ rows = [p \in Payloads |-> 0]
    /\ late = [p \in Payloads |-> 0]
    /\ faults = 0
    /\ doubted = {}

\* _post_ingest of the payload of kind k.
Posts(m, k) ==
    /\ pipe' = [pipe EXCEPT ![m] = k]
    /\ post' = [post EXCEPT ![m] = IF online THEN "sent" ELSE "failed"]

Exits(m, outcome) ==
    /\ mail' = [mail EXCEPT ![m] = outcome]
    /\ pipe' = [pipe EXCEPT ![m] = "none"]
    /\ post' = [post EXCEPT ![m] = "none"]

\* Postfix starts the script.
Run(m) ==
    /\ mail[m] = "queued"
    /\ Posts(m, "capture")
    /\ mail' = [mail EXCEPT ![m] = "running"]
    /\ UNCHANGED <<store, faults, doubted>>

\* Slip: the script does not wait for the answer.
AnsweredUnread(m) ==
    /\ post[m] \in {"sent", "committed"}
    /\ IF pipe[m] = "capture" /\ m \in Complaints
       THEN Posts(m, "report") /\ UNCHANGED mail
       ELSE Exits(m, "delivered")
    /\ UNCHANGED <<store, faults, doubted>>

\* A status below 400: the script goes on to the report, or exits 0.
Answered(m) ==
    /\ post[m] = "committed"
    /\ IF pipe[m] = "capture" /\ m \in Complaints
       THEN Posts(m, "report") /\ UNCHANGED mail
       ELSE Exits(m, "delivered")
    /\ UNCHANGED <<store, faults, doubted>>

\* Slip: the exit code is that of the last POST.
ReportFailsLoud(m) ==
    /\ pipe[m] = "report"
    /\ post[m] = "failed"
    /\ \E r \in Reactions : Exits(m, r)
    /\ UNCHANGED <<store, faults, doubted>>

\* Slip: the report is tried again until it is taken.
ReportRetried(m) ==
    /\ pipe[m] = "report"
    /\ post[m] = "failed"
    /\ Posts(m, "report")
    /\ UNCHANGED <<mail, store, faults, doubted>>

\* The report is given up with a line on stderr: exit 0.
ReportFails(m) ==
    /\ pipe[m] = "report"
    /\ post[m] = "failed"
    /\ Exits(m, "delivered")
    /\ UNCHANGED <<store, faults, doubted>>

\* Slip: any exit code will do.
CaptureFailsQuietly(m) ==
    /\ pipe[m] = "capture"
    /\ post[m] = "failed"
    /\ \E r \in Reactions \cup {"delivered"} : Exits(m, r)
    /\ UNCHANGED <<store, faults, doubted>>

\* The capture was not taken: exit 1.
CaptureFails(m) ==
    /\ pipe[m] = "capture"
    /\ post[m] = "failed"
    /\ \E r \in Reactions : Exits(m, r)
    /\ UNCHANGED <<store, faults, doubted>>

\* The request m has in progress outlives its client.
Outlives(m) ==
    late' = IF post[m] = "sent" THEN [late EXCEPT ![<<m, pipe[m]>>] = @ + 1] ELSE late

\* The answer is lost, or does not come within the timeout: status 599.
LoseAnswer(m) ==
    /\ post[m] \in {"sent", "committed"}
    /\ faults < MaxFaults
    /\ faults' = faults + 1
    /\ post' = [post EXCEPT ![m] = "failed"]
    /\ Outlives(m)
    /\ doubted' = IF pipe[m] = "capture" THEN doubted \cup {m} ELSE doubted
    /\ UNCHANGED <<mail, pipe, rows>>

\* A signal, Postfix's time limit or an exception ends the script.
Killed(m) ==
    /\ pipe[m] # "none"
    /\ faults < MaxFaults
    /\ faults' = faults + 1
    /\ \E r \in Reactions : Exits(m, r)
    /\ Outlives(m)
    /\ doubted' = doubted \cup {m}
    /\ UNCHANGED rows

(***************************************************************************)
(* The API                                                                 *)
(***************************************************************************)

Commit(m) ==
    /\ post[m] = "sent"
    /\ post' = [post EXCEPT ![m] = "committed"]
    /\ rows' = [rows EXCEPT ![<<m, pipe[m]>>] = @ + 1]
    /\ UNCHANGED <<mail, pipe, late, faults, doubted>>

\* A status of 400 or more, nothing stored.
Refuse(m) ==
    /\ post[m] = "sent"
    /\ post' = [post EXCEPT ![m] = "failed"]
    /\ UNCHANGED <<mail, pipe, store, faults, doubted>>

LateCommit(p) ==
    /\ late[p] > 0
    /\ late' = [late EXCEPT ![p] = @ - 1]
    /\ rows' = [rows EXCEPT ![p] = @ + 1]
    /\ UNCHANGED <<mail, pipe, post, faults, doubted>>

\* The API's process ends: no request goes on, and an answer that was not read
\* yet may be lost.
Broken ==
    /\ \E lost \in SUBSET {m \in Messages : post[m] = "committed"} :
          /\ lost # {} => faults < MaxFaults
          /\ faults' = IF lost = {} THEN faults ELSE faults + 1
          /\ post' = [m \in Messages |-> IF post[m] = "sent" \/ m \in lost THEN "failed" ELSE post[m]]
          /\ doubted' = doubted \cup {m \in lost : pipe[m] = "capture"}
    /\ late' = [p \in Payloads |-> 0]
    /\ UNCHANGED <<mail, pipe, rows>>

Deliver(m) == Run(m) \/ Answered(m) \/ ReportFails(m) \/ CaptureFails(m)

Serve(m) == Commit(m) \/ Refuse(m)

PipeStep ==
    \/ \E m \in Messages : Deliver(m) \/ Serve(m) \/ LoseAnswer(m) \/ Killed(m)
    \/ \E p \in Payloads : LateCommit(p)

PNext ==
    \/ PipeStep /\ UNCHANGED online
    \/ Broken
    \/ UNCHANGED pvars

PSpec == PInit /\ [][PNext]_<<online, pvars>>

(***************************************************************************)
(* Properties                                                              *)
(***************************************************************************)

PTypeOK ==
    /\ mail \in [Messages -> {"queued", "running", "delivered", "bounced"}]
    /\ pipe \in [Messages -> {"none", "capture", "report"}]
    /\ post \in [Messages -> {"none", "sent", "committed", "failed"}]
    /\ rows \in [Payloads -> Nat]
    /\ late \in [Payloads -> Nat]
    /\ faults \in Nat
    /\ doubted \subseteq Messages

\* What Postfix takes for delivered is in the database, and no report is there,
\* or on its way, without the capture.
DeliveredIsStored ==
    \A m \in Messages :
        mail[m] = "delivered" \/ rows[<<m, "report">>] + late[<<m, "report">>] > 0
          => rows[<<m, "capture">>] > 0

\* A message is stored twice, or bounced although it is stored or still may be,
\* only when a script ended in doubt: the report that fails after the capture
\* is no such doubt.
TwiceNeedsDoubt ==
    \A m \in Messages \ doubted :
        /\ \A k \in Kinds : rows[<<m, k>>] <= 1
        /\ mail[m] \in {"queued", "bounced"} =>
              \A k \in Kinds : rows[<<m, k>>] = 0 /\ late[<<m, k>>] = 0
=============================================================================

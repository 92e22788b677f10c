------------------------------ MODULE Recovery ------------------------------
(***************************************************************************)
(* The pipe script next to the watchdog, on the way from the public MX     *)
(* through the tunnel to the API at home. Mail waits in Postfix while the  *)
(* API cannot be reached; the restart that brings the API back ends the    *)
(* requests in progress, whose mail may be stored or not.                  *)
(***************************************************************************)
EXTENDS Watchdog

CONSTANTS Messages, Complaints, Reactions, MaxFaults

ASSUME RecoveryAssumption ==
    /\ Complaints \subseteq Messages
    /\ Reactions \subseteq {"queued", "bounced"}
    /\ MaxFaults \in Nat

VARIABLES mail, pipe, post, rows, late, faults, doubted

Online == api = "up" /\ tunnel = "up"

Pipe == INSTANCE PipeIngest WITH online <- Online

pvars == <<mail, pipe, post, rows, late, faults, doubted>>
vars == <<wvars, pvars>>

Init == WInit /\ Pipe!PInit

\* docker compose kill ends the API's process, a stale proxy does not.
KillApi == Kill /\ Pipe!Broken
ApiGone == ApiFails /\ (Pipe!Broken \/ UNCHANGED pvars)

Watch ==
    \/ KillApi
    \/ /\ \/ Probe \/ Diagnose \/ SkipHeal \/ HealDecided \/ CdFails
          \/ KillFails \/ Up \/ UpFails \/ HealNoted \/ StillDown
       /\ UNCHANGED pvars

Quiet(A) == A /\ UNCHANGED pvars

Next ==
    \/ Watch
    \/ ApiGone
    \/ Quiet(ApiReturns \/ TunnelFails \/ TunnelReturns \/ Minute \/ Cut \/ Fire)
    \/ Pipe!PipeStep /\ UNCHANGED wvars

Spec == Init /\ [][Next]_vars

\* The timer fires, both scripts go on, time passes, the tunnel reconnects and a
\* request that was sent ends, with a commit or a refusal. A restart that is
\* tried again and again works some time.
Fairness ==
    /\ WF_vars(Quiet(Fire))
    /\ WF_vars(Watch)
    /\ WF_vars(Quiet(Minute))
    /\ WF_vars(Quiet(TunnelReturns))
    /\ SF_vars(Quiet(Up))
    /\ \A m \in Messages :
          /\ WF_vars(Pipe!Deliver(m) /\ UNCHANGED wvars)
          /\ WF_vars(Pipe!Serve(m) /\ UNCHANGED wvars)

FairSpec == Spec /\ Fairness

(***************************************************************************)
(* Properties                                                              *)
(***************************************************************************)

\* The watchdog and the pipe each keep what they promise alone.
DeliveredIsStored == Pipe!DeliveredIsStored
TwiceNeedsDoubt == Pipe!TwiceNeedsDoubt

\* How this path implements Delivery: the promise is the exit code as Postfix
\* took it, and the host has no queue, only the table.
Promise == [m \in Messages |->
    CASE mail[m] = "delivered" -> "acked"
      [] mail[m] = "bounced" -> "bounced"
      [] OTHER -> "open"]
Custody == [m \in Messages |-> IF rows[<<m, "capture">>] > 0 THEN "stored" ELSE "none"]

Ideal == INSTANCE Delivery WITH promise <- Promise, custody <- Custody

\* Exit 0 hands a mail over once and for good, and only with its capture stored,
\* through lost answers, killed scripts, late commits and restarts of the API.
PipeImplementsDelivery == Ideal!Spec

\* No mail is stuck: it is delivered or bounced in the end, or its capture
\* reaches the API again and again, which may refuse it every time (a mail over
\* the size limit). Neither an outage nor a feedback report holds a mail up.
MailSettles ==
    \A m \in Messages :
        \/ <>(mail[m] \in {"delivered", "bounced"})
        \/ []<>(pipe[m] = "capture" /\ post[m] = "sent")
=============================================================================

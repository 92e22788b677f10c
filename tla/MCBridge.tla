------------------------------ MODULE MCBridge ------------------------------
(***************************************************************************)
(* TLC instances of Bridge. Time only matters through differences with the *)
(* stamps that are kept, so the clock ticks only while a stamp can still   *)
(* change an outcome: a file not yet older than the retry window, or a cap *)
(* entry not yet out of the rate window.                                   *)
(***************************************************************************)
EXTENDS Bridge, TLC

StampPending ==
    \/ \E id \in Visible : clock - queue[id].created <= MaxRetryWindow
    \/ \E i \in 1..Len(times) : clock - times[i] <= RateWindow

MCTick == StampPending /\ Tick

MCNext ==
    \/ \E m \in Messages : Rcpt(m) \/ Data(m) \/ Defer(m)
    \/ SmtpStep
    \/ RetryStep
    \/ ApiStep
    \/ ReplyLost \/ QueueFailed \/ RetryFault \/ Crash
    \/ MCTick

MCSpec == Init /\ [][MCNext]_vars

MCFairSpec == MCSpec /\ Fairness /\ WF_vars(MCTick)

\* ops/production-mx/README.md: mail to complaint@ gives the "same capture plus
\* a second row", the feedback report. Checked once nothing is pending.
Settled(m) ==
    /\ tx[m] = "acked"
    /\ ~Queued(m)
    /\ \A k \in Kinds : late[<<m, k>>] = 0

ComplaintMakesTwoRows ==
    \A m \in Messages :
        Settled(m) /\ "complaint" \in rcpts[m] /\ m \notin expired
          => rows[<<m, "capture">>] = 1 /\ rows[<<m, "arf">>] = 1

\* The start-up banner: "Retry policy: every ...s, drop after ...s". A message
\* that is queued and never delivered is dropped only after the window, at least
\* by a pass that meets no error (ReadFailed is one).
DroppedOnlyAfterWindow ==
    [][\A id \in Visible :
         queue'[id] = None /\ ~Stored(queue[id].msg) /\ faults' = faults
           => clock - queue[id].created > MaxRetryWindow]_vars

Symmetry == Permutations(Messages) \cup Permutations(ItemIds)

OneCheck == {{"check"}}
OneComplaint == {{"complaint"}}
Mixed == {{"check"}, {"complaint", "bounce"}, {"bounce"}}
=============================================================================

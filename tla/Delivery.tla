------------------------------ MODULE Delivery ------------------------------
(***************************************************************************)
(* What a relay expects of the host it hands mail to. A positive answer    *)
(* moves the responsibility for a message: by then the host holds it, and  *)
(* it keeps holding it until it is stored for good or given up. Nothing    *)
(* here says how; the bridge's threads, files, crashes and retries do, and *)
(* the pipe script's exit codes.                                           *)
(***************************************************************************)
CONSTANT Messages

VARIABLES promise,  \* what the relay was told: "open", "acked", "bounced"
          custody   \* where the host has it: "none", "queued", "stored",
                    \* or "dropped" once it was queued and is no more

Init ==
    /\ promise = [m \in Messages |-> "open"]
    /\ custody = [m \in Messages |-> "none"]

Enqueue(m) ==
    /\ custody[m] \in {"none", "dropped"}
    /\ custody' = [custody EXCEPT ![m] = "queued"]
    /\ UNCHANGED promise

\* A message is stored from anywhere, also late; stored, it stays.
Store(m) ==
    /\ custody' = [custody EXCEPT ![m] = "stored"]
    /\ UNCHANGED promise

Drop(m) ==
    /\ custody[m] = "queued"
    /\ custody' = [custody EXCEPT ![m] = "dropped"]
    /\ UNCHANGED promise

Ack(m) ==
    /\ promise[m] = "open"
    /\ custody[m] # "none"
    /\ promise' = [promise EXCEPT ![m] = "acked"]
    /\ UNCHANGED custody

Bounce(m) ==
    /\ promise[m] = "open"
    /\ promise' = [promise EXCEPT ![m] = "bounced"]
    /\ UNCHANGED custody

Next == \E m \in Messages : Enqueue(m) \/ Store(m) \/ Drop(m) \/ Ack(m) \/ Bounce(m)

Spec == Init /\ [][Next]_<<promise, custody>>
=============================================================================

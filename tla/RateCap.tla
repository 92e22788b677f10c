------------------------------ MODULE RateCap ------------------------------
(***************************************************************************)
(* The bridge-wide flood cap (bridge/bridge.py, _under_global_cap): a      *)
(* deque of accept times, trimmed from the left and refused when full.     *)
(* aiosmtpd runs handle_DATA on one thread, so calls never overlap.        *)
(***************************************************************************)
EXTENDS Integers, Sequences

CONSTANTS RateCapSize,  \* BRIDGE_RATE_CAP
          RateWindow    \* BRIDGE_RATE_WINDOW_SECONDS

ASSUME RateAssumption ==
    /\ RateCapSize \in Nat \ {0}
    /\ RateWindow \in Nat

VARIABLES clock,        \* time.monotonic()
          times,        \* _ingest_times, oldest first
          accepts       \* history: every accept of the running process

capvars == <<clock, times, accepts>>

\* Slip: an accept exactly one window old is forgotten too.
StaleCountAtEdge(q, cutoff) ==
    {k \in 0..Len(q) : /\ \A i \in 1..k : q[i] <= cutoff
                       /\ k < Len(q) => q[k + 1] > cutoff}

\* k pops leave q with a head that is not older than the cutoff.
StaleCount(q, cutoff) ==
    {k \in 0..Len(q) : /\ \A i \in 1..k : q[i] < cutoff
                       /\ k < Len(q) => q[k + 1] >= cutoff}

Trimmed(q, k) == SubSeq(q, k + 1, Len(q))

CapInit ==
    /\ clock = 0
    /\ times = <<>>
    /\ accepts = <<>>

\* _under_global_cap returns True: the accept is recorded.
Admit ==
    /\ \E k \in StaleCount(times, clock - RateWindow) :
          /\ Len(Trimmed(times, k)) < RateCapSize
          /\ times' = Append(Trimmed(times, k), clock)
    /\ accepts' = Append(accepts, clock)
    /\ UNCHANGED clock

\* The call made now would be refused.
CapHit ==
    \E k \in StaleCount(times, clock - RateWindow) :
        Len(Trimmed(times, k)) >= RateCapSize

\* Slip: a refusal is recorded like an accept.
RefuseRecorded ==
    /\ CapHit
    /\ \E k \in StaleCount(times, clock - RateWindow) :
          times' = Append(Trimmed(times, k), clock)
    /\ UNCHANGED <<clock, accepts>>

\* _under_global_cap returns False: only the stale accepts are forgotten.
Refuse ==
    /\ CapHit
    /\ \E k \in StaleCount(times, clock - RateWindow) :
          times' = Trimmed(times, k)
    /\ UNCHANGED <<clock, accepts>>

CapTick ==
    /\ clock' = clock + 1
    /\ UNCHANGED <<times, accepts>>

\* A new process starts with an empty deque.
Restart ==
    /\ times' = <<>>
    /\ accepts' = <<>>
    /\ UNCHANGED clock

CapNext == Admit \/ Refuse \/ CapTick \/ Restart

CapSpec == CapInit /\ [][CapNext]_capvars

(***************************************************************************)
(* Properties                                                              *)
(***************************************************************************)

\* Type invariant: clock readings and recorded accepts are naturals.
CapTypeOK ==
    /\ clock \in Nat
    /\ times \in Seq(Nat)
    /\ accepts \in Seq(Nat)

\* What a flood cap promises: between an accept and the RateCapSize-th accept
\* after it more than a window passes, so no window holds more than
\* RateCapSize accepts of one process.
WindowCap ==
    \A i \in 1..(Len(accepts) - RateCapSize) :
        accepts[i + RateCapSize] - accepts[i] > RateWindow

\* The accepts that have left the deque.
Forgotten == Len(accepts) - Len(times)

\* The deque is the tail of the accepts, and what left it is out of the
\* window for good: with the types, this makes WindowCap inductive.
DequeIsTail ==
    /\ Len(times) <= Len(accepts)
    /\ Len(times) <= RateCapSize
    /\ \A i \in 1..Len(times) : times[i] = accepts[Forgotten + i]
    /\ \A i \in 1..Len(accepts) : accepts[i] <= clock
    /\ \A i, j \in 1..Len(accepts) : i <= j => accepts[i] <= accepts[j]
    /\ \A i \in 1..Forgotten : accepts[i] < clock - RateWindow

\* A sender is told 451 only when RateCapSize accepts really fall in the
\* window that ends now: neither an old accept nor an earlier refusal can
\* cause a refusal ("repeated rejections don't deepen the hole").
RefusalJustified ==
    CapHit => /\ Len(accepts) >= RateCapSize
              /\ \A i \in (Len(accepts) - RateCapSize + 1)..Len(accepts) :
                     clock - accepts[i] <= RateWindow
=============================================================================

--------------------------- MODULE IngestThrottle ---------------------------
(***************************************************************************)
(* The per-IP throttle of POST /ingest (api/ingest_throttle.py): a minimum *)
(* distance between ingests and a cap per UTC day, in the memory of the    *)
(* API process. A request reads the clock for the distance, then again for *)
(* the day; nothing is awaited under the lock, so requests go through the  *)
(* check one by one. The wall clock is taken not to step back.             *)
(***************************************************************************)
EXTENDS Integers, Sequences

CONSTANTS IPs,          \* public clients, by the last X-Forwarded-For entry
          DailyCap,     \* INGEST_DAILY_CAP
          MinInterval,  \* INGEST_MIN_INTERVAL_SECONDS
          Hz,           \* clock ticks per second: timestamps have a fraction
          DayLength,    \* clock ticks per UTC day
          None

ASSUME ThrottleAssumption ==
    /\ DailyCap \in Nat
    /\ MinInterval \in Nat
    /\ Hz \in Nat \ {0}
    /\ DayLength \in Nat \ {0}
    /\ None \notin IPs

VARIABLES clock,    \* wall clock, in ticks since the epoch
          state,    \* _state: per IP the last accept, the day and its count
          caller,   \* the request in enforce_ingest_throttle, and its now
          runs,     \* history: restarts of the API process
          accepts,  \* history: per IP the accepts of every run
          answer    \* history: per IP the last "Please wait" since an accept, in seconds

tvars == <<clock, state, caller, runs, accepts, answer>>

Day(t) == t \div DayLength

\* _IPState(); day -1 is the empty string.
Fresh == [last |-> 0, count |-> 0, day |-> -1]
NoCaller == [ip |-> None, now |-> 0]
NoAnswer == [at |-> 0, wait |-> 0]

TInit ==
    /\ clock \in MinInterval * Hz .. MinInterval * Hz + DayLength
    /\ state = [ip \in IPs |-> Fresh]
    /\ caller = NoCaller
    /\ runs = 0
    /\ accepts = [ip \in IPs |-> <<>>]
    /\ answer = [ip \in IPs |-> NoAnswer]

\* The request reads now; its client is public (an internal one returns here).
Arrive(ip) ==
    /\ caller = NoCaller
    /\ caller' = [ip |-> ip, now |-> clock]
    /\ UNCHANGED <<clock, state, runs, accepts, answer>>

\* Slip: the day is settled when the IP is first seen.
RolledOnce(ip) ==
    IF state[ip].day = -1 THEN [state[ip] EXCEPT !.day = Day(clock)] ELSE state[ip]

\* The caller's state once a new day has reset its count.
Rolled(ip) ==
    IF state[ip].day # Day(clock)
    THEN [state[ip] EXCEPT !.day = Day(clock), !.count = 0]
    ELSE state[ip]

Elapsed(ip) == caller.now - state[ip].last

RefuseDaily(ip) ==
    /\ caller.ip = ip
    /\ Rolled(ip).count >= DailyCap
    /\ state' = [state EXCEPT ![ip] = IF @ = Fresh THEN @ ELSE Rolled(ip)]
    /\ caller' = NoCaller
    /\ UNCHANGED <<clock, runs, accepts, answer>>

\* Slip: the time gone by in place of the time left.
RetryInElapsed(ip) == Elapsed(ip) \div Hz

\* max(1, int(MIN_INTERVAL_SECONDS - elapsed)), in whole seconds.
RetryIn(ip) ==
    LET left == (MinInterval * Hz - Elapsed(ip)) \div Hz
    IN  IF left < 1 THEN 1 ELSE left

RefuseSoon(ip) ==
    /\ caller.ip = ip
    /\ Rolled(ip).count < DailyCap
    /\ Elapsed(ip) < MinInterval * Hz
    /\ state' = [state EXCEPT ![ip] = Rolled(ip)]
    /\ answer' = [answer EXCEPT ![ip] = [at |-> caller.now, wait |-> RetryIn(ip)]]
    /\ caller' = NoCaller
    /\ UNCHANGED <<clock, runs, accepts>>

\* Slip: an interval that is nearly over is rounded to seconds and let through.
AcceptRounded(ip) ==
    /\ caller.ip = ip
    /\ Rolled(ip).count < DailyCap
    /\ Elapsed(ip) \div Hz + 1 >= MinInterval
    /\ state' = [state EXCEPT ![ip] = [Rolled(ip) EXCEPT !.last = caller.now, !.count = @ + 1]]
    /\ accepts' = [accepts EXCEPT ![ip] = Append(@, [at |-> caller.now, day |-> Day(clock), run |-> runs])]
    /\ answer' = [answer EXCEPT ![ip] = NoAnswer]
    /\ caller' = NoCaller
    /\ UNCHANGED <<clock, runs>>

\* Slip: the cap is off by one.
AcceptOneMore(ip) ==
    /\ caller.ip = ip
    /\ Rolled(ip).count <= DailyCap
    /\ Elapsed(ip) >= MinInterval * Hz
    /\ state' = [state EXCEPT ![ip] = [Rolled(ip) EXCEPT !.last = caller.now, !.count = @ + 1]]
    /\ accepts' = [accepts EXCEPT ![ip] = Append(@, [at |-> caller.now, day |-> Day(clock), run |-> runs])]
    /\ answer' = [answer EXCEPT ![ip] = NoAnswer]
    /\ caller' = NoCaller
    /\ UNCHANGED <<clock, runs>>

Accept(ip) ==
    /\ caller.ip = ip
    /\ Rolled(ip).count < DailyCap
    /\ Elapsed(ip) >= MinInterval * Hz
    /\ state' = [state EXCEPT ![ip] = [Rolled(ip) EXCEPT !.last = caller.now, !.count = @ + 1]]
    /\ accepts' = [accepts EXCEPT ![ip] = Append(@, [at |-> caller.now, day |-> Day(clock), run |-> runs])]
    /\ answer' = [answer EXCEPT ![ip] = NoAnswer]
    /\ caller' = NoCaller
    /\ UNCHANGED <<clock, runs>>

TTick ==
    /\ clock' = clock + 1
    /\ UNCHANGED <<state, caller, runs, accepts, answer>>

\* A new process has an empty _state.
TRestart ==
    /\ state' = [ip \in IPs |-> Fresh]
    /\ caller' = NoCaller
    /\ runs' = runs + 1
    /\ UNCHANGED <<clock, accepts, answer>>

TNext ==
    \/ \E ip \in IPs : Arrive(ip) \/ RefuseDaily(ip) \/ RefuseSoon(ip) \/ Accept(ip)
    \/ TTick
    \/ TRestart

TSpec == TInit /\ [][TNext]_tvars

(***************************************************************************)
(* Properties                                                              *)
(***************************************************************************)

AcceptRecord == [at : Nat, day : Nat, run : Nat]

\* Type invariant.
TTypeOK ==
    /\ clock \in Nat
    /\ state \in [IPs -> [last : Nat, count : 0..DailyCap, day : Nat \cup {-1}]]
    /\ caller \in [ip : IPs \cup {None}, now : 0..clock]
    /\ runs \in Nat
    /\ accepts \in [IPs -> Seq(AcceptRecord)]
    /\ answer \in [IPs -> [at : Nat, wait : Nat]]

\* No client gets more than DailyCap ingests of one process in a UTC day, even
\* when midnight falls between the two clock readings of a request.
DailyCapKept ==
    \A ip \in IPs : \A i \in 1..Len(accepts[ip]) - DailyCap :
        accepts[ip][i].run = accepts[ip][i + DailyCap].run
          => accepts[ip][i].day < accepts[ip][i + DailyCap].day

\* Two ingests of one client are MinInterval apart, across midnight too.
SpacingKept ==
    \A ip \in IPs : \A i \in 1..Len(accepts[ip]) - 1 :
        accepts[ip][i].run = accepts[ip][i + 1].run
          => accepts[ip][i + 1].at - accepts[ip][i].at >= MinInterval * Hz

\* The accepts a refusal of ip would be based on.
Counted(ip) ==
    {i \in 1..Len(accepts[ip]) : /\ accepts[ip][i].run = runs
                                 /\ accepts[ip][i].day = Day(clock)}

\* A 429 has a cause of its own client's making: DailyCap accepts today, or an
\* accept less than the interval ago. Earlier refusals, other clients and
\* yesterday's accepts never cause one.
RefusalsFair ==
    \A ip \in IPs :
        caller.ip = ip =>
            /\ Rolled(ip).count >= DailyCap =>
                  /\ Len(accepts[ip]) >= DailyCap
                  /\ (Len(accepts[ip]) - DailyCap + 1)..Len(accepts[ip]) \subseteq Counted(ip)
            /\ Elapsed(ip) < MinInterval * Hz =>
                  /\ accepts[ip] # <<>>
                  /\ accepts[ip][Len(accepts[ip])].run = runs
                  /\ caller.now - accepts[ip][Len(accepts[ip])].at < MinInterval * Hz

\* A client that was told to wait, has had no accept since, and comes back
\* extra seconds after the time it was given, is not told to wait again.
WaitEnough(extra) ==
    \A ip \in IPs :
        /\ caller.ip = ip
        /\ answer[ip] # NoAnswer
        /\ caller.now >= answer[ip].at + (answer[ip].wait + extra) * Hz
        => Elapsed(ip) >= MinInterval * Hz

\* The hint is a second short at most: fractions of a second are cut off.
RetryHintNearly == WaitEnough(1)

\* The answer's text, "Please wait ...s", and its Retry-After header: a client
\* that obeys them is not told to wait again.
RetryHintSuffices == WaitEnough(0)
=============================================================================

------------------------- MODULE IngestThrottleProofs -------------------------
(***************************************************************************)
(* Proofs about IngestThrottle, for any clients, any cap, any interval and *)
(* any division of the clock into seconds and days.                        *)
(***************************************************************************)
EXTENDS IngestThrottle, TLAPS

USE ThrottleAssumption

(***************************************************************************)
(* The arithmetic of days and intervals                                    *)
(***************************************************************************)

Interval == MinInterval * Hz

LEMMA IntervalNat == Interval \in Nat
BY DEF Interval

LEMMA DayNat == \A t \in Nat : Day(t) \in Nat
BY DEF Day

\* Days only go on.
LEMMA DayMonotonic == \A t, u \in Nat : t <= u => Day(t) <= Day(u)
BY DEF Day

(***************************************************************************)
(* Type correctness                                                        *)
(***************************************************************************)

StateRecord == [last : Nat, count : 0..DailyCap, day : Nat \cup {-1}]

LEMMA RolledTyped ==
    ASSUME TTypeOK, NEW ip \in IPs
    PROVE  /\ state[ip] \in StateRecord
           /\ Rolled(ip) \in StateRecord
           /\ Rolled(ip).day = Day(clock)
           /\ Rolled(ip).last = state[ip].last
           /\ Rolled(ip).count = IF state[ip].day # Day(clock) THEN 0 ELSE state[ip].count
<1>1. state[ip] \in StateRecord /\ Day(clock) \in Nat
  BY DayNat DEF TTypeOK, StateRecord
<1>2. CASE state[ip].day = Day(clock)
  BY <1>1, <1>2 DEF Rolled, StateRecord
<1>3. CASE state[ip].day # Day(clock)
  <2>1. Rolled(ip) = [last |-> state[ip].last, count |-> 0, day |-> Day(clock)]
    BY <1>1, <1>3 DEF Rolled, StateRecord
  <2>2. QED
    BY <1>1, <1>3, <2>1 DEF StateRecord
<1>4. QED
  BY <1>2, <1>3

\* The history an accept of ip leaves.
Accepted(ip) == [at |-> caller.now, day |-> Day(clock), run |-> runs]

LEMMA AcceptedTyped ==
    ASSUME TTypeOK, NEW ip \in IPs, Accept(ip)
    PROVE  /\ Accepted(ip) \in AcceptRecord
           /\ accepts[ip] \in Seq(AcceptRecord)
           /\ accepts' = [accepts EXCEPT ![ip] = Append(@, Accepted(ip))]
           /\ state'[ip] \in StateRecord
           /\ state'[ip].count = Rolled(ip).count + 1
           /\ state'[ip].day = Day(clock)
           /\ state'[ip].last = caller.now
           /\ \A other \in IPs \ {ip} : state'[other] = state[other]
<1>1. /\ Rolled(ip) \in StateRecord /\ Rolled(ip).day = Day(clock)
      /\ Rolled(ip).count < DailyCap /\ caller.now \in Nat /\ clock \in Nat
  BY SMTT(30), RolledTyped DEF Accept, TTypeOK
<1>2. state' = [state EXCEPT ![ip] = [Rolled(ip) EXCEPT !.last = caller.now, !.count = @ + 1]]
  BY DEF Accept
<1>3. [Rolled(ip) EXCEPT !.last = caller.now, !.count = @ + 1]
        = [last |-> caller.now, count |-> Rolled(ip).count + 1, day |-> Day(clock)]
  <2>1. ASSUME NEW r \in StateRecord, NEW now
        PROVE  [r EXCEPT !.last = now, !.count = @ + 1]
                  = [last |-> now, count |-> r.count + 1, day |-> r.day]
    <3>1. PICK l \in Nat, c \in 0..DailyCap, d \in Nat \cup {-1} :
              r = [last |-> l, count |-> c, day |-> d]
      BY DEF StateRecord
    <3>2. [r EXCEPT !.last = now] = [last |-> now, count |-> c, day |-> d]
      BY <3>1
    <3>3. [r EXCEPT !.last = now, !.count = r.count + 1] = [[r EXCEPT !.last = now] EXCEPT !.count = r.count + 1]
      OBVIOUS
    <3>4. [[last |-> now, count |-> c, day |-> d] EXCEPT !.count = r.count + 1]
            = [last |-> now, count |-> r.count + 1, day |-> d]
      OBVIOUS
    <3>5. r.day = d
      BY <3>1
    <3>6. QED
      BY <3>2, <3>3, <3>4, <3>5
  <2>2. QED
    BY <1>1, <2>1
<1>4. state'[ip] = [last |-> caller.now, count |-> Rolled(ip).count + 1, day |-> Day(clock)]
  BY <1>2, <1>3 DEF TTypeOK
<1>5. Rolled(ip).count + 1 \in 0..DailyCap /\ Day(clock) \in Nat
  BY <1>1, DayNat DEF StateRecord
<1>6. Accepted(ip) \in AcceptRecord
  BY <1>1, <1>5 DEF Accepted, AcceptRecord, TTypeOK
<1>7. QED
  BY <1>1, <1>2, <1>4, <1>5, <1>6 DEF Accept, Accepted, TTypeOK, StateRecord

LEMMA RetryInNat ==
    ASSUME TTypeOK, NEW ip \in IPs
    PROVE  RetryIn(ip) \in Nat
<1>1. (Interval - Elapsed(ip)) \div Hz \in Int
  BY IntervalNat DEF Elapsed, TTypeOK, StateRecord
<1>2. QED
  BY <1>1 DEF RetryIn, Interval

\* Type correctness of the throttle: in particular the count of a client never
\* leaves 0..DailyCap.
THEOREM ThrottleTypeCorrect == TSpec => []TTypeOK
<1>1. TInit => TTypeOK
  BY IntervalNat DEF TInit, TTypeOK, Fresh, NoCaller, NoAnswer, Interval
<1>2. TTypeOK /\ [TNext]_tvars => TTypeOK'
  <2> SUFFICES ASSUME TTypeOK, [TNext]_tvars PROVE TTypeOK'
    OBVIOUS
  <2>1. ASSUME NEW ip \in IPs, Arrive(ip) PROVE TTypeOK'
    BY <2>1 DEF Arrive, TTypeOK
  <2>2. ASSUME NEW ip \in IPs, RefuseDaily(ip) PROVE TTypeOK'
    <3>1. state' \in [IPs -> StateRecord]
      BY <2>2, RolledTyped DEF RefuseDaily, TTypeOK, StateRecord
    <3>2. caller' \in [ip : IPs \cup {None}, now : 0..clock]
      BY <2>2 DEF RefuseDaily, NoCaller, TTypeOK
    <3>3. QED
      BY <2>2, <3>1, <3>2 DEF RefuseDaily, TTypeOK, StateRecord
  <2>3. ASSUME NEW ip \in IPs, RefuseSoon(ip) PROVE TTypeOK'
    <3>1. state' \in [IPs -> StateRecord]
      BY <2>3, RolledTyped DEF RefuseSoon, TTypeOK, StateRecord
    <3>2. caller' \in [ip : IPs \cup {None}, now : 0..clock]
      BY <2>3 DEF RefuseSoon, NoCaller, TTypeOK
    <3>3. answer' \in [IPs -> [at : Nat, wait : Nat]]
      BY <2>3, RetryInNat DEF RefuseSoon, TTypeOK
    <3>4. QED
      BY <2>3, <3>1, <3>2, <3>3 DEF RefuseSoon, TTypeOK, StateRecord
  <2>4. ASSUME NEW ip \in IPs, Accept(ip) PROVE TTypeOK'
    <3>1. state' \in [IPs -> StateRecord]
      BY ZenonT(60), <2>4, AcceptedTyped DEF Accept, TTypeOK, StateRecord
    <3>2. accepts' \in [IPs -> Seq(AcceptRecord)]
      <4>1. Append(accepts[ip], Accepted(ip)) \in Seq(AcceptRecord)
        BY <2>4, AcceptedTyped
      <4>2. /\ accepts \in [IPs -> Seq(AcceptRecord)]
            /\ accepts' = [accepts EXCEPT ![ip] = Append(accepts[ip], Accepted(ip))]
        BY <2>4, AcceptedTyped DEF TTypeOK
      <4>3. QED
        BY <4>1, <4>2
    <3>3. caller' \in [ip : IPs \cup {None}, now : 0..clock]
      BY <2>4 DEF Accept, NoCaller, TTypeOK
    <3>4. answer' \in [IPs -> [at : Nat, wait : Nat]]
      BY <2>4 DEF Accept, NoAnswer, TTypeOK
    <3>5. QED
      BY <2>4, <3>1, <3>2, <3>3, <3>4 DEF Accept, TTypeOK, StateRecord
  <2>5. CASE TTick
    BY <2>5 DEF TTick, TTypeOK
  <2>6. CASE TRestart
    BY <2>6 DEF TRestart, TTypeOK, Fresh, NoCaller
  <2>7. CASE UNCHANGED tvars
    BY <2>7 DEF tvars, TTypeOK
  <2>8. QED
    BY <2>1, <2>2, <2>3, <2>4, <2>5, <2>6, <2>7 DEF TNext
<1>3. QED
  BY <1>1, <1>2, PTL DEF TSpec

(***************************************************************************)
(* The inductive invariant                                                 *)
(***************************************************************************)

\* st is what the accepts a have left: its count is that of the last accepts
\* of this run, all on its day, the ones before them on earlier days, and
\* its last request is the last of them.
Backed(a, st) ==
    /\ st.count <= Len(a)
    /\ \A j \in Len(a) - st.count + 1..Len(a) : a[j].run = runs /\ a[j].day = st.day
    /\ \A j \in 1..Len(a) - st.count : a[j].run = runs => a[j].day < st.day
    /\ Len(a) > 0 /\ a[Len(a)].run = runs => st.last = a[Len(a)].at
    /\ Len(a) = 0 \/ a[Len(a)].run # runs => st.last = 0

ThrottleInv ==
    /\ \A ip \in IPs :
          /\ Backed(accepts[ip], state[ip])
          /\ state[ip].day <= Day(clock)
          /\ \A j \in 1..Len(accepts[ip]) : accepts[ip][j].run <= runs
    /\ clock >= Interval
    /\ caller.ip # None => caller.now >= Interval
    /\ DailyCapKept
    /\ SpacingKept

\* A new day resets the count, and every accept there was is of an earlier day.
LEMMA RolledBacked ==
    ASSUME TTypeOK, ThrottleInv, NEW ip \in IPs
    PROVE  Backed(accepts[ip], Rolled(ip))
<1>1. /\ state[ip] \in StateRecord /\ accepts[ip] \in Seq(AcceptRecord) /\ Len(accepts[ip]) \in Nat
      /\ Backed(accepts[ip], state[ip]) /\ state[ip].day <= Day(clock) /\ Day(clock) \in Nat
  BY DayNat DEF TTypeOK, ThrottleInv, StateRecord
<1>2. CASE state[ip].day = Day(clock)
  BY <1>1, <1>2 DEF Rolled
<1>3. CASE state[ip].day # Day(clock)
  <2>1. /\ Rolled(ip).count = 0 /\ Rolled(ip).day = Day(clock) /\ Rolled(ip).last = state[ip].last
        /\ state[ip].day < Day(clock)
    BY <1>1, <1>3, RolledTyped DEF StateRecord
  <2>2. \A j \in 1..Len(accepts[ip]) :
            accepts[ip][j].run = runs => accepts[ip][j].day < Day(clock)
    <3> SUFFICES ASSUME NEW j \in 1..Len(accepts[ip]), accepts[ip][j].run = runs
                 PROVE  accepts[ip][j].day < Day(clock)
      OBVIOUS
    <3>1. accepts[ip][j] \in AcceptRecord /\ state[ip].count \in Nat
      BY <1>1 DEF StateRecord
    <3>2. CASE j \in Len(accepts[ip]) - state[ip].count + 1..Len(accepts[ip])
      BY <3>2, <1>1, <2>1 DEF Backed
    <3>3. CASE j \in 1..Len(accepts[ip]) - state[ip].count
      <4>1. accepts[ip][j].day < state[ip].day
        BY <3>3, <1>1 DEF Backed
      <4>2. accepts[ip][j].day \in Int /\ state[ip].day \in Int
        <5>1. accepts[ip][j].day \in Int
          BY <3>1 DEF AcceptRecord
        <5>2. state[ip].day \in Int
          BY <1>1 DEF StateRecord
        <5>3. QED
          BY <5>1, <5>2
      <4>3. QED
        BY <4>1, <4>2, <2>1, <1>1
    <3>4. QED
      BY <3>1, <3>2, <3>3, <1>1
  <2>3. QED
    BY <1>1, <2>1, <2>2 DEF Backed
<1>4. QED
  BY <1>2, <1>3

\* A step that accepts nothing may roll a count over to a new day, no more.
LEMMA NothingAccepted ==
    ASSUME TTypeOK, ThrottleInv, clock' \in Nat, clock <= clock', UNCHANGED <<runs, accepts>>,
           caller'.ip # None => caller'.now >= Interval,
           \A ip \in IPs : state'[ip] \in {state[ip], Rolled(ip)}
    PROVE  ThrottleInv'
<1>1. ASSUME NEW ip \in IPs
      PROVE  Backed(accepts[ip], state[ip])' /\ state'[ip].day <= Day(clock')
  <2>1. Backed(accepts[ip], state[ip]) /\ Backed(accepts[ip], Rolled(ip))
    BY RolledBacked DEF ThrottleInv
  <2>2. Backed(accepts[ip], state'[ip])
    BY <2>1
  <2>3. state[ip].day <= Day(clock) /\ Rolled(ip).day = Day(clock) /\ Day(clock) <= Day(clock')
    BY RolledTyped, DayMonotonic DEF ThrottleInv, TTypeOK
  <2>4. Day(clock) \in Int /\ Day(clock') \in Int /\ state[ip].day \in Int
    <3>1. state[ip] \in StateRecord
      BY RolledTyped
    <3>2. state[ip].day \in Int
      BY <3>1 DEF StateRecord
    <3>3. QED
      BY <3>2, DayNat DEF TTypeOK
  <2>5. QED
    BY <2>2, <2>3, <2>4 DEF Backed
<1>2. clock' >= Interval
  BY IntervalNat DEF ThrottleInv, TTypeOK
<1>3. DailyCapKept' /\ SpacingKept'
  BY DEF ThrottleInv, DailyCapKept, SpacingKept
<1>4. QED
  BY <1>1, <1>2, <1>3 DEF ThrottleInv

\* An accept is the newest of its client, on a later day than the one DailyCap
\* accepts back and Interval after the last.
LEMMA OneAccepted ==
    ASSUME TTypeOK, ThrottleInv, NEW ip \in IPs, Accept(ip)
    PROVE  ThrottleInv'
<1> DEFINE a == accepts[ip]
           n == Len(a)
           c == Rolled(ip).count
<1>1. /\ a \in Seq(AcceptRecord) /\ n \in Nat /\ c \in 0..DailyCap /\ c < DailyCap
      /\ clock \in Nat /\ caller.now \in Nat /\ runs \in Nat /\ Day(clock) \in Nat
      /\ caller.ip = ip /\ caller.now - state[ip].last >= Interval
      /\ state[ip].last \in Nat
  <2>1. a \in Seq(AcceptRecord) /\ n \in Nat /\ clock \in Nat /\ runs \in Nat
    BY DEF TTypeOK, AcceptRecord
  <2>2. Rolled(ip) \in StateRecord /\ state[ip] \in StateRecord
    BY RolledTyped
  <2>3. c \in 0..DailyCap /\ state[ip].last \in Nat
    BY <2>2 DEF StateRecord
  <2>4. c < DailyCap /\ caller.ip = ip /\ caller.now - state[ip].last >= Interval /\ caller.now \in Nat
    BY DEF Accept, Elapsed, Interval, TTypeOK
  <2>5. QED
    BY <2>1, <2>3, <2>4, DayNat
<1>2. /\ c <= n
      /\ \A j \in n - c + 1..n : a[j].run = runs /\ a[j].day = Day(clock)
      /\ \A j \in 1..n - c : a[j].run = runs => a[j].day < Day(clock)
      /\ n > 0 /\ a[n].run = runs => state[ip].last = a[n].at
  BY RolledBacked, RolledTyped DEF Backed
<1>3. /\ accepts'[ip] = Append(a, Accepted(ip))
      /\ \A other \in IPs \ {ip} : accepts'[other] = accepts[other] /\ state'[other] = state[other]
      /\ state'[ip].count = c + 1 /\ state'[ip].day = Day(clock) /\ state'[ip].last = caller.now
      /\ runs' = runs /\ clock' = clock /\ caller' = NoCaller
  BY ZenonT(60), AcceptedTyped DEF TTypeOK, Accept
<1>4. /\ Len(accepts'[ip]) = n + 1
      /\ \A j \in 1..n : accepts'[ip][j] = a[j]
      /\ accepts'[ip][n + 1] = Accepted(ip)
  BY <1>1, <1>3
<1>5. Accepted(ip).at = caller.now /\ Accepted(ip).day = Day(clock) /\ Accepted(ip).run = runs
  BY DEF Accepted
<1> HIDE DEF a, n, c
<1>6. Backed(accepts[ip], state[ip])'
  <2>1. state'[ip].count <= Len(accepts'[ip])
    BY <1>1, <1>2, <1>3, <1>4
  <2>2. \A j \in n - c + 1..n + 1 : accepts'[ip][j].run = runs /\ accepts'[ip][j].day = Day(clock)
    <3> SUFFICES ASSUME NEW j \in n - c + 1..n + 1
                 PROVE  accepts'[ip][j].run = runs /\ accepts'[ip][j].day = Day(clock)
      OBVIOUS
    <3>1. CASE j = n + 1
      BY <3>1, <1>4, <1>5
    <3>2. CASE j # n + 1
      <4>1. j \in n - c + 1..n /\ j \in 1..n
        BY SMTT(30), <3>2, <1>1, <1>2
      <4>2. QED
        BY <4>1, <1>2, <1>4
    <3>3. QED
      BY <3>1, <3>2
  <2>3. \A j \in 1..n - c : accepts'[ip][j].run = runs => accepts'[ip][j].day < Day(clock)
    <3> SUFFICES ASSUME NEW j \in 1..n - c, accepts'[ip][j].run = runs
                 PROVE  accepts'[ip][j].day < Day(clock)
      OBVIOUS
    <3>1. j \in 1..n
      BY <1>1
    <3>2. QED
      BY <3>1, <1>2, <1>4
  <2>4. n + 1 - (c + 1) = n - c
    BY <1>1
  <2>5. QED
    BY <2>1, <2>2, <2>3, <2>4, <1>1, <1>3, <1>4, <1>5 DEF Backed
<1>7. ASSUME NEW other \in IPs \ {ip}
      PROVE  /\ Backed(accepts[other], state[other])'
             /\ state'[other].day <= Day(clock')
             /\ \A j \in 1..Len(accepts'[other]) : accepts'[other][j].run <= runs'
  BY SMTT(30), <1>3 DEF ThrottleInv, Backed
<1>8. \A j \in 1..n + 1 : accepts'[ip][j].run <= runs
  BY SMTT(30), <1>1, <1>4, <1>5 DEF ThrottleInv, a, n
<1>9. DailyCapKept'
  <2> SUFFICES ASSUME NEW j \in 1..n + 1 - DailyCap,
                      accepts'[ip][j].run = accepts'[ip][j + DailyCap].run
               PROVE  accepts'[ip][j].day < accepts'[ip][j + DailyCap].day
    <3> SUFFICES ASSUME NEW one \in IPs, NEW j \in 1..Len(accepts'[one]) - DailyCap,
                        accepts'[one][j].run = accepts'[one][j + DailyCap].run
                 PROVE  accepts'[one][j].day < accepts'[one][j + DailyCap].day
      BY DEF DailyCapKept
    <3>1. CASE one = ip
      <4>1. j \in 1..n + 1 - DailyCap
        BY <3>1, <1>1, <1>4
      <4>2. QED
        BY <3>1, <4>1
    <3>2. CASE one # ip
      <4>1. accepts'[one] = accepts[one] /\ j \in 1..Len(accepts[one]) - DailyCap
        BY <3>2, <1>3
      <4>2. QED
        BY <4>1 DEF ThrottleInv, DailyCapKept
    <3>3. QED
      BY <3>1, <3>2
  <2>1. CASE j + DailyCap = n + 1
    <3>1. j \in 1..n - c /\ j \in 1..n
      BY <2>1, <1>1
    <3>2. QED
      BY <2>1, <3>1, <1>2, <1>4, <1>5
  <2>2. CASE j + DailyCap # n + 1
    <3>0. j \in Int /\ 1 <= j /\ DailyCap \in Int /\ 1 <= DailyCap /\ n \in Int
      BY <1>1
    <3>1. j + DailyCap <= n
      BY <3>0, <2>2
    <3>2. j \in 1..n - DailyCap
      BY <3>0, <3>1
    <3>3. j \in 1..n /\ j + DailyCap \in 1..n
      BY <3>0, <3>1
    <3>4. QED
      BY <3>2, <3>3, <1>4 DEF ThrottleInv, DailyCapKept, a, n
  <2>3. QED
    BY <2>1, <2>2
<1>10. SpacingKept'
  <2> SUFFICES ASSUME NEW j \in 1..n, accepts'[ip][j].run = accepts'[ip][j + 1].run
               PROVE  accepts'[ip][j + 1].at - accepts'[ip][j].at >= Interval
    <3> SUFFICES ASSUME NEW one \in IPs, NEW j \in 1..Len(accepts'[one]) - 1,
                        accepts'[one][j].run = accepts'[one][j + 1].run
                 PROVE  accepts'[one][j + 1].at - accepts'[one][j].at >= Interval
      BY DEF SpacingKept, Interval
    <3>1. CASE one = ip
      <4>1. j \in 1..n
        BY <3>1, <1>1, <1>4
      <4>2. QED
        BY <3>1, <4>1
    <3>2. CASE one # ip
      BY <3>2, <1>3 DEF ThrottleInv, SpacingKept, Interval
    <3>3. QED
      BY <3>1, <3>2
  <2>1. CASE j = n
    BY <2>1, <1>1, <1>2, <1>4, <1>5
  <2>2. CASE j # n
    <3>1. j \in 1..n - 1 /\ j + 1 \in 1..n
      BY <2>2, <1>1
    <3>2. QED
      BY <3>1, <1>4 DEF ThrottleInv, SpacingKept, Interval, a, n
  <2>3. QED
    BY <2>1, <2>2
<1>11. state'[ip].day <= Day(clock')
  BY <1>1, <1>3
<1>12. QED
  BY <1>3, <1>4, <1>6, <1>7, <1>8, <1>9, <1>10, <1>11 DEF ThrottleInv, NoCaller

\* A new process knows nothing, and no accept is of its run.
LEMMA Restarted ==
    ASSUME TTypeOK, ThrottleInv, TRestart
    PROVE  ThrottleInv'
<1>1. ASSUME NEW ip \in IPs
      PROVE  /\ Backed(accepts[ip], state[ip])'
             /\ state'[ip].day <= Day(clock')
             /\ \A j \in 1..Len(accepts'[ip]) : accepts'[ip][j].run <= runs'
  <2>1. /\ accepts[ip] \in Seq(AcceptRecord) /\ Len(accepts[ip]) \in Nat
        /\ accepts' = accepts /\ runs' = runs + 1 /\ runs \in Nat /\ clock' = clock
        /\ state'[ip].count = 0 /\ state'[ip].last = 0 /\ state'[ip].day = -1
        /\ Day(clock) \in Nat
    BY DayNat DEF TTypeOK, TRestart, Fresh
  <2>2. \A j \in 1..Len(accepts[ip]) :
            /\ accepts[ip][j].run \in Nat
            /\ accepts[ip][j].run <= runs
    <3> SUFFICES ASSUME NEW j \in 1..Len(accepts[ip])
                 PROVE  accepts[ip][j].run \in Nat /\ accepts[ip][j].run <= runs
      OBVIOUS
    <3>1. accepts[ip][j] \in AcceptRecord
      BY <2>1
    <3>2. accepts[ip][j].run \in Nat
      BY <3>1 DEF AcceptRecord
    <3>3. QED
      BY <3>2 DEF ThrottleInv
  <2>3. QED
    BY <2>1, <2>2 DEF Backed
<1>2. DailyCapKept' /\ SpacingKept' /\ clock' >= Interval /\ caller'.ip = None
  BY DEF ThrottleInv, DailyCapKept, SpacingKept, TRestart, NoCaller
<1>3. QED
  BY <1>1, <1>2 DEF ThrottleInv

LEMMA ThrottleInvariant == TSpec => []ThrottleInv
<1>1. TInit => ThrottleInv
  <2> SUFFICES ASSUME TInit PROVE ThrottleInv
    OBVIOUS
  <2>1. clock \in Nat /\ clock >= Interval /\ caller.ip = None
    BY IntervalNat DEF TInit, NoCaller, Interval
  <2>2. Day(clock) \in Nat
    BY <2>1, DayNat
  <2>3. \A ip \in IPs : /\ Len(accepts[ip]) = 0
                         /\ state[ip].count = 0 /\ state[ip].last = 0 /\ state[ip].day = -1
    BY DEF TInit, Fresh
  <2>4. \A ip \in IPs : Backed(accepts[ip], state[ip]) /\ state[ip].day <= Day(clock)
    <3> SUFFICES ASSUME NEW ip \in IPs
                 PROVE  Backed(accepts[ip], state[ip]) /\ state[ip].day <= Day(clock)
      OBVIOUS
    <3>1. state[ip].day <= Day(clock)
      BY <2>2, <2>3
    <3>2. Len(accepts[ip]) = 0 /\ state[ip].count = 0 /\ state[ip].last = 0
      BY <2>3
    <3>3. QED
      BY <3>1, <3>2 DEF Backed
  <2>5. DailyCapKept /\ SpacingKept
    BY <2>3 DEF DailyCapKept, SpacingKept
  <2>6. QED
    BY <2>1, <2>3, <2>4, <2>5 DEF ThrottleInv
<1>2. TTypeOK /\ ThrottleInv /\ [TNext]_tvars => ThrottleInv'
  <2> SUFFICES ASSUME TTypeOK, ThrottleInv, [TNext]_tvars PROVE ThrottleInv'
    OBVIOUS
  <2>a. clock \in Nat
    BY DEF TTypeOK
  <2>1. ASSUME NEW ip \in IPs, Arrive(ip) PROVE ThrottleInv'
    BY <2>1, <2>a, NothingAccepted DEF Arrive, ThrottleInv
  <2>2. ASSUME NEW ip \in IPs, RefuseDaily(ip) \/ RefuseSoon(ip) PROVE ThrottleInv'
    <3>1. \A other \in IPs : state'[other] \in {state[other], Rolled(other)}
      BY <2>2 DEF RefuseDaily, RefuseSoon, TTypeOK
    <3>2. QED
      BY <2>2, <2>a, <3>1, NothingAccepted DEF RefuseDaily, RefuseSoon, NoCaller
  <2>3. ASSUME NEW ip \in IPs, Accept(ip) PROVE ThrottleInv'
    BY <2>3, OneAccepted
  <2>4. CASE TTick
    BY <2>4, <2>a, NothingAccepted DEF TTick, ThrottleInv
  <2>5. CASE TRestart
    BY <2>5, Restarted
  <2>6. CASE UNCHANGED tvars
    BY <2>6, <2>a, NothingAccepted DEF tvars, ThrottleInv
  <2>7. QED
    BY <2>1, <2>2, <2>3, <2>4, <2>5, <2>6 DEF TNext
<1>3. QED
  BY <1>1, <1>2, ThrottleTypeCorrect, PTL DEF TSpec

(***************************************************************************)
(* The theorems                                                            *)
(***************************************************************************)

\* One process lets no client ingest more than DailyCap times in a UTC day.
THEOREM DailyCapHolds == TSpec => []DailyCapKept
<1>1. ThrottleInv => DailyCapKept
  BY DEF ThrottleInv
<1>2. QED
  BY <1>1, ThrottleInvariant, PTL

\* Two ingests of a client that one process lets through are an interval apart.
THEOREM SpacingHolds == TSpec => []SpacingKept
<1>1. ThrottleInv => SpacingKept
  BY DEF ThrottleInv
<1>2. QED
  BY <1>1, ThrottleInvariant, PTL

\* A 429 always has a cause among the client's own accepts of this process.
THEOREM RefusalsAreFair == TSpec => []RefusalsFair
<1>1. TTypeOK /\ ThrottleInv => RefusalsFair
  <2> SUFFICES ASSUME TTypeOK, ThrottleInv, NEW ip \in IPs, caller.ip = ip
               PROVE  /\ Rolled(ip).count >= DailyCap =>
                            /\ Len(accepts[ip]) >= DailyCap
                            /\ (Len(accepts[ip]) - DailyCap + 1)..Len(accepts[ip]) \subseteq Counted(ip)
                      /\ Elapsed(ip) < MinInterval * Hz =>
                            /\ accepts[ip] # <<>>
                            /\ accepts[ip][Len(accepts[ip])].run = runs
                            /\ caller.now - accepts[ip][Len(accepts[ip])].at < MinInterval * Hz
    BY DEF RefusalsFair
  <2>1. /\ accepts[ip] \in Seq(AcceptRecord) /\ Len(accepts[ip]) \in Nat
        /\ Backed(accepts[ip], Rolled(ip)) /\ Rolled(ip).day = Day(clock)
        /\ Rolled(ip).last = state[ip].last /\ Rolled(ip).count \in 0..DailyCap
        /\ caller.now \in Nat /\ caller.now >= Interval
    BY SMTT(30), RolledBacked, RolledTyped DEF TTypeOK, StateRecord, ThrottleInv
  <2>2. ASSUME Rolled(ip).count >= DailyCap
        PROVE  /\ Len(accepts[ip]) >= DailyCap
               /\ (Len(accepts[ip]) - DailyCap + 1)..Len(accepts[ip]) \subseteq Counted(ip)
    <3>1. Rolled(ip).count = DailyCap
      BY <2>1, <2>2
    <3>2. QED
      BY <3>1, <2>1 DEF Backed, Counted
  <2>3. ASSUME Elapsed(ip) < Interval
        PROVE  /\ accepts[ip] # <<>>
               /\ accepts[ip][Len(accepts[ip])].run = runs
               /\ caller.now - accepts[ip][Len(accepts[ip])].at < Interval
    <3>1. state[ip].last # 0
      BY <2>1, <2>3, IntervalNat DEF Elapsed
    <3>2. QED
      BY <3>1, <2>1, <2>3 DEF Backed, Elapsed
  <2>4. QED
    BY <2>2, <2>3 DEF Interval
<1>2. QED
  BY <1>1, ThrottleInvariant, ThrottleTypeCorrect, PTL

(***************************************************************************)
(* The hint                                                                *)
(***************************************************************************)

LEMMA DivBelow == \A x \in Int : x < (x \div Hz + 1) * Hz
<1> SUFFICES ASSUME NEW x \in Int PROVE x < (x \div Hz + 1) * Hz
  OBVIOUS
<1>1. x = Hz * (x \div Hz) + (x % Hz) /\ x % Hz \in 0..Hz - 1 /\ x \div Hz \in Int
  BY SMTT(30)
<1>2. (x \div Hz + 1) * Hz = Hz * (x \div Hz) + Hz
  BY SMTT(30), <1>1
<1>3. QED
  BY <1>1, <1>2

LEMMA Multiples == \A k, l \in Int : k <= l => k * Hz <= l * Hz
BY SMTT(30)

\* The time the answer of ip stands for, a second added, is no less than what
\* is left of the interval.
HintInv ==
    \A ip \in IPs :
        answer[ip] # NoAnswer =>
            /\ answer[ip].at >= Interval
            /\ state[ip].last + Interval <= answer[ip].at + (answer[ip].wait + 1) * Hz

\* What is left of the interval is less than the hint and a second.
LEMMA HintCovers ==
    ASSUME TTypeOK, ThrottleInv, NEW ip \in IPs, caller.ip = ip
    PROVE  state[ip].last + Interval <= caller.now + (RetryIn(ip) + 1) * Hz
<1> DEFINE x == Interval - Elapsed(ip)
           left == x \div Hz
<1>1. /\ state[ip].last \in Nat /\ caller.now \in Nat /\ Interval \in Nat
      /\ x \in Int /\ left \in Int /\ state[ip].last + Interval = caller.now + x
  <2>1. state[ip].last \in Nat /\ caller.now \in Nat /\ Interval \in Nat
    BY IntervalNat DEF TTypeOK
  <2>2. x \in Int /\ state[ip].last + Interval = caller.now + x
    BY <2>1 DEF Elapsed
  <2>3. left \in Int
    BY <2>2
  <2>4. QED
    BY <2>1, <2>2, <2>3
<1>2. RetryIn(ip) = IF left < 1 THEN 1 ELSE left
  BY DEF RetryIn, Interval
<1> HIDE DEF left
<1>3. RetryIn(ip) \in Int /\ left + 1 <= RetryIn(ip) + 1
  BY <1>1, <1>2
<1>4. (left + 1) * Hz <= (RetryIn(ip) + 1) * Hz
  BY <1>1, <1>3, Multiples
<1>5. x < (left + 1) * Hz
  BY <1>1, DivBelow DEF left
<1>6. (left + 1) * Hz \in Int /\ (RetryIn(ip) + 1) * Hz \in Int
  BY <1>1, <1>3
<1> HIDE DEF x
<1>7. QED
  BY <1>1, <1>4, <1>5, <1>6

LEMMA HintInvariant == TSpec => []HintInv
<1>1. TInit => HintInv
  BY DEF TInit, HintInv
<1>2. TTypeOK /\ ThrottleInv /\ HintInv /\ [TNext]_tvars => HintInv'
  <2> SUFFICES ASSUME TTypeOK, ThrottleInv, HintInv, [TNext]_tvars, NEW other \in IPs,
                      answer'[other] # NoAnswer
               PROVE  /\ answer'[other].at >= Interval
                      /\ state'[other].last + Interval
                           <= answer'[other].at + (answer'[other].wait + 1) * Hz
    BY DEF HintInv, Interval
  <2>1. ASSUME NEW ip \in IPs, Arrive(ip) PROVE answer'[other] = answer[other] /\ state' = state
    BY <2>1 DEF Arrive
  <2>2. ASSUME NEW ip \in IPs, RefuseDaily(ip)
        PROVE  answer'[other] = answer[other] /\ state'[other].last = state[other].last
    BY <2>2, RolledTyped DEF RefuseDaily, TTypeOK
  <2>3. ASSUME NEW ip \in IPs, RefuseSoon(ip)
        PROVE  /\ answer'[other].at >= Interval
               /\ state'[other].last + Interval
                    <= answer'[other].at + (answer'[other].wait + 1) * Hz
    <3>1. CASE other # ip
      BY <2>3, <3>1 DEF RefuseSoon, HintInv, TTypeOK
    <3>2. CASE other = ip
      <4>1. state'[ip].last = state[ip].last
        BY <2>3, RolledTyped DEF RefuseSoon, TTypeOK
      <4>2. answer'[ip].at = caller.now /\ answer'[ip].wait = RetryIn(ip) /\ caller.ip = ip
        BY <2>3 DEF RefuseSoon, TTypeOK
      <4>3. caller.now >= Interval
        BY <4>2 DEF ThrottleInv
      <4>4. QED
        BY <3>2, <4>1, <4>2, <4>3, HintCovers
    <3>3. QED
      BY <3>1, <3>2
  <2>4. ASSUME NEW ip \in IPs, Accept(ip)
        PROVE  other # ip /\ answer'[other] = answer[other] /\ state'[other] = state[other]
    BY <2>4 DEF Accept, TTypeOK
  <2>5. CASE TTick
    BY <2>5 DEF TTick, HintInv
  <2>6. CASE TRestart
    <3>1. answer' = answer /\ state'[other].last = 0
      BY <2>6 DEF TRestart, Fresh
    <3>2. answer[other].at \in Nat /\ answer[other].wait \in Nat /\ answer[other].at >= Interval
      BY <3>1 DEF TTypeOK, HintInv
    <3>3. (answer[other].wait + 1) * Hz \in Nat
      BY <3>2
    <3>4. QED
      BY <3>1, <3>2, <3>3, IntervalNat
  <2>7. CASE UNCHANGED tvars
    BY <2>7 DEF tvars, HintInv
  <2>8. QED
    BY <2>1, <2>2, <2>3, <2>4, <2>5, <2>6, <2>7 DEF TNext, HintInv
<1>3. QED
  BY <1>1, <1>2, ThrottleTypeCorrect, ThrottleInvariant, PTL DEF TSpec

\* The hint is a second short at most, for every interval and resolution of the
\* clock, restarts included.
THEOREM HintIsNearlyEnough == TSpec => []RetryHintNearly
<1>1. TTypeOK /\ HintInv => RetryHintNearly
  <2> SUFFICES ASSUME TTypeOK, HintInv, NEW ip \in IPs, caller.ip = ip, answer[ip] # NoAnswer,
                      caller.now >= answer[ip].at + (answer[ip].wait + 1) * Hz
               PROVE  Elapsed(ip) >= Interval
    BY DEF RetryHintNearly, WaitEnough, Interval
  <2>1. /\ state[ip].last \in Nat /\ caller.now \in Nat /\ Interval \in Nat
        /\ answer[ip].at \in Nat /\ answer[ip].wait \in Nat
    BY IntervalNat DEF TTypeOK
  <2>2. answer[ip].at + (answer[ip].wait + 1) * Hz \in Int
    BY <2>1
  <2>3. state[ip].last + Interval <= answer[ip].at + (answer[ip].wait + 1) * Hz
    BY DEF HintInv
  <2>4. QED
    BY <2>1, <2>2, <2>3 DEF Elapsed
<1>2. QED
  BY <1>1, HintInvariant, ThrottleTypeCorrect, PTL
=============================================================================

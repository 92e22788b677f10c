---------------------------- MODULE BridgeProofs ----------------------------
(***************************************************************************)
(* What the bridge guarantees for every set of messages, every retry       *)
(* policy, every cap and any number of faults.                             *)
(***************************************************************************)
EXTENDS Bridge, SequenceTheorems, TLAPS

(***************************************************************************)
(* The flood cap holds for every cap, every window and every run.          *)
(***************************************************************************)

CapInv == CapTypeOK /\ WindowCap /\ DequeIsTail

\* Trimming k elements leaves a sequence of length Len - k, shifted by k.
LEMMA TrimmedProperties ==
    ASSUME NEW q \in Seq(Nat), NEW k \in 0..Len(q)
    PROVE  /\ Trimmed(q, k) \in Seq(Nat)
           /\ Len(Trimmed(q, k)) = Len(q) - k
           /\ \A i \in 1..(Len(q) - k) : Trimmed(q, k)[i] = q[k + i]
  BY DEF Trimmed

\* The k stale elements join the forgotten ones below the cutoff.
LEMMA ForgottenAfterTrim ==
    ASSUME CapInv, NEW k \in 0..Len(times),
           \A i \in 1..k : times[i] < clock - RateWindow
    PROVE  \A i \in 1..(Forgotten + k) : accepts[i] < clock - RateWindow
  <1> USE RateAssumption DEF CapInv, CapTypeOK
  <1> SUFFICES ASSUME NEW i \in 1..(Forgotten + k)
               PROVE  accepts[i] < clock - RateWindow
    OBVIOUS
  <1>1. Forgotten \in Nat
    BY DEF Forgotten, DequeIsTail
  <1>2. CASE i <= Forgotten
    BY <1>1, <1>2 DEF DequeIsTail
  <1>3. CASE i > Forgotten
    <2> DEFINE j == i - Forgotten
    <2>1. j \in 1..k /\ j \in 1..Len(times) /\ Forgotten + j = i
      BY <1>1, <1>3
    <2>2. times[j] = accepts[Forgotten + j]
      BY <2>1 DEF DequeIsTail
    <2> QED
      BY <2>1, <2>2
  <1> QED
    BY <1>1, <1>2, <1>3

LEMMA CapInvInit == CapInit => CapInv
  BY RateAssumption DEF CapInit, CapInv, CapTypeOK, WindowCap, DequeIsTail, Forgotten

LEMMA CapInvAdmit == CapInv /\ Admit => CapInv'
  <1> SUFFICES ASSUME CapInv, Admit PROVE CapInv'
    OBVIOUS
  <1> USE RateAssumption DEF CapInv, CapTypeOK
  <1>1. PICK k \in StaleCount(times, clock - RateWindow) :
            /\ Len(Trimmed(times, k)) < RateCapSize
            /\ times' = Append(Trimmed(times, k), clock)
    BY DEF Admit
  <1>2. /\ accepts' = Append(accepts, clock)
        /\ clock' = clock
    BY DEF Admit
  <1>3. /\ k \in 0..Len(times)
        /\ \A i \in 1..k : times[i] < clock - RateWindow
    BY DEF StaleCount
  <1> DEFINE kept == Trimmed(times, k)
  <1>4. /\ kept \in Seq(Nat)
        /\ Len(kept) = Len(times) - k
        /\ \A i \in 1..(Len(times) - k) : kept[i] = times[k + i]
    BY <1>3, TrimmedProperties
  <1> HIDE DEF kept
  <1>5. /\ times' = Append(kept, clock)
        /\ Len(kept) < RateCapSize
    BY <1>1 DEF kept
  <1>6. /\ Len(times') = Len(times) - k + 1
        /\ \A i \in 1..(Len(times) - k) : times'[i] = times[k + i]
        /\ times'[Len(times')] = clock
        /\ times' \in Seq(Nat)
    BY <1>3, <1>4, <1>5
  <1>7. /\ Len(accepts') = Len(accepts) + 1
        /\ \A i \in 1..Len(accepts) : accepts'[i] = accepts[i]
        /\ accepts'[Len(accepts')] = clock
        /\ accepts' \in Seq(Nat)
    BY <1>2
  <1>8. CapTypeOK'
    BY <1>2, <1>6, <1>7
  <1>9. /\ Len(times) \in Nat
        /\ Len(accepts) \in Nat
        /\ Forgotten \in Nat
        /\ Len(times') = Len(times) - k + 1
        /\ Len(accepts') = Len(accepts) + 1
    BY <1>6, <1>7 DEF Forgotten, DequeIsTail
  <1>10. \A i \in 1..(Forgotten + k) : accepts[i] < clock - RateWindow
    BY <1>3, ForgottenAfterTrim
  <1>11. Forgotten' = Forgotten + k
    BY <1>3, <1>6, <1>7 DEF Forgotten
  <1>12. WindowCap'
    <2> SUFFICES ASSUME NEW i \in 1..(Len(accepts') - RateCapSize)
                 PROVE  accepts'[i + RateCapSize] - accepts'[i] > RateWindow
      BY DEF WindowCap
    <2>1. CASE i + RateCapSize <= Len(accepts)
      <3>1. i \in 1..(Len(accepts) - RateCapSize)
        BY <1>7, <2>1
      <3>2. accepts[i + RateCapSize] - accepts[i] > RateWindow
        BY <3>1 DEF WindowCap
      <3>3. accepts'[i] = accepts[i] /\ accepts'[i + RateCapSize] = accepts[i + RateCapSize]
        BY <1>7, <2>1, <3>1
      <3> QED
        BY <3>2, <3>3
    <2>2. CASE i + RateCapSize = Len(accepts) + 1
      <3>1. i \in 1..(Forgotten + k) /\ i \in 1..Len(accepts)
        BY SMTT(30), <1>3, <1>4, <1>5, <2>2 DEF Forgotten
      <3>2. accepts'[i] < clock - RateWindow /\ accepts'[i + RateCapSize] = clock
        BY <1>7, <1>10, <2>2, <3>1
      <3>3. accepts'[i] = accepts[i] /\ accepts[i] \in Nat
        BY SMTT(30), <1>7, <3>1
      <3> QED
        BY <3>2, <3>3
    <2>3. i \in Int /\ i <= Len(accepts) + 1 - RateCapSize
      BY <1>9
    <2>4. i + RateCapSize <= Len(accepts) \/ i + RateCapSize = Len(accepts) + 1
      BY <1>9, <2>3
    <2> QED
      BY <2>1, <2>2, <2>4
  <1>13. DequeIsTail'
    <2>1. Len(times') <= Len(accepts') /\ Len(times') <= RateCapSize
      BY SMTT(30), <1>3, <1>4, <1>5, <1>6, <1>7 DEF DequeIsTail
    <2>2. \A i \in 1..Len(times') : times'[i] = accepts'[Forgotten' + i]
      <3> SUFFICES ASSUME NEW i \in 1..Len(times')
                   PROVE  times'[i] = accepts'[Forgotten' + i]
        OBVIOUS
      <3>1. CASE i <= Len(times) - k
        <4>1. k + i \in 1..Len(times) /\ Forgotten + k + i \in 1..Len(accepts)
          BY SMTT(30), <1>3, <3>1 DEF Forgotten, DequeIsTail
        <4>2. times[k + i] = accepts[Forgotten + (k + i)]
          BY <4>1 DEF DequeIsTail
        <4>3. Forgotten' + i = Forgotten + (k + i) /\ Forgotten + (k + i) \in 1..Len(accepts)
          BY <1>3, <1>11, <1>9, <4>1
        <4> QED
          BY SMTT(30), <1>6, <1>7, <3>1, <4>2, <4>3
      <3>2. CASE i = Len(times')
        BY <1>6, <1>7, <3>2 DEF Forgotten
      <3> QED
        BY <1>3, <1>9, <3>1, <3>2
    <2>3. \A i \in 1..Len(accepts') : accepts'[i] <= clock'
      BY <1>2, <1>7 DEF DequeIsTail
    <2>4. \A i, j \in 1..Len(accepts') : i <= j => accepts'[i] <= accepts'[j]
      BY <1>2, <1>7 DEF DequeIsTail
    <2>5. \A i \in 1..Forgotten' : accepts'[i] < clock' - RateWindow
      BY <1>2, <1>3, <1>7, <1>10, <1>11 DEF DequeIsTail, Forgotten
    <2> QED
      BY <2>1, <2>2, <2>3, <2>4, <2>5 DEF DequeIsTail, Forgotten
  <1> QED
    BY <1>8, <1>12, <1>13

LEMMA CapInvRefuse == CapInv /\ Refuse => CapInv'
  <1> SUFFICES ASSUME CapInv, Refuse PROVE CapInv'
    OBVIOUS
  <1> USE RateAssumption DEF CapInv, CapTypeOK
  <1>1. PICK k \in StaleCount(times, clock - RateWindow) :
            times' = Trimmed(times, k)
    BY DEF Refuse
  <1>2. accepts' = accepts /\ clock' = clock
    BY DEF Refuse
  <1>3. /\ k \in 0..Len(times)
        /\ \A i \in 1..k : times[i] < clock - RateWindow
    BY DEF StaleCount
  <1>4. /\ times' \in Seq(Nat)
        /\ Len(times') = Len(times) - k
        /\ \A i \in 1..(Len(times) - k) : times'[i] = times[k + i]
    BY <1>1, <1>3, TrimmedProperties
  <1>5. \A i \in 1..(Forgotten + k) : accepts[i] < clock - RateWindow
    BY <1>3, ForgottenAfterTrim
  <1>6. WindowCap'
    BY <1>2 DEF WindowCap
  <1>7. DequeIsTail'
    <2>1. Forgotten' = Forgotten + k
      BY <1>2, <1>3, <1>4 DEF Forgotten
    <2>2. \A i \in 1..Len(times') : times'[i] = accepts'[Forgotten' + i]
      <3> SUFFICES ASSUME NEW i \in 1..Len(times')
                   PROVE  times'[i] = accepts'[Forgotten' + i]
        OBVIOUS
      <3>1. k + i \in 1..Len(times)
        BY <1>3, <1>4
      <3>2. times[k + i] = accepts[Forgotten + (k + i)]
        BY <3>1 DEF DequeIsTail
      <3>3. Forgotten' + i = Forgotten + (k + i)
        BY SMTT(30), <1>3, <2>1 DEF Forgotten
      <3> QED
        BY <1>2, <1>4, <3>2, <3>3
    <2>3. Len(times') <= Len(accepts') /\ Len(times') <= RateCapSize
      BY <1>2, <1>3, <1>4 DEF DequeIsTail
    <2>4. \A i \in 1..Forgotten' : accepts'[i] < clock' - RateWindow
      BY <1>2, <1>5, <2>1
    <2> QED
      BY <1>2, <2>2, <2>3, <2>4 DEF DequeIsTail
  <1> QED
    BY <1>2, <1>4, <1>6, <1>7

LEMMA CapInvStep == CapInv /\ [CapNext]_capvars => CapInv'
  <1> SUFFICES ASSUME CapInv, [CapNext]_capvars PROVE CapInv'
    OBVIOUS
  <1>1. CASE Admit
    BY <1>1, CapInvAdmit
  <1>2. CASE Refuse
    BY <1>2, CapInvRefuse
  <1>3. CASE CapTick
    BY <1>3, RateAssumption DEF CapTick, CapInv, CapTypeOK, WindowCap, DequeIsTail, Forgotten
  <1>4. CASE Restart
    BY <1>4, RateAssumption DEF Restart, CapInv, CapTypeOK, WindowCap, DequeIsTail, Forgotten
  <1>5. CASE UNCHANGED capvars
    BY <1>5 DEF capvars, CapInv, CapTypeOK, WindowCap, DequeIsTail, Forgotten
  <1> QED
    BY <1>1, <1>2, <1>3, <1>4, <1>5 DEF CapNext

LEMMA CapInvAlways == CapSpec => []CapInv
  BY CapInvInit, CapInvStep, PTL DEF CapSpec

\* In every run of the cap and for every cap and window, a window never
\* holds more than RateCapSize accepts of one process.
THEOREM WindowCapHolds == CapSpec => []WindowCap
  BY CapInvAlways, PTL DEF CapInv

\* A refusal that the invariant allows is justified by RateCapSize accepts.
LEMMA RefusalFromInv == CapInv => RefusalJustified
  <1> SUFFICES ASSUME CapInv, CapHit
               PROVE  /\ Len(accepts) >= RateCapSize
                      /\ \A i \in (Len(accepts) - RateCapSize + 1)..Len(accepts) :
                             clock - accepts[i] <= RateWindow
    BY DEF RefusalJustified
  <1> USE RateAssumption DEF CapInv, CapTypeOK
  <1>1. PICK k \in StaleCount(times, clock - RateWindow) :
            Len(Trimmed(times, k)) >= RateCapSize
    BY DEF CapHit
  <1>2. /\ k \in 0..Len(times)
        /\ k < Len(times) => times[k + 1] >= clock - RateWindow
    BY DEF StaleCount
  <1>3. k = 0 /\ Len(times) = RateCapSize
    <2>1. Len(Trimmed(times, k)) = Len(times) - k
      BY <1>2, TrimmedProperties
    <2> QED
      BY <1>1, <1>2, <2>1 DEF DequeIsTail
  <1>4. times[1] >= clock - RateWindow
    BY <1>2, <1>3
  <1>5. accepts[Len(accepts) - RateCapSize + 1] >= clock - RateWindow
    BY <1>3, <1>4 DEF DequeIsTail, Forgotten
  <1>6. Len(accepts) >= RateCapSize
    BY <1>3 DEF DequeIsTail
  <1>7. ASSUME NEW i \in (Len(accepts) - RateCapSize + 1)..Len(accepts)
        PROVE  clock - accepts[i] <= RateWindow
    <2> DEFINE first == Len(accepts) - RateCapSize + 1
    <2>1. first \in 1..Len(accepts) /\ i \in 1..Len(accepts) /\ first <= i
      BY <1>6
    <2>2. accepts[first] <= accepts[i]
      BY <2>1 DEF DequeIsTail
    <2> QED
      BY SMTT(30), <1>5, <2>1, <2>2
  <1> QED
    BY <1>6, <1>7

\* Every 451 is justified by RateCapSize accepts inside the current window.
THEOREM RefusalJustifiedHolds == CapSpec => []RefusalJustified
  BY CapInvAlways, RefusalFromInv, PTL

\* The steps of the flood cap keep its types.
LEMMA CapTypes == CapTypeOK /\ [CapNext]_capvars => CapTypeOK'
  <1> SUFFICES ASSUME CapTypeOK, [CapNext]_capvars PROVE CapTypeOK'
    OBVIOUS
  <1> USE RateAssumption DEF CapTypeOK
  <1>1. ASSUME NEW k \in StaleCount(times, clock - RateWindow)
        PROVE  Trimmed(times, k) \in Seq(Nat)
    BY DEF StaleCount, Trimmed
  <1>2. CASE Admit
    BY <1>1, <1>2 DEF Admit
  <1>3. CASE Refuse
    BY <1>1, <1>3 DEF Refuse
  <1>4. CASE CapTick
    BY <1>4 DEF CapTick
  <1>5. CASE Restart
    BY <1>5 DEF Restart
  <1>6. CASE UNCHANGED capvars
    BY <1>6 DEF capvars
  <1> QED
    BY <1>2, <1>3, <1>4, <1>5, <1>6 DEF CapNext

(***************************************************************************)
(* Facts about the operators.                                              *)
(***************************************************************************)

\* A file's fields have their types, and None is not a file.
LEMMA ItemFields ==
    ASSUME NEW it \in Item
    PROVE  /\ it # None
           /\ it.file \in {"tmp", "json", "torn"}
           /\ it.msg \in Messages
           /\ it.created \in Nat
           /\ it.last \in Nat
           /\ it.attempts \in Nat
  BY BridgeAssumption DEF Item

\* Every file is an Item.
LEMMA FileIsItem ==
    ASSUME TypeOK, NEW id \in Files
    PROVE  id \in ItemIds /\ queue[id] \in Item
  BY DEF TypeOK, Files

\* The database never forgets a commit, so a stored message stays stored.
LEMMA StoredStable ==
    ASSUME NEW m \in Messages, TypeOK, TypeOK',
           \A p \in Payloads : rows'[p] >= rows[p],
           Stored(m)
    PROVE  Stored(m)'
  <1>1. <<m, "capture">> \in Payloads
    BY DEF Payloads, Kinds
  <1>2. /\ rows[<<m, "capture">>] \in Nat
        /\ rows'[<<m, "capture">>] \in Nat
        /\ rows'[<<m, "capture">>] >= rows[<<m, "capture">>]
    BY <1>1 DEF TypeOK
  <1> QED
    BY <1>2 DEF Stored

\* A message stays held when the stores only grow and no visible file of it
\* goes away without the message being held otherwise.
LEMMA HeldStable ==
    ASSUME NEW m \in Messages, TypeOK, TypeOK',
           \A p \in Payloads : rows'[p] >= rows[p],
           expired \subseteq expired',
           shredded \subseteq shredded',
           faults' >= faults,
           \A id \in Visible : queue[id].msg = m =>
               \/ id \in Visible' /\ queue'[id].msg = m
               \/ Held(m)',
           Held(m)
    PROVE  Held(m)'
  <1>1. CASE Stored(m)
    BY <1>1, StoredStable DEF Held
  <1>2. CASE Queued(m)
    <2>1. PICK id \in Visible : queue[id].msg = m
      BY <1>2 DEF Queued
    <2>2. CASE id \in Visible' /\ queue'[id].msg = m
      BY <2>2 DEF Held, Queued
    <2> QED
      BY <2>1, <2>2
  <1>3. CASE m \in expired
    BY <1>3 DEF Held
  <1>4. CASE m \in shredded /\ faults > 0
    BY <1>4 DEF Held, TypeOK
  <1> QED
    BY <1>1, <1>2, <1>3, <1>4 DEF Held

LEMMA CustodyInit == Init => CustodyInv
  <1> SUFFICES ASSUME Init PROVE CustodyInv
    OBVIOUS
  <1> USE BridgeAssumption DEF Init
  <1>1. CapTypeOK
    BY DEF CapInit, CapTypeOK
  <1>2. TypeOK
    BY <1>1 DEF TypeOK, IdleSmtp, AsleepRetry, Item
  <1>3. Files = {}
    BY DEF Files
  <1>4. AckedIsHeld /\ SmtpKnows /\ RetryKnows /\ TornKnown
    BY <1>3 DEF AckedIsHeld, SmtpKnows, RetryKnows, TornKnown, IdleSmtp, AsleepRetry,
                Threads, Visible
  <1> QED
    BY <1>2, <1>4 DEF CustodyInv

\* A thread with a POST in progress posts one of the payloads.
LEMMA PostedType ==
    ASSUME CustodyInv, NEW t \in Threads, req[t] # "none"
    PROVE  Posted(t) \in Payloads
  <1>1. CASE t = "smtp"
    BY <1>1 DEF CustodyInv, SmtpKnows, Posted, Payloads, Kinds
  <1>2. CASE t = "retry"
    <2>1. retry.id \in Files
      BY <1>2 DEF CustodyInv, RetryKnows, Visible
    <2>2. queue[retry.id] \in Item
      BY <2>1, FileIsItem DEF CustodyInv
    <2> QED
      BY <1>2, <2>2, ItemFields DEF Posted, Payloads, Kinds
  <1> QED
    BY <1>1, <1>2 DEF Threads

\* Giving up a POST keeps the types of what it changes.
LEMMA GiveUpTypes ==
    ASSUME CustodyInv, NEW t \in Threads, GiveUp(t)
    PROVE  /\ req' \in [Threads -> {"none", "sent", "committed", "refused"}]
           /\ late' \in [Payloads -> Nat]
           /\ rows' = rows /\ expired' = expired /\ shredded' = shredded /\ posts' = posts
           /\ doubted' \subseteq Messages
  <1>1. Posted(t) \in Payloads
    BY PostedType DEF GiveUp
  <1>2. Posted(t)[1] \in Messages
    BY <1>1 DEF Payloads
  <1> QED
    BY <1>1, <1>2 DEF GiveUp, CustodyInv, TypeOK

\* The flood cap's types do not depend on anything else.
LEMMA CapTypesUnchanged == CapTypeOK /\ UNCHANGED capvars => CapTypeOK'
  BY DEF CapTypeOK, capvars

LEMMA TypeStep == CustodyInv /\ [Next]_vars => TypeOK'
  <1> SUFFICES ASSUME CustodyInv, [Next]_vars PROVE TypeOK'
    OBVIOUS
  <1> USE BridgeAssumption, RateAssumption
  <1>0. TypeOK /\ CapTypeOK
    BY DEF CustodyInv, TypeOK
  <1>1. ASSUME NEW m \in Messages, Rcpt(m) PROVE TypeOK'
    BY <1>0, <1>1, CapTypesUnchanged DEF Rcpt, TypeOK, apivars, history
  <1>2. ASSUME NEW m \in Messages, Data(m) PROVE TypeOK'
    <2>1. CapTypeOK'
      BY <1>0, <1>2, CapTypes DEF Data, CapNext
    <2> QED
      BY <1>0, <1>2, <2>1 DEF Data, TypeOK, apivars, history
  <1>3. ASSUME NEW m \in Messages, Defer(m) PROVE TypeOK'
    <2>1. CapTypeOK'
      BY <1>0, <1>3, CapTypes DEF Defer, CapNext
    <2> QED
      BY <1>0, <1>3, <2>1 DEF Defer, TypeOK, apivars, history
  <1>4. CASE CaptureOk
    BY <1>0, <1>4, CapTypesUnchanged DEF CaptureOk, TypeOK, apivars, history
  <1>5. CASE ArfOk
    BY <1>0, <1>5, CapTypesUnchanged DEF ArfOk, TypeOK, apivars, history
  <1>6. CASE PostFailed
    <2>1. GiveUp("smtp") /\ "smtp" \in Threads
      BY <1>6 DEF PostFailed, Threads
    <2> QED
      BY <1>0, <1>6, <2>1, GiveUpTypes, CapTypesUnchanged DEF PostFailed, TypeOK
  <1>7. CASE WriteTmp
    <2>1. PICK id \in ItemIds \ Files :
             /\ queue' = [queue EXCEPT ![id] =
                    [file |-> "tmp", msg |-> smtp.msg, created |-> clock,
                     last |-> clock, attempts |-> 1]]
             /\ smtp' = [smtp EXCEPT !.pc = "rename", !.id = id]
             /\ posts' = [posts EXCEPT ![id] = 1]
      BY <1>7 DEF WriteTmp
    <2>2. smtp.msg \in Messages /\ clock \in Nat
      BY <1>0, <1>7 DEF WriteTmp, CustodyInv, SmtpKnows, CapTypeOK
    <2>3. [file |-> "tmp", msg |-> smtp.msg, created |-> clock,
           last |-> clock, attempts |-> 1] \in Item
      BY <2>2 DEF Item
    <2>4. queue' \in [ItemIds -> Item \cup {None}]
      BY <1>0, <2>1, <2>3 DEF TypeOK
    <2> QED
      BY <1>0, <1>7, <2>1, <2>4, CapTypesUnchanged DEF WriteTmp, TypeOK, apivars, history
  <1>8. CASE Rename
    <2>1. smtp.id \in Files
      BY <1>8 DEF Rename, CustodyInv, SmtpKnows
    <2>2. smtp.id \in ItemIds /\ queue[smtp.id] \in Item
      BY <1>0, <2>1, FileIsItem
    <2>3. [queue[smtp.id] EXCEPT !.file = "json"] \in Item
      BY <2>2 DEF Item
    <2>4. queue' \in [ItemIds -> Item \cup {None}]
      BY <1>0, <1>8, <2>2, <2>3 DEF Rename, TypeOK
    <2> QED
      BY <1>0, <1>8, <2>4, CapTypesUnchanged DEF Rename, TypeOK, apivars, history
  <1>9. CASE Reply
    BY <1>0, <1>9, CapTypesUnchanged DEF Reply, TypeOK, IdleSmtp, apivars, history
  <1>10. CASE StartPass
    BY <1>0, <1>10, CapTypesUnchanged DEF StartPass, TypeOK, CapTypeOK, apivars, history
  <1>11. CASE Glob
    BY <1>0, <1>11, CapTypesUnchanged DEF Glob, TypeOK, Visible, Files, apivars, history
  <1>12. ASSUME NEW id \in ItemIds, DropInvalid(id) PROVE TypeOK'
    <2>1. queue[id].msg \in Messages
      BY <1>0, <1>12, FileIsItem, ItemFields
         DEF DropInvalid, Scanning, CustodyInv, RetryKnows, Visible
    <2> QED
      BY <1>0, <1>12, <2>1, CapTypesUnchanged DEF DropInvalid, TypeOK, apivars
  <1>13. ASSUME NEW id \in ItemIds, DropExpired(id) PROVE TypeOK'
    <2>1. queue[id].msg \in Messages
      BY <1>0, <1>13, FileIsItem, ItemFields
         DEF DropExpired, Scanning, CustodyInv, RetryKnows, Visible
    <2> QED
      BY <1>0, <1>13, <2>1, CapTypesUnchanged DEF DropExpired, TypeOK, apivars
  <1>14. ASSUME NEW id \in ItemIds, SkipRecent(id) PROVE TypeOK'
    BY <1>0, <1>14, CapTypesUnchanged DEF SkipRecent, TypeOK, apivars, history
  <1>15. ASSUME NEW id \in ItemIds, RetryPost(id) PROVE TypeOK'
    <2>1. /\ req' = [req EXCEPT !["retry"] = "sent"]
          /\ retry' = [retry EXCEPT !.pc = "posting", !.todo = @ \ {id}, !.id = id]
          /\ posts' = [posts EXCEPT ![id] = @ + 1]
          /\ UNCHANGED <<capvars, tx, rcpts, smtp, queue, rows, late, faults,
                         expired, shredded, doubted>>
      BY <1>15 DEF RetryPost, apivars
    <2>2. CapTypeOK'
      BY <1>0, <2>1, CapTypesUnchanged
    <2>3. posts' \in [ItemIds -> Nat]
      <3>1. posts \in [ItemIds -> Nat]
        BY <1>0 DEF TypeOK
      <3>2. posts[id] + 1 \in Nat
        BY <3>1
      <3> QED
        BY <2>1, <3>1, <3>2
    <2>4. /\ req' \in [Threads -> {"none", "sent", "committed", "refused"}]
          /\ retry' \in [pc : {"sleep", "glob", "scan", "posting", "unlink", "rewrite"},
                         now : Nat, todo : SUBSET ItemIds, id : ItemIds \cup {None}]
      BY <1>0, <2>1 DEF TypeOK
    <2> QED
      BY <1>0, <2>1, <2>2, <2>3, <2>4 DEF TypeOK
  <1>16. CASE RetryOk
    BY <1>0, <1>16, CapTypesUnchanged DEF RetryOk, TypeOK, apivars, history
  <1>17. CASE Unlink
    BY <1>0, <1>17, CapTypesUnchanged DEF Unlink, TypeOK, apivars, history
  <1>18. CASE RetryFailed
    <2>1. GiveUp("retry") /\ "retry" \in Threads
      BY <1>18 DEF RetryFailed, Threads
    <2>2. retry.id \in Files
      BY <1>18 DEF RetryFailed, CustodyInv, RetryKnows, Visible
    <2>3. retry.id \in ItemIds /\ queue[retry.id] \in Item
      BY <1>0, <2>2, FileIsItem
    <2>4. [queue[retry.id] EXCEPT !.file = "torn"] \in Item
      BY <2>3 DEF Item
    <2>5. queue' \in [ItemIds -> Item \cup {None}]
      BY <1>0, <1>18, <2>3, <2>4 DEF RetryFailed, TypeOK
    <2> QED
      BY <1>0, <1>18, <2>1, <2>5, GiveUpTypes, CapTypesUnchanged DEF RetryFailed, TypeOK
  <1>19. CASE Rewrite
    <2>1. retry.id \in Files
      BY <1>19 DEF Rewrite, CustodyInv, RetryKnows, Visible
    <2>2. retry.id \in ItemIds /\ queue[retry.id] \in Item /\ retry.now \in Nat
      BY <1>0, <2>1, FileIsItem DEF TypeOK
    <2>3. [queue[retry.id] EXCEPT !.file = "json", !.last = retry.now, !.attempts = @ + 1] \in Item
      <3>1. queue[retry.id].attempts + 1 \in Nat
        BY <2>2, ItemFields
      <3> QED
        BY <2>2, <3>1 DEF Item
    <2>4. queue' \in [ItemIds -> Item \cup {None}]
      BY <1>0, <1>19, <2>2, <2>3 DEF Rewrite, TypeOK
    <2> QED
      BY <1>0, <1>19, <2>4, CapTypesUnchanged DEF Rewrite, TypeOK, apivars, history
  <1>20. CASE EndPass
    BY <1>0, <1>20, CapTypesUnchanged DEF EndPass, TypeOK, AsleepRetry, apivars, history
  <1>21. ASSUME NEW t \in Threads, ApiCommit(t) PROVE TypeOK'
    <2>1. Posted(t) \in Payloads
      BY <1>21, PostedType DEF ApiCommit
    <2> QED
      BY <1>0, <1>21, <2>1, CapTypesUnchanged DEF ApiCommit, TypeOK, apivars, history
  <1>22. ASSUME NEW t \in Threads, ApiRefuse(t) PROVE TypeOK'
    BY <1>0, <1>22, CapTypesUnchanged DEF ApiRefuse, TypeOK, apivars, history
  <1>23. ASSUME NEW p \in Payloads, LateCommit(p) PROVE TypeOK'
    BY <1>0, <1>23, CapTypesUnchanged DEF LateCommit, TypeOK, apivars, history
  <1>24. CASE Tick
    <2>1. CapTypeOK'
      BY <1>0, <1>24, CapTypes DEF Tick, CapNext
    <2> QED
      BY <1>0, <1>24, <2>1 DEF Tick, TypeOK, apivars, history
  <1>25. CASE ReplyLost
    BY <1>0, <1>25, CapTypesUnchanged
       DEF ReplyLost, Fault, TypeOK, CustodyInv, SmtpKnows, IdleSmtp, apivars
  <1>26. CASE QueueFailed
    <2>1. faults' \in 0..MaxFaults
      BY <1>0, <1>26 DEF QueueFailed, Fault, TypeOK
    <2>2. tx' \in [Messages -> {"new", "open", "data", "acked", "bounced"}]
      BY <1>0, <1>26 DEF QueueFailed, TypeOK
    <2>3. CapTypeOK'
      BY <1>0, <1>26, CapTypesUnchanged DEF QueueFailed
    <2> QED
      BY <1>0, <1>26, <2>1, <2>2, <2>3 DEF QueueFailed, TypeOK, IdleSmtp, apivars, history
  <1>27. CASE Crash
    <2>1. CapTypeOK'
      BY <1>0, <1>27, CapTypes DEF Crash, CapNext
    <2>2. tx' \in [Messages -> {"new", "open", "data", "acked", "bounced"}]
      BY <1>0, <1>27 DEF Crash, TypeOK
    <2>3. late' \in [Payloads -> Nat]
      BY <1>0, <1>27 DEF Crash, TypeOK
    <2>4. doubted' \subseteq Messages
      BY <1>0, <1>27 DEF Crash, TypeOK
    <2> QED
      BY <1>0, <1>27, <2>1, <2>2, <2>3, <2>4
         DEF Crash, Fault, TypeOK, IdleSmtp, AsleepRetry
  <1>29. ASSUME NEW id \in ItemIds, ReadFailed(id) PROVE TypeOK'
    <2>1. queue[id].msg \in Messages
      BY <1>0, <1>29, FileIsItem, ItemFields
         DEF ReadFailed, Scanning, CustodyInv, RetryKnows, Visible
    <2>2. faults' \in 0..MaxFaults
      BY <1>0, <1>29 DEF ReadFailed, Fault, TypeOK
    <2> QED
      BY <1>0, <1>29, <2>1, <2>2, CapTypesUnchanged DEF ReadFailed, TypeOK, apivars
  <1>30. CASE UnlinkFailed
    <2>1. retry.id \in Files
      BY <1>30 DEF UnlinkFailed, CustodyInv, RetryKnows, Visible
    <2>2. retry.id \in ItemIds /\ queue[retry.id] \in Item /\ queue[retry.id].msg \in Messages
      BY <1>0, <2>1, FileIsItem, ItemFields
    <2>3. [queue[retry.id] EXCEPT !.file = "torn"] \in Item
      BY <2>2 DEF Item
    <2>4. queue' \in [ItemIds -> Item \cup {None}]
      BY <1>0, <1>30, <2>2, <2>3 DEF UnlinkFailed, TypeOK
    <2>5. faults' \in 0..MaxFaults
      BY <1>0, <1>30 DEF UnlinkFailed, Fault, TypeOK
    <2> QED
      BY <1>0, <1>30, <2>2, <2>4, <2>5, CapTypesUnchanged DEF UnlinkFailed, TypeOK, apivars
  <1>28. CASE UNCHANGED vars
    <2>1. CapTypeOK'
      BY <1>0, <1>28, CapTypesUnchanged DEF vars
    <2>2. UNCHANGED <<tx, rcpts, smtp, retry, req, queue, rows, late, faults,
                      expired, shredded, doubted, posts>>
      BY <1>28 DEF vars, apivars, history
    <2> QED
      BY <1>0, <2>1, <2>2 DEF TypeOK
  <1> QED
    BY <1>1, <1>2, <1>3, <1>4, <1>5, <1>6, <1>7, <1>8, <1>9, <1>10, <1>11, <1>12, <1>13,
       <1>14, <1>15, <1>16, <1>17, <1>18, <1>19, <1>20, <1>21, <1>22, <1>23, <1>24, <1>25,
       <1>26, <1>27, <1>28, <1>29, <1>30
       DEF Next, SmtpStep, RetryStep, RetryFault, ApiStep

(***************************************************************************)
(* What every step leaves in place.                                        *)
(***************************************************************************)

\* Commits, losses and faults only accumulate.
Grows ==
    /\ \A p \in Payloads : rows'[p] >= rows[p]
    /\ expired \subseteq expired'
    /\ shredded \subseteq shredded'
    /\ faults' >= faults

LEMMA HistoryGrows == CustodyInv /\ [Next]_vars => Grows
  <1> SUFFICES ASSUME CustodyInv, [Next]_vars PROVE Grows
    OBVIOUS
  <1>0. TypeOK
    BY DEF CustodyInv
  <1>1. CASE rows' = rows /\ expired' = expired /\ shredded' = shredded
             /\ faults' \in {faults, faults + 1}
    BY <1>0, <1>1 DEF Grows, TypeOK
  <1>2. ASSUME NEW t \in Threads, ApiCommit(t) PROVE Grows
    BY <1>0, <1>2 DEF Grows, TypeOK, ApiCommit, history
  <1>3. ASSUME NEW p \in Payloads, LateCommit(p) PROVE Grows
    BY <1>0, <1>3 DEF Grows, TypeOK, LateCommit, history
  <1>4. ASSUME NEW id \in ItemIds, DropInvalid(id) \/ DropExpired(id) PROVE Grows
    BY <1>0, <1>4 DEF Grows, TypeOK, DropInvalid, DropExpired, apivars
  <1>5. CASE UNCHANGED vars
    BY <1>1, <1>5 DEF vars, apivars, history
  <1>6. ASSUME NEW m \in Messages, Rcpt(m) \/ Data(m) \/ Defer(m) PROVE Grows
    BY <1>1, <1>6 DEF Rcpt, Data, Defer, apivars, history
  <1>7. CASE SmtpStep
    BY <1>1, <1>7 DEF SmtpStep, CaptureOk, ArfOk, PostFailed, GiveUp, WriteTmp, Rename, Reply,
                     apivars, history
  <1>8. CASE StartPass \/ Glob \/ RetryOk \/ Unlink \/ RetryFailed \/ Rewrite \/ EndPass
    BY <1>1, <1>8 DEF StartPass, Glob, RetryOk, Unlink, RetryFailed, GiveUp, Rewrite, EndPass,
                     apivars, history
  <1>9. ASSUME NEW id \in ItemIds, SkipRecent(id) \/ RetryPost(id) PROVE Grows
    BY <1>1, <1>9 DEF SkipRecent, RetryPost, apivars, history
  <1>10. ASSUME NEW t \in Threads, ApiRefuse(t) PROVE Grows
    BY <1>1, <1>10 DEF ApiRefuse, apivars, history
  <1>11. CASE ReplyLost \/ QueueFailed \/ UnlinkFailed \/ Crash \/ Tick
    BY <1>1, <1>11 DEF ReplyLost, QueueFailed, UnlinkFailed, Crash, Tick, Fault, apivars, history
  <1>12. ASSUME NEW id \in ItemIds, ReadFailed(id) PROVE Grows
    BY <1>0, <1>12 DEF Grows, TypeOK, ReadFailed, Fault, apivars
  <1> QED
    BY <1>2, <1>3, <1>4, <1>5, <1>6, <1>7, <1>8, <1>9, <1>10, <1>11, <1>12
       DEF Next, RetryStep, RetryFault, ApiStep

\* A file a step touches stays visible with its message, unless the main
\* thread removes it: then the message is stored, expired or shredded.
LEMMA FilesKept ==
    ASSUME CustodyInv, [Next]_vars, NEW id \in Visible, NEW m \in Messages,
           queue[id].msg = m
    PROVE  \/ /\ id \in Visible'
              /\ queue'[id].msg = m
           \/ Held(m)'
  <1>0. TypeOK /\ TypeOK' /\ Grows /\ id \in Files /\ id \in ItemIds
        /\ queue[id] \in Item
    BY TypeStep, HistoryGrows, FileIsItem, ItemFields DEF CustodyInv, Visible
  <1> DEFINE Goal == \/ id \in Visible' /\ queue'[id].msg = m
                     \/ Held(m)'
  <1>1. CASE queue'[id] = queue[id]
    BY <1>0, <1>1 DEF Visible, Files
  <1>2. CASE WriteTmp
    BY <1>0, <1>1, <1>2 DEF WriteTmp, TypeOK
  <1>3. CASE Rename
    <2>1. id # smtp.id
      BY <1>3 DEF Rename, CustodyInv, SmtpKnows, Visible
    <2> QED
      BY <1>0, <1>1, <1>3, <2>1 DEF Rename, TypeOK
  <1>4. ASSUME NEW i \in ItemIds, DropInvalid(i) PROVE Goal
    <2>1. CASE i = id
      <3>1. faults > 0
        BY <1>0, <1>4, <2>1 DEF DropInvalid, Scanning, CustodyInv, TornKnown
      <3>2. m \in shredded' /\ faults' > 0
        BY <1>4, <2>1, <3>1 DEF DropInvalid
      <3> QED
        BY <3>2 DEF Held
    <2>2. CASE i # id
      BY <1>0, <1>1, <1>4, <2>2 DEF DropInvalid, TypeOK
    <2> QED
      BY <2>1, <2>2
  <1>5. ASSUME NEW i \in ItemIds, DropExpired(i) PROVE Goal
    <2>1. CASE i = id
      <3>1. m \in expired'
        BY <1>5, <2>1 DEF DropExpired
      <3> QED
        BY <3>1 DEF Held
    <2>2. CASE i # id
      BY <1>0, <1>1, <1>5, <2>2 DEF DropExpired, TypeOK
    <2> QED
      BY <2>1, <2>2
  <1>6. CASE Unlink
    <2>1. CASE id = retry.id
      <3>1. Stored(m)
        BY <1>6, <2>1 DEF Unlink, CustodyInv, RetryKnows
      <3>2. Stored(m)'
        BY <1>0, <3>1, StoredStable DEF Grows
      <3> QED
        BY <3>2 DEF Held
    <2>2. CASE id # retry.id
      BY <1>0, <1>1, <1>6, <2>2 DEF Unlink, TypeOK
    <2> QED
      BY <2>1, <2>2
  <1>7. CASE RetryFailed
    <2>1. CASE id = retry.id
      <3>1. queue'[id] = [queue[id] EXCEPT !.file = "torn"]
        BY <1>0, <1>7, <2>1 DEF RetryFailed, TypeOK
      <3>2. queue'[id] \in Item /\ queue'[id].file = "torn" /\ queue'[id].msg = m
        BY <1>0, <3>1 DEF Item
      <3> QED
        BY <1>0, <3>2, ItemFields DEF Visible, Files
    <2>2. CASE id # retry.id
      BY <1>0, <1>1, <1>7, <2>2 DEF RetryFailed, TypeOK
    <2> QED
      BY <2>1, <2>2
  <1>8. CASE Rewrite
    <2>1. CASE id = retry.id
      <3>1. /\ queue'[id].file = "json"
            /\ queue'[id].msg = m
            /\ queue'[id] \in Item \cup {None}
        BY <1>0, <1>8, <2>1 DEF Rewrite, TypeOK, Item
      <3>2. queue'[id] = [queue[id] EXCEPT !.file = "json", !.last = retry.now, !.attempts = @ + 1]
        BY <1>0, <1>8, <2>1 DEF Rewrite, TypeOK
      <3>3. queue'[id] \in Item
        <4>1. queue[id].attempts + 1 \in Nat /\ retry.now \in Nat
          BY <1>0, ItemFields DEF TypeOK
        <4> QED
          BY <1>0, <3>2, <4>1 DEF Item
      <3> QED
        BY <1>0, <3>1, <3>3, ItemFields DEF Visible, Files
    <2>2. CASE id # retry.id
      BY <1>0, <1>1, <1>8, <2>2 DEF Rewrite, TypeOK
    <2> QED
      BY <2>1, <2>2
  <1>9. CASE queue' = queue
    BY <1>1, <1>9
  <1>10. CASE UNCHANGED vars
    BY <1>9, <1>10 DEF vars
  <1>11. ASSUME NEW n \in Messages, Rcpt(n) \/ Data(n) \/ Defer(n) PROVE Goal
    BY <1>9, <1>11 DEF Rcpt, Data, Defer
  <1>12. CASE CaptureOk \/ ArfOk \/ PostFailed \/ Reply
    BY <1>9, <1>12 DEF CaptureOk, ArfOk, PostFailed, Reply
  <1>13. CASE StartPass \/ Glob \/ RetryOk \/ EndPass
    BY <1>9, <1>13 DEF StartPass, Glob, RetryOk, EndPass
  <1>14. ASSUME NEW i \in ItemIds, SkipRecent(i) \/ RetryPost(i) PROVE Goal
    BY <1>9, <1>14 DEF SkipRecent, RetryPost
  <1>15. CASE ApiStep
    BY <1>9, <1>15 DEF ApiStep, ApiCommit, ApiRefuse, LateCommit
  <1>16. CASE ReplyLost \/ QueueFailed \/ Crash \/ Tick
    BY <1>9, <1>16 DEF ReplyLost, QueueFailed, Crash, Tick
  <1>17. ASSUME NEW i \in ItemIds, ReadFailed(i) PROVE Goal
    <2>1. CASE i = id
      <3>1. m \in shredded' /\ faults' > 0
        BY <1>0, <1>17, <2>1 DEF ReadFailed, Fault, TypeOK
      <3> QED
        BY <3>1 DEF Held
    <2>2. CASE i # id
      BY <1>0, <1>1, <1>17, <2>2 DEF ReadFailed, TypeOK
    <2> QED
      BY <2>1, <2>2
  <1>18. CASE UnlinkFailed
    <2>1. CASE id = retry.id
      <3>1. queue'[id] = [queue[id] EXCEPT !.file = "torn"]
        BY <1>0, <1>18, <2>1 DEF UnlinkFailed, TypeOK
      <3>2. queue'[id] \in Item /\ queue'[id].file = "torn" /\ queue'[id].msg = m
        BY <1>0, <3>1 DEF Item
      <3> QED
        BY <1>0, <3>2, ItemFields DEF Visible, Files
    <2>2. CASE id # retry.id
      BY <1>0, <1>1, <1>18, <2>2 DEF UnlinkFailed, TypeOK
    <2> QED
      BY <2>1, <2>2
  <1> QED
    BY <1>2, <1>3, <1>4, <1>5, <1>6, <1>7, <1>8, <1>10, <1>11, <1>12, <1>13, <1>14, <1>15, <1>16,
       <1>17, <1>18
       DEF Next, SmtpStep, RetryStep, RetryFault

\* Once held, a message stays held.
LEMMA HeldStep ==
    ASSUME CustodyInv, [Next]_vars, NEW m \in Messages, Held(m)
    PROVE  Held(m)'
  <1>1. TypeOK /\ TypeOK' /\ Grows
    BY TypeStep, HistoryGrows DEF CustodyInv
  <1>2. \A id \in Visible : queue[id].msg = m =>
            \/ id \in Visible' /\ queue'[id].msg = m
            \/ Held(m)'
    BY FilesKept
  <1> QED
    BY <1>1, <1>2, HeldStable DEF Grows

LEMMA StoredStep ==
    ASSUME CustodyInv, [Next]_vars, NEW m \in Messages, Stored(m)
    PROVE  Stored(m)'
  BY TypeStep, HistoryGrows, StoredStable DEF CustodyInv, Grows

\* Only Reply acknowledges, and what it acknowledges is held.
LEMMA AckedStep == CustodyInv /\ [Next]_vars => AckedIsHeld'
  <1> SUFFICES ASSUME CustodyInv, [Next]_vars, NEW m \in Messages, tx'[m] = "acked"
               PROVE  Held(m)'
    BY DEF AckedIsHeld
  <1>0. TypeOK
    BY DEF CustodyInv
  <1>1. CASE tx[m] = "acked"
    BY <1>1, HeldStep DEF CustodyInv, AckedIsHeld
  <1>2. CASE Reply
    <2>1. CASE m = smtp.msg
      BY <1>2, <2>1, HeldStep DEF Reply, CustodyInv, SmtpKnows
    <2>2. CASE m # smtp.msg
      BY <1>0, <1>1, <1>2, <2>2 DEF Reply, TypeOK
    <2> QED
      BY <2>1, <2>2
  <1>3. CASE UNCHANGED vars
    BY <1>1, <1>3 DEF vars
  <1>4. ASSUME NEW n \in Messages, Rcpt(n) \/ Data(n) \/ Defer(n) PROVE Held(m)'
    BY <1>0, <1>1, <1>4 DEF Rcpt, Data, Defer, TypeOK
  <1>5. CASE CaptureOk \/ ArfOk \/ PostFailed \/ WriteTmp \/ Rename
    BY <1>1, <1>5 DEF CaptureOk, ArfOk, PostFailed, WriteTmp, Rename
  <1>6. CASE RetryStep
    BY <1>1, <1>6 DEF RetryStep, StartPass, Glob, RetryOk, Unlink, RetryFailed, Rewrite, EndPass,
                     DropInvalid, DropExpired, SkipRecent, RetryPost
  <1>7. CASE ApiStep
    BY <1>1, <1>7 DEF ApiStep, ApiCommit, ApiRefuse, LateCommit
  <1>8. CASE ReplyLost \/ QueueFailed
    BY <1>0, <1>1, <1>8 DEF ReplyLost, QueueFailed, TypeOK
  <1>9. CASE Crash
    BY <1>0, <1>1, <1>9 DEF Crash, TypeOK
  <1>10. CASE RetryFault \/ Tick
    BY <1>1, <1>10 DEF RetryFault, UnlinkFailed, ReadFailed, Tick
  <1> QED
    BY <1>2, <1>3, <1>4, <1>5, <1>6, <1>7, <1>8, <1>9, <1>10 DEF Next, SmtpStep

\* Only the main thread makes a file unreadable, and only a crash lets it leave
\* it so.
LEMMA TornStep == CustodyInv /\ [Next]_vars => TornKnown'
  <1> SUFFICES ASSUME CustodyInv, [Next]_vars, NEW id \in Files', queue'[id].file = "torn"
               PROVE  (retry'.pc = "rewrite" /\ retry'.id = id) \/ faults' > 0
    BY DEF TornKnown
  <1> DEFINE Goal == (retry'.pc = "rewrite" /\ retry'.id = id) \/ faults' > 0
  <1>0. TypeOK /\ TypeOK' /\ Grows /\ TornKnown /\ id \in ItemIds
    BY TypeStep, HistoryGrows DEF CustodyInv, Files
  <1>1. CASE faults > 0
    BY <1>0, <1>1 DEF Grows, TypeOK
  <1>2. CASE queue'[id] = queue[id] /\ retry' = retry
    BY <1>0, <1>1, <1>2 DEF TornKnown, Files
  <1>3. CASE queue'[id] = queue[id] /\ retry.pc # "rewrite"
    BY <1>0, <1>1, <1>3 DEF TornKnown, Files
  <1>4. CASE WriteTmp
    BY <1>0, <1>2, <1>4 DEF WriteTmp, TypeOK
  <1>5. CASE Rename
    <2>1. CASE id = smtp.id
      BY <1>0, <1>5, <2>1, FileIsItem DEF Rename, TypeOK, CustodyInv, SmtpKnows, Item
    <2> QED
      BY <1>0, <1>2, <1>5, <2>1 DEF Rename, TypeOK
  <1>6. ASSUME NEW i \in ItemIds, DropInvalid(i) PROVE Goal
    BY <1>0, <1>3, <1>6 DEF DropInvalid, Scanning, TypeOK, Files
  <1>7. ASSUME NEW i \in ItemIds, DropExpired(i) PROVE Goal
    BY <1>0, <1>3, <1>7 DEF DropExpired, Scanning, TypeOK, Files
  <1>8. CASE Unlink
    BY <1>0, <1>3, <1>8 DEF Unlink, TypeOK, Files
  <1>9. CASE RetryFailed
    <2>1. CASE id = retry.id
      BY <1>0, <1>9, <2>1 DEF RetryFailed, TypeOK
    <2>2. CASE id # retry.id
      BY <1>0, <1>3, <1>9, <2>2 DEF RetryFailed, TypeOK
    <2> QED
      BY <2>1, <2>2
  <1>10. CASE Rewrite
    <2>1. CASE id = retry.id
      BY <1>0, <1>10, <2>1, FileIsItem DEF Rewrite, TypeOK, CustodyInv, RetryKnows, Visible, Item
    <2>2. CASE id # retry.id
      <3>1. queue'[id] = queue[id]
        BY <1>0, <1>10, <2>2 DEF Rewrite, TypeOK
      <3> QED
        BY <1>0, <1>1, <2>2, <3>1 DEF TornKnown, Files
    <2> QED
      BY <2>1, <2>2
  <1>11. CASE UNCHANGED vars
    BY <1>2, <1>11 DEF vars
  <1>12. ASSUME NEW n \in Messages, Rcpt(n) \/ Data(n) \/ Defer(n) PROVE Goal
    BY <1>2, <1>12 DEF Rcpt, Data, Defer
  <1>13. CASE CaptureOk \/ ArfOk \/ PostFailed \/ Reply
    BY <1>2, <1>13 DEF CaptureOk, ArfOk, PostFailed, Reply
  <1>14. CASE StartPass \/ Glob \/ RetryOk \/ EndPass
    BY <1>3, <1>14 DEF StartPass, Glob, RetryOk, EndPass
  <1>15. ASSUME NEW i \in ItemIds, SkipRecent(i) \/ RetryPost(i) PROVE Goal
    BY <1>3, <1>15 DEF SkipRecent, RetryPost, Scanning
  <1>16. CASE ApiStep
    BY <1>2, <1>16 DEF ApiStep, ApiCommit, ApiRefuse, LateCommit
  <1>17. CASE ReplyLost \/ QueueFailed \/ Tick
    BY <1>2, <1>17 DEF ReplyLost, QueueFailed, Tick
  <1>18. CASE RetryFault \/ Crash
    BY <1>0, <1>18 DEF RetryFault, UnlinkFailed, ReadFailed, Crash, Fault, TypeOK
  <1> QED
    BY <1>4, <1>5, <1>6, <1>7, <1>8, <1>9, <1>10, <1>11, <1>12, <1>13, <1>14, <1>15, <1>16,
       <1>17, <1>18
       DEF Next, SmtpStep, RetryStep

\* A step that leaves the SMTP thread, its request and its temporary file
\* alone leaves what the thread knows.
LEMMA SmtpUndisturbed ==
    ASSUME CustodyInv, [Next]_vars, UNCHANGED <<smtp, req["smtp"]>>,
           smtp.pc = "rename" => queue'[smtp.id] = queue[smtp.id]
    PROVE  SmtpKnows'
  <1>0. TypeOK /\ SmtpKnows /\ smtp' = smtp /\ req'["smtp"] = req["smtp"]
    BY DEF CustodyInv
  <1>1. smtp.pc \in Kinds \cup {"reply"} => smtp.msg \in Messages
    BY <1>0 DEF SmtpKnows, Kinds
  <1>2. smtp.pc = "arf" => Stored(smtp.msg)'
    BY <1>0, <1>1, StoredStep DEF SmtpKnows, Kinds
  <1>3. smtp.pc = "capture" /\ req["smtp"] = "committed" => Stored(smtp.msg)'
    BY <1>0, <1>1, StoredStep DEF SmtpKnows, Kinds
  <1>4. smtp.pc = "reply" => Held(smtp.msg)'
    BY <1>0, <1>1, HeldStep DEF SmtpKnows
  <1> QED
    BY <1>0, <1>2, <1>3, <1>4 DEF SmtpKnows, Files

LEMMA SmtpStepKnows == CustodyInv /\ SmtpStep => SmtpKnows'
  <1> SUFFICES ASSUME CustodyInv, SmtpStep PROVE SmtpKnows'
    OBVIOUS
  <1>0. TypeOK /\ SmtpKnows /\ [Next]_vars
    BY DEF CustodyInv, Next
  <1>1. CASE CaptureOk
    <2>1. smtp.msg \in Messages /\ Stored(smtp.msg)
      BY <1>0, <1>1 DEF CaptureOk, SmtpKnows
    <2>2. smtp'.msg = smtp.msg
      BY <1>0, <1>1 DEF CaptureOk, TypeOK
    <2>3. Stored(smtp.msg)' /\ Held(smtp.msg)'
      BY <1>0, <2>1, <2>2, StoredStep DEF Held
    <2>4. CASE smtp' = [smtp EXCEPT !.pc = "arf"] /\ req' = [req EXCEPT !["smtp"] = "sent"]
      BY <1>0, <2>1, <2>3, <2>4 DEF SmtpKnows, Kinds, TypeOK, Threads
    <2>5. CASE smtp' = [smtp EXCEPT !.pc = "reply"] /\ req' = [req EXCEPT !["smtp"] = "none"]
      BY <1>0, <2>1, <2>3, <2>5 DEF SmtpKnows, Kinds, TypeOK, Threads
    <2> QED
      BY <1>1, <2>4, <2>5 DEF CaptureOk
  <1>2. CASE ArfOk
    <2>1. smtp.msg \in Messages /\ Stored(smtp.msg)
      BY <1>0, <1>2 DEF ArfOk, SmtpKnows
    <2>2. smtp'.msg = smtp.msg /\ smtp'.pc = "reply" /\ req'["smtp"] = "none"
      BY <1>0, <1>2 DEF ArfOk, TypeOK, Threads
    <2>3. Held(smtp.msg)'
      BY <1>0, <2>1, <2>2, StoredStep DEF Held
    <2> QED
      BY <2>1, <2>2, <2>3 DEF SmtpKnows, Kinds
  <1>3. CASE PostFailed
    <2>1. smtp'.pc = "tmp" /\ smtp'.msg = smtp.msg /\ req'["smtp"] = "none"
      BY <1>0, <1>3 DEF PostFailed, GiveUp, TypeOK, Threads
    <2>2. smtp.msg \in Messages
      BY <1>0, <1>3 DEF PostFailed, SmtpKnows, Kinds
    <2> QED
      BY <2>1, <2>2 DEF SmtpKnows, Kinds
  <1>4. CASE WriteTmp
    <2>1. PICK id \in ItemIds \ Files :
             /\ queue' = [queue EXCEPT ![id] =
                    [file |-> "tmp", msg |-> smtp.msg, created |-> clock,
                     last |-> clock, attempts |-> 1]]
             /\ smtp' = [smtp EXCEPT !.pc = "rename", !.id = id]
      BY <1>4 DEF WriteTmp
    <2>2. /\ smtp'.pc = "rename" /\ smtp'.id = id /\ smtp'.msg = smtp.msg
          /\ req'["smtp"] = "none" /\ smtp.msg \in Messages
      BY <1>0, <1>4, <2>1 DEF WriteTmp, TypeOK, SmtpKnows, Kinds, Threads
    <2>3. queue'[id].file = "tmp" /\ queue'[id].msg = smtp.msg
      BY <1>0, <2>1 DEF TypeOK
    <2>4. queue'[id] \in Item
      BY <1>0, <2>1, <2>2 DEF TypeOK, Item, CapTypeOK
    <2>5. id \in Files'
      BY <2>1, <2>4, ItemFields DEF Files
    <2> QED
      BY <2>2, <2>3, <2>5 DEF SmtpKnows, Kinds
  <1>5. CASE Rename
    <2>1. smtp.id \in ItemIds /\ queue[smtp.id] \in Item /\ queue[smtp.id].msg = smtp.msg
          /\ smtp.msg \in Messages
      BY <1>0, <1>5, FileIsItem DEF Rename, SmtpKnows
    <2>2. smtp'.pc = "reply" /\ smtp'.msg = smtp.msg /\ req'["smtp"] = "none"
      BY <1>0, <1>5 DEF Rename, TypeOK, SmtpKnows, Kinds, Threads
    <2>3. queue'[smtp.id] = [queue[smtp.id] EXCEPT !.file = "json"]
      BY <1>0, <1>5, <2>1 DEF Rename, TypeOK
    <2>4. /\ queue'[smtp.id] \in Item
          /\ queue'[smtp.id].file = "json"
          /\ queue'[smtp.id].msg = smtp.msg
      BY <2>1, <2>3 DEF Item
    <2>5. smtp.id \in Visible'
      BY <2>1, <2>4, ItemFields DEF Visible, Files
    <2>6. Held(smtp.msg)'
      BY <2>2, <2>4, <2>5 DEF Held, Queued
    <2> QED
      BY <2>1, <2>2, <2>6 DEF SmtpKnows, Kinds
  <1>6. CASE Reply
    <2>1. smtp'.pc = "idle" /\ req'["smtp"] = "none"
      BY <1>0, <1>6 DEF Reply, IdleSmtp, TypeOK, SmtpKnows, Kinds, Threads
    <2> QED
      BY <2>1 DEF SmtpKnows, Kinds
  <1> QED
    BY <1>1, <1>2, <1>3, <1>4, <1>5, <1>6 DEF SmtpStep

LEMMA SmtpKnowsStep == CustodyInv /\ [Next]_vars => SmtpKnows'
  <1> SUFFICES ASSUME CustodyInv, [Next]_vars PROVE SmtpKnows'
    OBVIOUS
  <1>0. TypeOK /\ TypeOK' /\ SmtpKnows /\ RetryKnows
    BY TypeStep DEF CustodyInv
  <1>1. CASE SmtpStep
    BY <1>1, SmtpStepKnows
  <1>2. CASE smtp' = smtp /\ req'["smtp"] = req["smtp"] /\ queue' = queue
    BY <1>2, SmtpUndisturbed
  <1>3. CASE /\ smtp' = smtp /\ req'["smtp"] = req["smtp"]
             /\ \E id \in Visible : \A i \in ItemIds \ {id} : queue'[i] = queue[i]
    <2>1. smtp.pc = "rename" => smtp.id \in ItemIds \ Visible
      BY <1>0 DEF SmtpKnows, Visible, Files
    <2> QED
      BY <1>3, <2>1, SmtpUndisturbed
  <1>4. CASE smtp'.pc = "idle" /\ req'["smtp"] = "none"
    BY <1>4 DEF SmtpKnows
  <1>5. CASE UNCHANGED vars
    BY <1>2, <1>5 DEF vars
  <1>6. ASSUME NEW m \in Messages, Rcpt(m) \/ Defer(m) PROVE SmtpKnows'
    BY <1>2, <1>6 DEF Rcpt, Defer
  <1>7. ASSUME NEW m \in Messages, Data(m) PROVE SmtpKnows'
    <2>1. smtp'.pc = "capture" /\ smtp'.msg = m /\ req'["smtp"] = "sent"
      BY <1>0, <1>7 DEF Data, TypeOK, Threads
    <2> QED
      BY <2>1 DEF SmtpKnows, Kinds
  <1>8. CASE StartPass \/ Glob \/ EndPass
    BY <1>2, <1>8 DEF StartPass, Glob, EndPass
  <1>9. CASE RetryOk
    BY <1>0, <1>2, <1>9 DEF RetryOk, TypeOK, Threads
  <1>10. CASE Unlink
    <2>1. retry.id \in Visible
      BY <1>0, <1>10 DEF Unlink, RetryKnows
    <2> QED
      BY <1>0, <1>3, <1>10, <2>1 DEF Unlink, TypeOK
  <1>11. CASE RetryFailed
    <2>1. retry.id \in Visible
      BY <1>0, <1>11 DEF RetryFailed, RetryKnows
    <2> QED
      BY <1>0, <1>3, <1>11, <2>1 DEF RetryFailed, GiveUp, TypeOK, Threads
  <1>12. CASE Rewrite
    <2>1. retry.id \in Visible
      BY <1>0, <1>12 DEF Rewrite, RetryKnows
    <2> QED
      BY <1>0, <1>3, <1>12, <2>1 DEF Rewrite, TypeOK
  <1>13. ASSUME NEW id \in ItemIds, DropInvalid(id) \/ DropExpired(id) PROVE SmtpKnows'
    <2>1. id \in Visible
      BY <1>0, <1>13 DEF DropInvalid, DropExpired, Scanning, RetryKnows
    <2> QED
      BY <1>0, <1>3, <1>13, <2>1 DEF DropInvalid, DropExpired, TypeOK
  <1>14. ASSUME NEW id \in ItemIds, SkipRecent(id) \/ RetryPost(id) PROVE SmtpKnows'
    BY <1>0, <1>2, <1>14 DEF SkipRecent, RetryPost, TypeOK, Threads
  <1>15. ASSUME NEW t \in Threads, ApiCommit(t) PROVE SmtpKnows'
    <2>1. CASE t = "retry"
      BY <1>0, <1>2, <1>15, <2>1 DEF ApiCommit, TypeOK, Threads
    <2>2. CASE t = "smtp"
      <3>1. /\ req["smtp"] = "sent" /\ req'["smtp"] = "committed"
            /\ rows' = [rows EXCEPT ![Posted("smtp")] = @ + 1]
            /\ smtp' = smtp
        BY <1>0, <1>15, <2>2 DEF ApiCommit, TypeOK, Threads
      <3>2. smtp.pc \in Kinds /\ smtp.msg \in Messages
        BY <1>0, <3>1 DEF SmtpKnows, Kinds
      <3>3. smtp.pc = "capture" => Stored(smtp.msg)'
        <4>1. <<smtp.msg, "capture">> \in Payloads
          BY <3>2 DEF Payloads, Kinds
        <4> QED
          BY <1>0, <3>1, <4>1 DEF Stored, Posted, TypeOK
      <3>4. smtp.pc = "arf" => Stored(smtp.msg)'
        BY <1>0, <3>1, <3>2, StoredStep DEF SmtpKnows
      <3> QED
        BY <3>1, <3>2, <3>3, <3>4 DEF SmtpKnows, Kinds
    <2> QED
      BY <2>1, <2>2 DEF Threads
  <1>16. ASSUME NEW t \in Threads, ApiRefuse(t) PROVE SmtpKnows'
    <2>1. CASE t = "retry"
      BY <1>0, <1>2, <1>16, <2>1 DEF ApiRefuse, TypeOK, Threads
    <2>2. CASE t = "smtp"
      <3>1. req["smtp"] = "sent" /\ req'["smtp"] = "refused" /\ smtp' = smtp /\ rows' = rows
        BY <1>0, <1>16, <2>2 DEF ApiRefuse, TypeOK, Threads, apivars
      <3>2. smtp.pc \in Kinds /\ smtp.msg \in Messages
        BY <1>0, <3>1 DEF SmtpKnows, Kinds
      <3>3. smtp.pc = "arf" => Stored(smtp.msg)'
        BY <1>0, <3>1 DEF SmtpKnows, Stored
      <3> QED
        BY <3>1, <3>2, <3>3 DEF SmtpKnows, Kinds
    <2> QED
      BY <2>1, <2>2 DEF Threads
  <1>17. ASSUME NEW p \in Payloads, LateCommit(p) PROVE SmtpKnows'
    BY <1>2, <1>17 DEF LateCommit
  <1>18. CASE Tick
    BY <1>2, <1>18 DEF Tick
  <1>19. CASE ReplyLost \/ QueueFailed \/ Crash
    <2>1. req["smtp"] # "none" => smtp.pc \in Kinds
      BY <1>0 DEF SmtpKnows
    <2> QED
      BY <1>0, <1>4, <1>19, <2>1
         DEF ReplyLost, QueueFailed, Crash, IdleSmtp, TypeOK, Kinds, Threads
  <1>20. ASSUME NEW id \in ItemIds, ReadFailed(id) PROVE SmtpKnows'
    <2>1. id \in Visible
      BY <1>0, <1>20 DEF ReadFailed, Scanning, RetryKnows
    <2> QED
      BY <1>0, <1>3, <1>20, <2>1 DEF ReadFailed, TypeOK
  <1>21. CASE UnlinkFailed
    <2>1. retry.id \in Visible
      BY <1>0, <1>21 DEF UnlinkFailed, RetryKnows
    <2> QED
      BY <1>0, <1>3, <1>21, <2>1 DEF UnlinkFailed, TypeOK
  <1> QED
    BY <1>1, <1>5, <1>6, <1>7, <1>8, <1>9, <1>10, <1>11, <1>12, <1>13, <1>14, <1>15, <1>16,
       <1>17, <1>18, <1>19, <1>20, <1>21
       DEF Next, RetryStep, RetryFault, ApiStep

\* A file that is unchanged stays visible.
LEMMA VisibleUnchanged ==
    ASSUME NEW id \in Visible, queue'[id] = queue[id]
    PROVE  id \in Visible'
  BY DEF Visible, Files

\* The pcs at which the main thread holds a file.
Holding == {"posting", "unlink", "rewrite"}

\* A step that leaves the main thread, its request and every visible file
\* alone leaves what the thread knows.
LEMMA RetryUndisturbed ==
    ASSUME CustodyInv, [Next]_vars, UNCHANGED <<retry, req["retry"]>>,
           \A id \in Visible : queue'[id] = queue[id]
    PROVE  RetryKnows'
  <1>0. TypeOK /\ RetryKnows /\ retry' = retry /\ req'["retry"] = req["retry"]
    BY DEF CustodyInv
  <1>1. \A id \in Visible : id \in Visible' /\ queue'[id] = queue[id]
    BY VisibleUnchanged
  <1>2. ASSUME retry.pc \in {"posting", "unlink"}, Stored(queue[retry.id].msg)
        PROVE  Stored(queue[retry.id].msg)'
    <2>1. retry.id \in Visible /\ queue'[retry.id] = queue[retry.id] /\ retry'.id = retry.id
      BY <1>0, <1>1, <1>2 DEF RetryKnows
    <2>2. queue[retry.id].msg \in Messages
      BY <1>0, <2>1, FileIsItem, ItemFields DEF Visible
    <2>3. PICK m \in Messages : m = queue[retry.id].msg
      BY <2>2
    <2>4. Stored(m)'
      BY <1>2, <2>3, StoredStep
    <2> QED
      BY <2>1, <2>3, <2>4 DEF Stored
  <1>3. req["retry"] = "committed" => retry.pc = "posting"
    BY <1>0 DEF RetryKnows
  <1> QED
    BY <1>0, <1>1, <1>2, <1>3 DEF RetryKnows

LEMMA RetryStepKnows == CustodyInv /\ RetryStep => RetryKnows'
  <1> SUFFICES ASSUME CustodyInv, RetryStep PROVE RetryKnows'
    OBVIOUS
  <1>0. TypeOK /\ RetryKnows /\ [Next]_vars /\ retry.todo \subseteq Visible
    BY DEF CustodyInv, Next, RetryKnows
  <1>1. CASE StartPass
    <2>1. /\ retry'.pc = "glob" /\ retry'.todo = retry.todo
          /\ req'["retry"] = "none" /\ queue' = queue
      BY <1>0, <1>1 DEF StartPass, TypeOK, RetryKnows, Threads
    <2> QED
      BY <1>0, <2>1, VisibleUnchanged DEF RetryKnows
  <1>2. CASE Glob
    <2>1. /\ retry'.pc = "scan" /\ retry'.todo = Visible
          /\ req'["retry"] = "none" /\ queue' = queue
      BY <1>0, <1>2 DEF Glob, TypeOK, RetryKnows, Threads
    <2> QED
      BY <2>1, VisibleUnchanged DEF RetryKnows
  <1>3. CASE EndPass
    <2>1. retry'.pc = "sleep" /\ retry'.todo = {} /\ req'["retry"] = "none"
      BY <1>0, <1>3 DEF EndPass, AsleepRetry, TypeOK, RetryKnows, Threads
    <2> QED
      BY <2>1 DEF RetryKnows
  <1>4. ASSUME NEW id \in ItemIds, DropInvalid(id) \/ DropExpired(id) PROVE RetryKnows'
    <2>1. /\ retry'.pc = "scan" /\ retry'.todo = retry.todo \ {id} /\ req'["retry"] = "none"
          /\ \A i \in ItemIds \ {id} : queue'[i] = queue[i]
      BY <1>0, <1>4 DEF DropInvalid, DropExpired, Scanning, TypeOK, RetryKnows, Threads
    <2>2. retry'.todo \subseteq Visible'
      BY <1>0, <2>1, VisibleUnchanged DEF Visible, Files
    <2> QED
      BY <2>1, <2>2 DEF RetryKnows
  <1>5. ASSUME NEW id \in ItemIds, SkipRecent(id) PROVE RetryKnows'
    <2>1. /\ retry'.pc = "scan" /\ retry'.todo = retry.todo \ {id} /\ req'["retry"] = "none"
          /\ queue' = queue
      BY <1>0, <1>5 DEF SkipRecent, Scanning, TypeOK, RetryKnows, Threads
    <2> QED
      BY <1>0, <2>1, VisibleUnchanged DEF RetryKnows
  <1>6. ASSUME NEW id \in ItemIds, RetryPost(id) PROVE RetryKnows'
    <2>1. /\ retry'.pc = "posting" /\ retry'.todo = retry.todo \ {id} /\ retry'.id = id
          /\ req'["retry"] = "sent" /\ queue' = queue
          /\ id \in Visible /\ queue[id].file = "json"
      BY <1>0, <1>6 DEF RetryPost, Scanning, TypeOK, Threads
    <2> QED
      BY <1>0, <2>1, VisibleUnchanged DEF RetryKnows
  <1>7. CASE RetryOk
    <2>1. /\ retry'.pc = "unlink" /\ retry'.todo = retry.todo /\ retry'.id = retry.id
          /\ req'["retry"] = "none" /\ queue' = queue /\ rows' = rows
          /\ retry.pc = "posting" /\ req["retry"] = "committed"
      BY <1>0, <1>7 DEF RetryOk, TypeOK, Threads, apivars
    <2>2. Stored(queue[retry.id].msg)'
      BY <1>0, <2>1 DEF RetryKnows, Stored
    <2> QED
      BY <1>0, <2>1, <2>2, VisibleUnchanged DEF RetryKnows
  <1>8. CASE Unlink
    <2>1. /\ retry'.pc = "scan" /\ retry'.todo = retry.todo /\ req'["retry"] = "none"
          /\ retry.id \notin retry.todo
          /\ \A i \in ItemIds \ {retry.id} : queue'[i] = queue[i]
      BY <1>0, <1>8 DEF Unlink, TypeOK, RetryKnows, Threads
    <2>2. retry'.todo \subseteq Visible'
      BY <1>0, <2>1, VisibleUnchanged DEF Visible, Files
    <2> QED
      BY <2>1, <2>2 DEF RetryKnows
  <1>9. CASE RetryFailed
    <2>1. /\ retry'.pc = "rewrite" /\ retry'.todo = retry.todo /\ retry'.id = retry.id
          /\ req'["retry"] = "none" /\ retry.id \notin retry.todo
          /\ retry.id \in ItemIds /\ queue[retry.id] \in Item
          /\ \A i \in ItemIds \ {retry.id} : queue'[i] = queue[i]
      BY <1>0, <1>9, FileIsItem DEF RetryFailed, GiveUp, TypeOK, RetryKnows, Threads, Visible
    <2>2. queue'[retry.id] = [queue[retry.id] EXCEPT !.file = "torn"]
      BY <1>0, <1>9, <2>1 DEF RetryFailed, TypeOK
    <2>3. queue'[retry.id] \in Item /\ queue'[retry.id].file = "torn"
      BY <2>1, <2>2 DEF Item
    <2>4. retry.id \in Visible'
      BY <2>1, <2>3, ItemFields DEF Visible, Files
    <2>5. retry'.todo \subseteq Visible'
      BY <1>0, <2>1, VisibleUnchanged DEF Visible, Files
    <2> QED
      BY <2>1, <2>3, <2>4, <2>5 DEF RetryKnows
  <1>10. CASE Rewrite
    <2>1. /\ retry'.pc = "scan" /\ retry'.todo = retry.todo /\ req'["retry"] = "none"
          /\ retry.id \notin retry.todo
          /\ \A i \in ItemIds \ {retry.id} : queue'[i] = queue[i]
      BY <1>0, <1>10 DEF Rewrite, TypeOK, RetryKnows, Threads
    <2>2. retry'.todo \subseteq Visible'
      BY <1>0, <2>1, VisibleUnchanged DEF Visible, Files
    <2> QED
      BY <2>1, <2>2 DEF RetryKnows
  <1> QED
    BY <1>1, <1>2, <1>3, <1>4, <1>5, <1>6, <1>7, <1>8, <1>9, <1>10 DEF RetryStep

\* A scan that loses a file to a read error, and a delivered item that could not
\* be unlinked, leave the main thread as certain as before.
LEMMA RetryFaultKnows == CustodyInv /\ RetryFault => RetryKnows'
  <1> SUFFICES ASSUME CustodyInv, RetryFault PROVE RetryKnows'
    OBVIOUS
  <1>0. TypeOK /\ RetryKnows /\ retry.todo \subseteq Visible
    BY DEF CustodyInv, RetryKnows
  <1>1. ASSUME NEW id \in ItemIds, ReadFailed(id) PROVE RetryKnows'
    <2>1. /\ retry'.pc = "scan" /\ retry'.todo = retry.todo \ {id} /\ req'["retry"] = "none"
          /\ \A i \in ItemIds \ {id} : queue'[i] = queue[i]
      BY <1>0, <1>1 DEF ReadFailed, Scanning, TypeOK, RetryKnows, Threads
    <2>2. retry'.todo \subseteq Visible'
      BY <1>0, <2>1, VisibleUnchanged DEF Visible, Files
    <2> QED
      BY <2>1, <2>2 DEF RetryKnows
  <1>2. CASE UnlinkFailed
    <2>1. /\ retry'.pc = "rewrite" /\ retry'.todo = retry.todo /\ retry'.id = retry.id
          /\ req'["retry"] = "none" /\ retry.id \notin retry.todo
          /\ retry.id \in ItemIds /\ queue[retry.id] \in Item
          /\ \A i \in ItemIds \ {retry.id} : queue'[i] = queue[i]
      BY <1>0, <1>2, FileIsItem DEF UnlinkFailed, TypeOK, RetryKnows, Threads, Visible
    <2>2. queue'[retry.id] = [queue[retry.id] EXCEPT !.file = "torn"]
      BY <1>0, <1>2, <2>1 DEF UnlinkFailed, TypeOK
    <2>3. queue'[retry.id] \in Item /\ queue'[retry.id].file = "torn"
      BY <2>1, <2>2 DEF Item
    <2>4. retry.id \in Visible'
      BY <2>1, <2>3, ItemFields DEF Visible, Files
    <2>5. retry'.todo \subseteq Visible'
      BY <1>0, <2>1, VisibleUnchanged DEF Visible, Files
    <2> QED
      BY <2>1, <2>3, <2>4, <2>5 DEF RetryKnows
  <1> QED
    BY <1>1, <1>2 DEF RetryFault

LEMMA RetryKnowsStep == CustodyInv /\ [Next]_vars => RetryKnows'
  <1> SUFFICES ASSUME CustodyInv, [Next]_vars PROVE RetryKnows'
    OBVIOUS
  <1>0. TypeOK /\ RetryKnows /\ SmtpKnows
    BY DEF CustodyInv
  <1>1. CASE RetryStep
    BY <1>1, RetryStepKnows
  <1>2. CASE retry' = retry /\ req'["retry"] = req["retry"] /\ queue' = queue
    BY <1>2, RetryUndisturbed
  <1>3. CASE UNCHANGED vars
    BY <1>2, <1>3 DEF vars
  <1>4. ASSUME NEW m \in Messages, Rcpt(m) \/ Data(m) \/ Defer(m) PROVE RetryKnows'
    BY <1>0, <1>2, <1>4 DEF Rcpt, Data, Defer, TypeOK, Threads
  <1>5. CASE CaptureOk \/ ArfOk \/ PostFailed \/ Reply
    BY <1>0, <1>2, <1>5 DEF CaptureOk, ArfOk, PostFailed, GiveUp, Reply, TypeOK, Threads
  <1>6. CASE WriteTmp
    <2>1. \A id \in Visible : queue'[id] = queue[id]
      BY <1>0, <1>6 DEF WriteTmp, TypeOK, Visible, Files
    <2> QED
      BY <1>6, <2>1, RetryUndisturbed DEF WriteTmp
  <1>7. CASE Rename
    <2>1. \A id \in Visible : queue'[id] = queue[id]
      BY <1>0, <1>7 DEF Rename, SmtpKnows, TypeOK, Visible, Files
    <2> QED
      BY <1>7, <2>1, RetryUndisturbed DEF Rename
  <1>8. ASSUME NEW t \in Threads, ApiCommit(t) PROVE RetryKnows'
    <2>1. CASE t = "smtp"
      BY <1>0, <1>2, <1>8, <2>1 DEF ApiCommit, TypeOK, Threads
    <2>2. CASE t = "retry"
      <3>1. /\ req["retry"] = "sent" /\ req'["retry"] = "committed"
            /\ rows' = [rows EXCEPT ![Posted("retry")] = @ + 1]
            /\ retry' = retry /\ queue' = queue
        BY <1>0, <1>8, <2>2 DEF ApiCommit, TypeOK, Threads
      <3>2. retry.pc = "posting" /\ retry.id \in Visible /\ queue[retry.id].msg \in Messages
        BY <1>0, <3>1, FileIsItem, ItemFields DEF RetryKnows, Visible
      <3>3. Stored(queue[retry.id].msg)'
        <4>1. <<queue[retry.id].msg, "capture">> \in Payloads
          BY <3>2 DEF Payloads, Kinds
        <4> QED
          BY <1>0, <3>1, <4>1 DEF Stored, Posted, TypeOK
      <3> QED
        BY <1>0, <3>1, <3>2, <3>3, VisibleUnchanged DEF RetryKnows
    <2> QED
      BY <2>1, <2>2 DEF Threads
  <1>9. ASSUME NEW t \in Threads, ApiRefuse(t) PROVE RetryKnows'
    <2>1. CASE t = "smtp"
      BY <1>0, <1>2, <1>9, <2>1 DEF ApiRefuse, TypeOK, Threads
    <2>2. CASE t = "retry"
      <3>1. /\ req["retry"] = "sent" /\ req'["retry"] = "refused"
            /\ retry' = retry /\ queue' = queue
        BY <1>0, <1>9, <2>2 DEF ApiRefuse, TypeOK, Threads
      <3> QED
        BY <1>0, <3>1, VisibleUnchanged DEF RetryKnows
    <2> QED
      BY <2>1, <2>2 DEF Threads
  <1>10. ASSUME NEW p \in Payloads, LateCommit(p) PROVE RetryKnows'
    BY <1>2, <1>10 DEF LateCommit
  <1>11. CASE ReplyLost \/ QueueFailed \/ Tick
    BY <1>2, <1>11 DEF ReplyLost, QueueFailed, Tick
  <1>12. CASE Crash
    <2>1. retry'.pc = "sleep" /\ retry'.todo = {} /\ req'["retry"] = "none"
      BY <1>12 DEF Crash, AsleepRetry, Threads
    <2> QED
      BY <2>1 DEF RetryKnows
  <1>13. CASE RetryFault
    BY <1>13, RetryFaultKnows
  <1> QED
    BY <1>1, <1>3, <1>4, <1>5, <1>6, <1>7, <1>8, <1>9, <1>10, <1>11, <1>12, <1>13
       DEF Next, SmtpStep, ApiStep

LEMMA CustodyStep == CustodyInv /\ [Next]_vars => CustodyInv'
  BY TypeStep, AckedStep, SmtpKnowsStep, RetryKnowsStep, TornStep DEF CustodyInv

LEMMA CustodyAlways == Spec => []CustodyInv
  BY CustodyInit, CustodyStep, PTL DEF Spec

\* Every variable keeps its type in every run.
THEOREM TypeCorrect == Spec => []TypeOK
  BY CustodyAlways, PTL DEF CustodyInv

\* Whatever crashes, timeouts and refusals happen, a message that was answered
\* 250 is stored, in a file the retry loop will read, or given up on as too
\* old; otherwise a crash or a read error destroyed its file.
THEOREM AckedMailIsHeld == Spec => []AckedIsHeld
  BY CustodyAlways, PTL DEF CustodyInv

(***************************************************************************)
(* Retries: their number, and when a file may go.                          *)
(***************************************************************************)

\* The attempts written in a file fit in the time they are spread over.
Spaced(it) ==
    /\ (it.attempts - 1) * RetryInterval <= it.last - it.created
    /\ it.last - it.created <= MaxRetryWindow

\* Every file is spaced, and the one being retried was due when its pass began.
SpacingInv ==
    /\ retry.now <= clock
    /\ \A id \in Files : Spaced(queue[id])
    /\ retry.pc \in Holding =>
          /\ retry.now - queue[retry.id].last >= RetryInterval
          /\ retry.now - queue[retry.id].created <= MaxRetryWindow

LEMMA SpacingInit == Init => SpacingInv
  BY BridgeAssumption DEF Init, SpacingInv, Files, AsleepRetry, CapInit, Holding

\* Time does not run backwards.
LEMMA ClockStep == CustodyInv /\ [Next]_vars => clock' >= clock
  <1> SUFFICES ASSUME CustodyInv, [Next]_vars PROVE clock' >= clock
    OBVIOUS
  <1>0. clock \in Nat
    BY DEF CustodyInv, TypeOK, CapTypeOK
  <1>1. CASE clock' = clock
    BY <1>0, <1>1
  <1>2. CASE UNCHANGED vars
    BY <1>1, <1>2 DEF vars, capvars
  <1>3. ASSUME NEW m \in Messages, Rcpt(m) \/ Data(m) \/ Defer(m) PROVE clock' >= clock
    BY <1>1, <1>3 DEF Rcpt, Data, Defer, Admit, Refuse, capvars
  <1>4. CASE SmtpStep
    BY <1>1, <1>4 DEF SmtpStep, CaptureOk, ArfOk, PostFailed, WriteTmp, Rename, Reply, capvars
  <1>5. CASE RetryStep
    BY <1>1, <1>5 DEF RetryStep, StartPass, Glob, RetryOk, Unlink, RetryFailed, Rewrite, EndPass,
                     DropInvalid, DropExpired, SkipRecent, RetryPost, capvars
  <1>6. CASE ApiStep
    BY <1>1, <1>6 DEF ApiStep, ApiCommit, ApiRefuse, LateCommit, capvars
  <1>7. CASE ReplyLost \/ QueueFailed \/ RetryFault \/ Crash
    BY <1>1, <1>7 DEF ReplyLost, QueueFailed, RetryFault, UnlinkFailed, ReadFailed, Crash, Restart,
                     capvars
  <1>8. CASE Tick
    BY <1>0, <1>8 DEF Tick, CapTick
  <1> QED
    BY <1>2, <1>3, <1>4, <1>5, <1>6, <1>7, <1>8 DEF Next

\* Changing the readability of a file does not disturb its spacing.
LEMMA SpacedFile ==
    ASSUME NEW it \in Item, Spaced(it), NEW f
    PROVE  Spaced([it EXCEPT !.file = f])
  BY DEF Spaced, Item

\* One more attempt, due at now, keeps a file spaced.
LEMMA SpacedRetry ==
    ASSUME NEW it \in Item, Spaced(it), NEW now \in Nat,
           now - it.last >= RetryInterval,
           now - it.created <= MaxRetryWindow
    PROVE  Spaced([it EXCEPT !.file = "json", !.last = now, !.attempts = @ + 1])
  <1> DEFINE new == [it EXCEPT !.file = "json", !.last = now, !.attempts = @ + 1]
  <1>1. /\ it.attempts \in Nat /\ it.last \in Nat /\ it.created \in Nat
        /\ RetryInterval \in Nat /\ MaxRetryWindow \in Nat
    BY ItemFields, BridgeAssumption
  <1>2. new.attempts = it.attempts + 1 /\ new.last = now /\ new.created = it.created
    BY DEF Item
  <1>3. (it.attempts + 1 - 1) * RetryInterval = (it.attempts - 1) * RetryInterval + RetryInterval
    BY <1>1
  <1>4. (it.attempts - 1) * RetryInterval \in Int
    BY <1>1
  <1>5. (it.attempts + 1 - 1) * RetryInterval <= now - it.created
    BY <1>1, <1>3, <1>4 DEF Spaced
  <1>6. Spaced(new)
    <2> HIDE DEF new
    <2>1. (new.attempts - 1) * RetryInterval <= new.last - new.created
      <3>1. new.attempts - 1 = it.attempts + 1 - 1
        BY <1>1, <1>2
      <3>2. (new.attempts - 1) * RetryInterval = (it.attempts + 1 - 1) * RetryInterval
        BY ONLY <3>1
      <3> QED
        BY <1>2, <1>5, <3>2
    <2>2. new.last - new.created <= MaxRetryWindow
      BY <1>2
    <2> QED
      BY <2>1, <2>2 DEF Spaced
  <1> QED
    BY <1>6

LEMMA SpacingStep == CustodyInv /\ SpacingInv /\ [Next]_vars => SpacingInv'
  <1> SUFFICES ASSUME CustodyInv, SpacingInv, [Next]_vars PROVE SpacingInv'
    OBVIOUS
  <1>0. /\ TypeOK /\ TypeOK' /\ RetryKnows /\ SmtpKnows
        /\ clock \in Nat /\ clock' \in Nat /\ clock' >= clock
        /\ retry.now \in Nat
    BY TypeStep, ClockStep DEF CustodyInv, TypeOK, CapTypeOK
  <1> USE DEF Holding
  <1>1. ASSUME queue' = queue, retry' = retry PROVE SpacingInv'
    BY <1>0, <1>1 DEF SpacingInv, Files
  <1>2. ASSUME \A id \in ItemIds : queue'[id] \in {queue[id], None},
               retry'.pc \notin Holding,
               retry'.now \in {retry.now, clock, 0}
        PROVE  SpacingInv'
    <2>1. ASSUME NEW id \in Files' PROVE Spaced(queue'[id])
      <3>1. id \in ItemIds /\ queue'[id] = queue[id] /\ id \in Files
        BY <1>2, <2>1 DEF Files
      <3> QED
        BY <3>1 DEF SpacingInv
    <2>2. retry'.now <= clock'
      BY <1>0, <1>2 DEF SpacingInv
    <2> QED
      BY <1>2, <2>1, <2>2 DEF SpacingInv
  <1>3. ASSUME NEW id \in ItemIds,
               \A i \in ItemIds \ {id} : queue'[i] = queue[i],
               queue'[id] # None => Spaced(queue'[id]),
               retry'.now = retry.now,
               \/ retry'.pc \notin Holding
               \/ /\ retry' = retry /\ retry.id # id /\ retry.id \in ItemIds
               \/ /\ retry'.id = id /\ retry.id = id /\ retry.pc \in Holding
                  /\ queue'[id].last = queue[id].last
                  /\ queue'[id].created = queue[id].created
        PROVE  SpacingInv'
    <2>1. \A i \in Files' : Spaced(queue'[i])
      BY <1>3 DEF SpacingInv, Files
    <2> QED
      BY <1>0, <1>3, <2>1 DEF SpacingInv
  <1>4. CASE UNCHANGED vars
    BY <1>1, <1>4 DEF vars
  <1>5. ASSUME NEW m \in Messages, Rcpt(m) \/ Data(m) \/ Defer(m) PROVE SpacingInv'
    BY <1>1, <1>5 DEF Rcpt, Data, Defer
  <1>6. CASE CaptureOk \/ ArfOk \/ PostFailed \/ Reply
    BY <1>1, <1>6 DEF CaptureOk, ArfOk, PostFailed, Reply
  <1>7. CASE WriteTmp
    <2>1. PICK id \in ItemIds \ Files :
             queue' = [queue EXCEPT ![id] =
                    [file |-> "tmp", msg |-> smtp.msg, created |-> clock,
                     last |-> clock, attempts |-> 1]]
      BY <1>7 DEF WriteTmp
    <2>2. retry' = retry
      BY <1>7 DEF WriteTmp
    <2>3. Spaced(queue'[id])
      BY <1>0, <2>1, BridgeAssumption DEF Spaced, TypeOK
    <2>4. retry.pc \in Holding => retry.id \in ItemIds /\ retry.id # id
      BY <1>0, <2>1 DEF RetryKnows, Visible, Files
    <2>5. \A i \in ItemIds \ {id} : queue'[i] = queue[i]
      BY <1>0, <2>1 DEF TypeOK
    <2> QED
      BY <1>3, <2>2, <2>3, <2>4, <2>5
  <1>8. CASE Rename
    <2>1. smtp.id \in ItemIds /\ smtp.id \in Files /\ queue[smtp.id] \in Item
      BY <1>0, <1>8, FileIsItem DEF Rename, SmtpKnows
    <2>2. queue'[smtp.id] = [queue[smtp.id] EXCEPT !.file = "json"] /\ retry' = retry
      BY <1>0, <1>8, <2>1 DEF Rename, TypeOK
    <2>3. Spaced(queue'[smtp.id])
      BY <2>1, <2>2, SpacedFile DEF SpacingInv
    <2>4. retry.pc \in Holding => retry.id \in ItemIds /\ retry.id # smtp.id
      BY <1>0, <1>8 DEF Rename, SmtpKnows, RetryKnows, Visible, Files
    <2>5. \A i \in ItemIds \ {smtp.id} : queue'[i] = queue[i]
      BY <1>0, <1>8 DEF Rename, TypeOK
    <2> QED
      BY <1>3, <2>1, <2>2, <2>3, <2>4, <2>5
  <1>9. CASE StartPass \/ Glob \/ RetryOk \/ EndPass
    <2>1. CASE StartPass
      BY <1>0, <1>2, <2>1 DEF StartPass, TypeOK
    <2>2. CASE Glob
      BY <1>0, <1>2, <2>2 DEF Glob, TypeOK
    <2>3. CASE RetryOk
      BY <1>0, <2>3 DEF RetryOk, TypeOK, SpacingInv, Files
    <2>4. CASE EndPass
      BY <1>0, <1>2, <2>4 DEF EndPass, AsleepRetry
    <2> QED
      BY <1>9, <2>1, <2>2, <2>3, <2>4
  <1>10. ASSUME NEW id \in ItemIds, DropInvalid(id) \/ DropExpired(id) \/ SkipRecent(id)
         PROVE  SpacingInv'
    BY <1>0, <1>2, <1>10 DEF DropInvalid, DropExpired, SkipRecent, Scanning, TypeOK
  <1>11. ASSUME NEW id \in ItemIds, RetryPost(id) PROVE SpacingInv'
    <2>1. /\ queue' = queue /\ retry'.id = id /\ retry'.now = retry.now
          /\ Age(id) <= MaxRetryWindow
          /\ retry.now - queue[id].last >= RetryInterval
      BY <1>0, <1>11 DEF RetryPost, TypeOK
    <2> QED
      BY <1>0, <2>1 DEF SpacingInv, Files, Age
  <1>12. CASE Unlink
    <2>1. /\ retry'.pc = "scan" /\ retry'.now = retry.now
          /\ \A id \in ItemIds : queue'[id] \in {queue[id], None}
      BY <1>0, <1>12 DEF Unlink, TypeOK
    <2> QED
      BY <1>2, <2>1
  <1>13. CASE RetryFailed
    <2>1. retry.id \in ItemIds /\ retry.id \in Files /\ queue[retry.id] \in Item
          /\ retry.pc = "posting"
      BY <1>0, <1>13, FileIsItem DEF RetryFailed, RetryKnows, Visible
    <2>2. /\ queue'[retry.id] = [queue[retry.id] EXCEPT !.file = "torn"]
          /\ retry'.id = retry.id /\ retry'.now = retry.now
      BY <1>0, <1>13, <2>1 DEF RetryFailed, TypeOK
    <2>3. Spaced(queue'[retry.id])
      BY <2>1, <2>2, SpacedFile DEF SpacingInv
    <2>4. /\ queue'[retry.id].last = queue[retry.id].last
          /\ queue'[retry.id].created = queue[retry.id].created
      BY <2>1, <2>2 DEF Item
    <2>5. \A i \in ItemIds \ {retry.id} : queue'[i] = queue[i]
      BY <1>0, <1>13 DEF RetryFailed, TypeOK
    <2> QED
      BY <1>3, <2>1, <2>2, <2>3, <2>4, <2>5
  <1>14. CASE Rewrite
    <2>1. retry.id \in ItemIds /\ retry.id \in Files /\ queue[retry.id] \in Item
          /\ retry.pc = "rewrite"
      BY <1>0, <1>14, FileIsItem DEF Rewrite, RetryKnows, Visible
    <2>2. /\ queue'[retry.id] = [queue[retry.id] EXCEPT
                !.file = "json", !.last = retry.now, !.attempts = @ + 1]
          /\ retry'.pc = "scan" /\ retry'.now = retry.now
      BY <1>0, <1>14, <2>1 DEF Rewrite, TypeOK
    <2>3. Spaced(queue'[retry.id])
      <3>1. /\ Spaced(queue[retry.id])
            /\ retry.now - queue[retry.id].last >= RetryInterval
            /\ retry.now - queue[retry.id].created <= MaxRetryWindow
        BY <2>1 DEF SpacingInv
      <3> QED
        BY ZenonT(60), <1>0, <2>1, <2>2, <3>1, SpacedRetry
    <2>4. \A i \in ItemIds \ {retry.id} : queue'[i] = queue[i]
      BY <1>0, <1>14 DEF Rewrite, TypeOK
    <2> QED
      BY <1>3, <2>1, <2>2, <2>3, <2>4
  <1>15. CASE ApiStep
    BY <1>1, <1>15 DEF ApiStep, ApiCommit, ApiRefuse, LateCommit
  <1>16. CASE ReplyLost \/ QueueFailed \/ Tick
    BY <1>1, <1>16 DEF ReplyLost, QueueFailed, Tick
  <1>17. CASE Crash
    BY <1>2, <1>17 DEF Crash, AsleepRetry
  <1>18. ASSUME NEW id \in ItemIds, ReadFailed(id) PROVE SpacingInv'
    BY <1>0, <1>2, <1>18 DEF ReadFailed, Scanning, TypeOK
  <1>19. CASE UnlinkFailed
    <2>1. retry.id \in ItemIds /\ retry.id \in Files /\ queue[retry.id] \in Item
          /\ retry.pc = "unlink"
      BY <1>0, <1>19, FileIsItem DEF UnlinkFailed, RetryKnows, Visible
    <2>2. /\ queue'[retry.id] = [queue[retry.id] EXCEPT !.file = "torn"]
          /\ retry'.id = retry.id /\ retry'.now = retry.now
      BY <1>0, <1>19, <2>1 DEF UnlinkFailed, TypeOK
    <2>3. Spaced(queue'[retry.id])
      BY <2>1, <2>2, SpacedFile DEF SpacingInv
    <2>4. /\ queue'[retry.id].last = queue[retry.id].last
          /\ queue'[retry.id].created = queue[retry.id].created
      BY <2>1, <2>2 DEF Item
    <2>5. \A i \in ItemIds \ {retry.id} : queue'[i] = queue[i]
      BY <1>0, <1>19 DEF UnlinkFailed, TypeOK
    <2> QED
      BY <1>3, <2>1, <2>2, <2>3, <2>4, <2>5
  <1> QED
    BY <1>4, <1>5, <1>6, <1>7, <1>8, <1>9, <1>10, <1>11, <1>12, <1>13, <1>14, <1>15, <1>16, <1>17,
       <1>18, <1>19
       DEF Next, SmtpStep, RetryStep, RetryFault

LEMMA SpacingAlways == Spec => [](CustodyInv /\ SpacingInv)
  BY CustodyInit, CustodyStep, SpacingInit, SpacingStep, PTL DEF Spec

\* A POST under way is not recorded in its file yet.
Unrecorded(id) == IF retry.pc \in Holding /\ retry.id = id THEN 1 ELSE 0

\* The file records its POSTs but the one under way, and at most one per fault.
CountInv == \A id \in Files : posts[id] <= queue[id].attempts + faults + Unrecorded(id)

LEMMA CountInit == Init => CountInv
  BY DEF Init, CountInv, Files

LEMMA CountStep == CustodyInv /\ CountInv /\ [Next]_vars => CountInv'
  <1> SUFFICES ASSUME CustodyInv, CountInv, [Next]_vars PROVE CountInv'
    OBVIOUS
  <1>0. /\ TypeOK /\ TypeOK' /\ RetryKnows /\ SmtpKnows /\ faults' >= faults
        /\ faults \in Nat /\ faults' \in Nat
        /\ \A id \in Files : queue[id].attempts \in Nat /\ posts[id] \in Nat /\ id \in ItemIds
    BY TypeStep, HistoryGrows, FileIsItem, ItemFields, BridgeAssumption DEF CustodyInv, TypeOK, Grows
  <1>1. ASSUME posts' = posts,
               \A id \in Files' : id \in Files /\ queue'[id].attempts = queue[id].attempts,
               \/ retry.pc \notin Holding
               \/ retry'.pc \in Holding /\ retry'.id = retry.id
        PROVE  CountInv'
    <2> SUFFICES ASSUME NEW id \in Files'
                 PROVE  posts'[id] <= queue'[id].attempts + faults' + Unrecorded(id)'
      BY DEF CountInv
    <2>1. posts[id] <= queue[id].attempts + faults + Unrecorded(id)
      BY <1>1 DEF CountInv
    <2>2. Unrecorded(id)' >= Unrecorded(id) /\ Unrecorded(id) \in {0, 1} /\ Unrecorded(id)' \in {0, 1}
      BY <1>1 DEF Unrecorded
    <2> QED
      BY <1>0, <1>1, <2>1, <2>2
  <1>2. ASSUME queue' = queue, posts' = posts, retry' = retry PROVE CountInv'
    BY <1>0, <1>2 DEF CountInv, Unrecorded, Files
  <1>3. CASE UNCHANGED vars
    BY <1>2, <1>3 DEF vars, history
  <1>4. ASSUME NEW m \in Messages, Rcpt(m) \/ Data(m) \/ Defer(m) PROVE CountInv'
    BY <1>2, <1>4 DEF Rcpt, Data, Defer, history
  <1>5. CASE CaptureOk \/ ArfOk \/ PostFailed \/ Reply
    BY <1>2, <1>5 DEF CaptureOk, ArfOk, PostFailed, GiveUp, Reply, history
  <1>6. CASE WriteTmp
    <2>1. PICK id \in ItemIds \ Files :
             /\ queue' = [queue EXCEPT ![id] =
                    [file |-> "tmp", msg |-> smtp.msg, created |-> clock,
                     last |-> clock, attempts |-> 1]]
             /\ posts' = [posts EXCEPT ![id] = 1]
      BY <1>6 DEF WriteTmp
    <2>2. queue'[id].attempts = 1 /\ posts'[id] = 1
      BY <1>0, <2>1 DEF TypeOK
    <2>3. \A i \in Files' \ {id} : i \in Files /\ queue'[i] = queue[i] /\ posts'[i] = posts[i]
      BY <1>0, <2>1 DEF TypeOK, Files
    <2>4. retry' = retry /\ faults' = faults
      BY <1>6 DEF WriteTmp
    <2> QED
      BY <1>0, <2>2, <2>3, <2>4 DEF CountInv, Unrecorded
  <1>7. CASE Rename
    <2>1. smtp.id \in ItemIds /\ smtp.id \in Files /\ queue[smtp.id] \in Item
      BY <1>0, <1>7, FileIsItem DEF Rename, SmtpKnows
    <2>2. queue'[smtp.id].attempts = queue[smtp.id].attempts
      BY <1>0, <1>7, <2>1 DEF Rename, TypeOK, Item
    <2>3. \A i \in ItemIds \ {smtp.id} : queue'[i] = queue[i]
      BY <1>0, <1>7 DEF Rename, TypeOK
    <2>4. \A i \in Files' : i \in Files /\ queue'[i].attempts = queue[i].attempts
      BY <2>1, <2>2, <2>3 DEF Files
    <2> QED
      BY <1>7, <1>0, <2>4 DEF Rename, history, CountInv, Unrecorded
  <1>8. CASE StartPass \/ Glob \/ RetryOk \/ EndPass
    <2>1. CASE StartPass \/ Glob \/ EndPass
      BY <1>1, <2>1 DEF StartPass, Glob, EndPass, history, Holding, Files
    <2>2. CASE RetryOk
      <3>1. retry'.pc = "unlink" /\ retry'.id = retry.id
        BY <1>0, <2>2 DEF RetryOk, TypeOK
      <3> QED
        BY <1>1, <2>2, <3>1 DEF RetryOk, history, Holding, Files
    <2> QED
      BY <1>8, <2>1, <2>2
  <1>9. ASSUME NEW id \in ItemIds,
               DropInvalid(id) \/ DropExpired(id) \/ SkipRecent(id) \/ ReadFailed(id)
        PROVE  CountInv'
    <2>1. \A i \in ItemIds : queue'[i] \in {queue[i], None}
      BY <1>0, <1>9 DEF DropInvalid, DropExpired, SkipRecent, ReadFailed, TypeOK
    <2>2. posts' = posts /\ retry.pc = "scan"
      BY <1>9 DEF DropInvalid, DropExpired, SkipRecent, ReadFailed, Scanning, history
    <2> QED
      BY <1>1, <2>1, <2>2 DEF Holding, Files
  <1>10. ASSUME NEW id \in ItemIds, RetryPost(id) PROVE CountInv'
    <2>1. /\ queue' = queue /\ faults' = faults /\ retry.pc = "scan"
          /\ retry'.pc = "posting" /\ retry'.id = id
          /\ posts' = [posts EXCEPT ![id] = @ + 1]
      BY <1>0, <1>10 DEF RetryPost, Scanning, TypeOK
    <2>2. \A i \in Files : posts'[i] = IF i = id THEN posts[i] + 1 ELSE posts[i]
      BY <1>0, <2>1 DEF TypeOK
    <2> QED
      BY <1>0, <2>1, <2>2 DEF CountInv, Unrecorded, Holding, Files
  <1>11. CASE Unlink
    <2>1. /\ retry.pc = "unlink" /\ retry'.pc = "scan" /\ posts' = posts /\ faults' = faults
          /\ retry.id \in ItemIds
      BY <1>0, <1>11 DEF Unlink, history, TypeOK, RetryKnows, Visible, Files
    <2>2. \A i \in Files' : i \in Files /\ i # retry.id /\ queue'[i] = queue[i]
      BY <1>0, <1>11, <2>1 DEF Unlink, TypeOK, Files
    <2> QED
      BY <1>0, <2>1, <2>2 DEF CountInv, Unrecorded, Holding
  <1>12. CASE RetryFailed \/ UnlinkFailed
    <2>1. /\ retry.id \in ItemIds /\ retry.id \in Files /\ queue[retry.id] \in Item
          /\ retry'.pc = "rewrite" /\ retry'.id = retry.id /\ posts' = posts
      BY <1>0, <1>12, FileIsItem DEF RetryFailed, UnlinkFailed, GiveUp, RetryKnows, Visible, TypeOK
    <2>2. queue'[retry.id] = [queue[retry.id] EXCEPT !.file = "torn"]
      BY <1>0, <1>12, <2>1 DEF RetryFailed, UnlinkFailed, TypeOK
    <2>3. queue'[retry.id].attempts = queue[retry.id].attempts
      BY <2>1, <2>2 DEF Item
    <2>4. \A i \in ItemIds \ {retry.id} : queue'[i] = queue[i]
      BY <1>0, <1>12 DEF RetryFailed, UnlinkFailed, TypeOK
    <2>5. \A i \in Files' : i \in Files /\ queue'[i].attempts = queue[i].attempts
      BY <2>1, <2>3, <2>4 DEF Files
    <2> QED
      BY <1>1, <2>1, <2>5 DEF Holding
  <1>13. CASE Rewrite
    <2>1. /\ retry.id \in ItemIds /\ retry.id \in Files /\ queue[retry.id] \in Item
          /\ retry'.pc = "scan" /\ posts' = posts /\ faults' = faults
      BY <1>0, <1>13, FileIsItem DEF Rewrite, history, RetryKnows, Visible, TypeOK
    <2>2. queue'[retry.id] = [queue[retry.id] EXCEPT
                !.file = "json", !.last = retry.now, !.attempts = @ + 1]
      BY <1>0, <1>13, <2>1 DEF Rewrite, TypeOK
    <2>3. queue'[retry.id].attempts = queue[retry.id].attempts + 1
      BY <2>1, <2>2 DEF Item
    <2>4. \A i \in ItemIds \ {retry.id} : queue'[i] = queue[i]
      BY <1>0, <1>13 DEF Rewrite, TypeOK
    <2> QED
      BY <1>0, <2>1, <2>3, <2>4 DEF CountInv, Unrecorded, Holding, Files
  <1>14. CASE ApiStep
    BY <1>2, <1>14 DEF ApiStep, ApiCommit, ApiRefuse, LateCommit, history
  <1>15. CASE ReplyLost \/ QueueFailed \/ Tick
    <2>1. queue' = queue /\ posts' = posts /\ retry' = retry
      BY <1>15 DEF ReplyLost, QueueFailed, Tick, history
    <2> QED
      BY <1>2, <2>1
  <1>16. CASE Crash
    <2>1. queue' = queue /\ posts' = posts /\ faults' = faults + 1 /\ retry'.pc = "sleep"
      BY <1>16 DEF Crash, Fault, AsleepRetry
    <2> QED
      BY <1>0, <2>1 DEF CountInv, Unrecorded, Holding, Files
  <1> QED
    BY <1>3, <1>4, <1>5, <1>6, <1>7, <1>8, <1>9, <1>10, <1>11, <1>12, <1>13, <1>14, <1>15, <1>16
       DEF Next, SmtpStep, RetryStep, RetryFault

LEMMA CountAlways == Spec => [](CustodyInv /\ SpacingInv /\ CountInv)
  BY CountInit, CountStep, CustodyInit, CustodyStep, SpacingInit, SpacingStep, PTL DEF Spec

LEMMA TimesGrows ==
    ASSUME NEW a \in Int, NEW b \in Int, a <= b, NEW c \in Nat
    PROVE  a * c <= b * c
  OBVIOUS

\* However long passes take and however often the process dies, one file is
\* POSTed no more often than its window has retry intervals, plus one time per
\* fault: a queued message is not retried without end.
THEOREM PostsAreBounded == Spec => []PostsBounded
  <1>1. CustodyInv /\ SpacingInv /\ CountInv => PostsBounded
    <2> SUFFICES ASSUME CustodyInv, SpacingInv, CountInv, NEW id \in Files
                 PROVE  (posts[id] - 1 - faults) * RetryInterval <= MaxRetryWindow
      BY DEF PostsBounded
    <2>1. queue[id] \in Item /\ id \in ItemIds
      BY FileIsItem DEF CustodyInv
    <2>2. /\ queue[id].attempts \in Nat /\ queue[id].last \in Nat /\ queue[id].created \in Nat
          /\ RetryInterval \in Nat /\ MaxRetryWindow \in Nat
          /\ posts[id] \in Nat /\ faults \in Nat /\ retry.now \in Nat
      BY <2>1, ItemFields, BridgeAssumption DEF CustodyInv, TypeOK
    <2>3. /\ posts[id] <= queue[id].attempts + faults + Unrecorded(id)
          /\ (queue[id].attempts - 1) * RetryInterval <= queue[id].last - queue[id].created
          /\ queue[id].last - queue[id].created <= MaxRetryWindow
      BY DEF CountInv, SpacingInv, Spaced
    <2>4. CASE Unrecorded(id) = 0
      <3>1. posts[id] - 1 - faults <= queue[id].attempts - 1
        BY <2>2, <2>3, <2>4
      <3>2. (posts[id] - 1 - faults) * RetryInterval <= (queue[id].attempts - 1) * RetryInterval
        BY <2>2, <3>1, TimesGrows
      <3>3. /\ (posts[id] - 1 - faults) * RetryInterval \in Int
            /\ (queue[id].attempts - 1) * RetryInterval \in Int
        BY <2>2
      <3> QED
        BY <2>2, <2>3, <3>2, <3>3
    <2>5. CASE Unrecorded(id) = 1
      <3>1. retry.pc \in Holding /\ retry.id = id
        BY <2>5 DEF Unrecorded
      <3>2. /\ retry.now - queue[id].last >= RetryInterval
            /\ retry.now - queue[id].created <= MaxRetryWindow
        BY <3>1 DEF SpacingInv
      <3>3. posts[id] - 1 - faults <= queue[id].attempts
        BY <2>2, <2>3, <2>5
      <3>4. (posts[id] - 1 - faults) * RetryInterval <= queue[id].attempts * RetryInterval
        BY <2>2, <3>3, TimesGrows
      <3>5. queue[id].attempts * RetryInterval = (queue[id].attempts - 1) * RetryInterval + RetryInterval
        BY <2>2
      <3>6. /\ (posts[id] - 1 - faults) * RetryInterval \in Int
            /\ (queue[id].attempts - 1) * RetryInterval \in Int
            /\ queue[id].attempts * RetryInterval \in Int
        BY <2>2
      <3> QED
        BY <2>2, <2>3, <3>2, <3>4, <3>5, <3>6
    <2> QED
      BY <2>4, <2>5 DEF Unrecorded
  <1> QED
    BY <1>1, CountAlways, PTL

\* The files a step removes: the delivered one, or one the scan drops.
LEMMA Removals ==
    ASSUME CustodyInv, SpacingInv, [Next]_vars, NEW id \in Files,
           queue[id].file = "json", queue'[id] = None
    PROVE  \/ Stored(queue[id].msg)
           \/ clock - queue[id].created > MaxRetryWindow
           \/ faults' > faults /\ retry.pc = "scan"
  <1> DEFINE Goal == \/ Stored(queue[id].msg)
                     \/ clock - queue[id].created > MaxRetryWindow
                     \/ faults' > faults /\ retry.pc = "scan"
  <1>0. /\ TypeOK /\ RetryKnows /\ SmtpKnows
        /\ id \in ItemIds /\ queue[id] \in Item /\ queue[id] # None
        /\ clock \in Nat /\ retry.now \in Nat /\ retry.now <= clock
        /\ queue[id].created \in Nat
    BY FileIsItem, ItemFields DEF CustodyInv, TypeOK, CapTypeOK, SpacingInv
  <1>1. CASE queue'[id] = queue[id]
    BY <1>0, <1>1
  <1>2. CASE Unlink
    BY <1>0, <1>2 DEF Unlink, RetryKnows, TypeOK
  <1>3. ASSUME NEW i \in ItemIds, DropExpired(i) PROVE Goal
    <2>1. CASE i = id
      BY <1>0, <1>3, <2>1, BridgeAssumption DEF DropExpired, Age
    <2>2. CASE i # id
      BY <1>0, <1>1, <1>3, <2>2 DEF DropExpired, TypeOK
    <2> QED
      BY <2>1, <2>2
  <1>4. ASSUME NEW i \in ItemIds, DropInvalid(i) PROVE Goal
    BY <1>0, <1>1, <1>4 DEF DropInvalid, TypeOK
  <1>5. CASE WriteTmp
    BY <1>0, <1>1, <1>5 DEF WriteTmp, TypeOK
  <1>6. CASE Rename
    BY <1>0, <1>1, <1>6 DEF Rename, SmtpKnows, TypeOK
  <1>7. CASE RetryFailed \/ Rewrite
    <2>1. retry.id \in Visible
      BY <1>0, <1>7 DEF RetryFailed, Rewrite, RetryKnows
    <2>2. CASE id # retry.id
      BY <1>0, <1>1, <1>7, <2>2 DEF RetryFailed, Rewrite, TypeOK
    <2>3. CASE id = retry.id /\ RetryFailed
      <3>1. queue'[id] = [queue[id] EXCEPT !.file = "torn"]
        BY <1>0, <2>3 DEF RetryFailed, TypeOK
      <3>2. queue'[id] \in Item
        BY <1>0, <3>1 DEF Item
      <3> QED
        BY <3>2, ItemFields
    <2>4. CASE id = retry.id /\ Rewrite
      BY <1>0, <2>4 DEF Rewrite, RetryKnows
    <2> QED
      BY <1>7, <2>2, <2>3, <2>4
  <1>8. CASE UNCHANGED vars
    BY <1>1, <1>8 DEF vars
  <1>9. ASSUME NEW m \in Messages, Rcpt(m) \/ Data(m) \/ Defer(m) PROVE Goal
    BY <1>1, <1>9 DEF Rcpt, Data, Defer
  <1>10. CASE CaptureOk \/ ArfOk \/ PostFailed \/ Reply
    BY <1>1, <1>10 DEF CaptureOk, ArfOk, PostFailed, Reply
  <1>11. CASE StartPass \/ Glob \/ RetryOk \/ EndPass
    BY <1>1, <1>11 DEF StartPass, Glob, RetryOk, EndPass
  <1>12. ASSUME NEW i \in ItemIds, SkipRecent(i) \/ RetryPost(i) PROVE Goal
    BY <1>1, <1>12 DEF SkipRecent, RetryPost
  <1>13. CASE ApiStep
    BY <1>1, <1>13 DEF ApiStep, ApiCommit, ApiRefuse, LateCommit
  <1>14. CASE ReplyLost \/ QueueFailed \/ Crash \/ Tick
    BY <1>1, <1>14 DEF ReplyLost, QueueFailed, Crash, Tick
  <1>15. ASSUME NEW i \in ItemIds, ReadFailed(i) PROVE Goal
    BY <1>0, <1>15 DEF ReadFailed, Fault, Scanning, TypeOK
  <1>16. CASE UnlinkFailed
    <2>1. CASE id # retry.id
      BY <1>0, <1>1, <1>16, <2>1 DEF UnlinkFailed, TypeOK
    <2>2. CASE id = retry.id
      <3>1. queue'[id] = [queue[id] EXCEPT !.file = "torn"]
        BY <1>0, <1>16, <2>2 DEF UnlinkFailed, TypeOK
      <3>2. queue'[id] \in Item
        BY <1>0, <3>1 DEF Item
      <3> QED
        BY <3>2, ItemFields
    <2> QED
      BY <2>1, <2>2
  <1> QED
    BY <1>2, <1>3, <1>4, <1>5, <1>6, <1>7, <1>8, <1>9, <1>10, <1>11, <1>12, <1>13, <1>14, <1>15,
       <1>16
       DEF Next, SmtpStep, RetryStep, RetryFault

\* A readable queue file goes only after its message was stored or outlived the
\* retry window, in real time although the pass judges by an old reading, or
\* because the read of it failed.
THEOREM RemovalsAreJustified == Spec => RemovalJustified
  <1>1. CustodyInv /\ SpacingInv /\ [Next]_vars =>
          [\A id \in ItemIds :
             /\ id \in Files
             /\ queue[id].file = "json"
             /\ queue'[id] = None
             => \/ Stored(queue[id].msg)
                \/ clock - queue[id].created > MaxRetryWindow
                \/ faults' > faults /\ retry.pc = "scan"]_vars
    BY Removals
  <1> QED
    BY <1>1, SpacingAlways, PTL DEF Spec, RemovalJustified

\* Without a fault the only torn file is the one the pass is writing
\* back, and no step removes that one.
LEMMA TornStays ==
    ASSUME CustodyInv, [Next]_vars, faults' = 0, NEW id \in Files, queue[id].file = "torn"
    PROVE  queue'[id] # None
  <1>00. faults = 0
    BY HistoryGrows DEF Grows, CustodyInv, TypeOK
  <1>0. /\ TypeOK /\ SmtpKnows /\ retry.pc = "rewrite" /\ retry.id = id
        /\ id \in ItemIds /\ queue[id] \in Item /\ queue[id] # None
    BY <1>00, FileIsItem, ItemFields DEF CustodyInv, TornKnown
  <1>1. CASE queue' = queue
    BY <1>0, <1>1
  <1>2. CASE RetryStep
    <2>1. Rewrite
      BY <1>0, <1>2 DEF RetryStep, StartPass, Glob, DropInvalid, DropExpired, SkipRecent, RetryPost,
                        RetryOk, Unlink, RetryFailed, EndPass, Scanning
    <2>2. queue'[id] = [queue[id] EXCEPT !.file = "json", !.last = retry.now, !.attempts = @ + 1]
      BY <1>0, <2>1 DEF Rewrite, TypeOK
    <2>3. queue'[id].file = "json"
      BY <1>0, <2>2 DEF Item
    <2>4. queue'[id] \in Item
      <3>1. retry.now \in Nat /\ queue[id].attempts + 1 \in Nat
        BY <1>0 DEF Item, TypeOK
      <3> QED
        BY <1>0, <2>2, <3>1 DEF Item
    <2> QED
      BY <2>4, ItemFields
  <1>3. CASE WriteTmp
    BY <1>0, <1>3 DEF WriteTmp, TypeOK
  <1>4. CASE Rename
    BY <1>0, <1>4 DEF Rename, SmtpKnows, TypeOK
  <1>5. ASSUME NEW m \in Messages, Rcpt(m) \/ Data(m) \/ Defer(m) PROVE queue' = queue
    BY <1>5 DEF Rcpt, Data, Defer
  <1>6. CASE CaptureOk \/ ArfOk \/ PostFailed \/ Reply
    BY <1>1, <1>6 DEF CaptureOk, ArfOk, PostFailed, Reply
  <1>7. CASE ApiStep
    BY <1>1, <1>7 DEF ApiStep, ApiCommit, ApiRefuse, LateCommit
  <1>8. CASE ReplyLost \/ QueueFailed \/ RetryFault \/ Crash
    BY <1>00, <1>8 DEF ReplyLost, QueueFailed, RetryFault, UnlinkFailed, ReadFailed, Crash, Fault
  <1>9. CASE Tick \/ UNCHANGED vars
    BY <1>1, <1>9 DEF Tick, vars
  <1> QED
    BY <1>1, <1>2, <1>3, <1>4, <1>5, <1>6, <1>7, <1>8, <1>9 DEF Next, SmtpStep

\* The start-up banner's "drop after", up to the first fault (a crash, a lost
\* reply, a disk error): a file whose message is not stored goes only after the
\* window, be it torn or not.
DropsAsAnnounced ==
    [][faults' = 0 =>
         \A id \in Visible :
             queue'[id] = None /\ ~Stored(queue[id].msg)
               => clock - queue[id].created > MaxRetryWindow]_vars

\* Nothing but a fault breaks the banner's claim; the run "torn" shows which one does.
THEOREM BannerHoldsWithoutFault == Spec => DropsAsAnnounced
  <1>1. CustodyInv /\ SpacingInv /\ [Next]_vars =>
          [faults' = 0 =>
             \A id \in Visible :
                 queue'[id] = None /\ ~Stored(queue[id].msg)
                   => clock - queue[id].created > MaxRetryWindow]_vars
    <2> SUFFICES ASSUME CustodyInv, SpacingInv, [Next]_vars, faults' = 0, NEW id \in Visible,
                        queue'[id] = None, ~Stored(queue[id].msg)
                 PROVE  clock - queue[id].created > MaxRetryWindow
      OBVIOUS
    <2>1. id \in Files /\ queue[id].file # "tmp"
      BY DEF Visible
    <2>2. queue[id].file \in {"tmp", "json", "torn"}
      BY <2>1, FileIsItem, ItemFields DEF CustodyInv
    <2>3. queue[id].file # "torn"
      BY <2>1, TornStays
    <2>4. ~ (faults' > faults)
      BY HistoryGrows DEF Grows, CustodyInv, TypeOK
    <2> QED
      BY <2>1, <2>2, <2>3, <2>4, Removals
  <1> QED
    BY <1>1, SpacingAlways, PTL DEF Spec, DropsAsAnnounced

(***************************************************************************)
(* The flood cap holds in the bridge.                                      *)
(***************************************************************************)

LEMMA CapStep == [Next]_vars => [CapNext]_capvars
  <1> SUFFICES ASSUME [Next]_vars PROVE CapNext \/ UNCHANGED capvars
    OBVIOUS
  <1>1. CASE UNCHANGED vars
    BY <1>1 DEF vars
  <1>2. ASSUME NEW m \in Messages, Rcpt(m) \/ Data(m) \/ Defer(m)
        PROVE  CapNext \/ UNCHANGED capvars
    BY <1>2 DEF Rcpt, Data, Defer, CapNext
  <1>3. CASE SmtpStep
    BY <1>3 DEF SmtpStep, CaptureOk, ArfOk, PostFailed, WriteTmp, Rename, Reply
  <1>4. CASE RetryStep
    BY <1>4 DEF RetryStep, StartPass, Glob, RetryOk, Unlink, RetryFailed, Rewrite, EndPass,
                DropInvalid, DropExpired, SkipRecent, RetryPost
  <1>5. CASE ApiStep
    BY <1>5 DEF ApiStep, ApiCommit, ApiRefuse, LateCommit
  <1>6. CASE ReplyLost \/ QueueFailed \/ RetryFault \/ Crash \/ Tick
    BY <1>6 DEF ReplyLost, QueueFailed, RetryFault, UnlinkFailed, ReadFailed, Crash, Tick, CapNext
  <1> QED
    BY <1>1, <1>2, <1>3, <1>4, <1>5, <1>6 DEF Next

\* A run of the bridge is one of its cap.
LEMMA BridgeIsCap == Spec => CapSpec
  <1>1. Init => CapInit
    BY DEF Init
  <1> QED
    BY <1>1, CapStep, PTL DEF Spec, CapSpec

\* No window of a bridge's process holds more accepts than the cap, and every
\* 451 is justified.
THEOREM BridgeHoldsCap == Spec => [](WindowCap /\ RefusalJustified)
  BY BridgeIsCap, WindowCapHolds, RefusalJustifiedHolds, PTL
=============================================================================

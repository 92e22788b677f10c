------------------------- MODULE RedirectTraceProofs -------------------------
(***************************************************************************)
(* Proofs about RedirectTrace, for any number of addresses, any hop limit, *)
(* any budget and any bounds on lookups and requests.                      *)
(***************************************************************************)
EXTENDS RedirectTrace, TLAPS

USE TraceAssumption

(***************************************************************************)
(* Type correctness                                                        *)
(***************************************************************************)

\* The markers and answers a step appends are hops.
LEMMA HopTyped ==
    ASSUME NEW n \in 1..MaxHops + 1, NEW u \in Urls, NEW to \in Urls \cup {None},
           NEW error \in Errors, NEW tls \in BOOLEAN
    PROVE  Hop(n, u, to, error, tls) \in HopRecord
BY DEF Hop, HopRecord

LEMMA OneMoreTyped ==
    ASSUME NEW S, NEW s \in Seq(S), NEW a \in S
    PROVE  Append(s, a) \in Seq(S)
OBVIOUS

\* A hop and the marker after it.
LEMMA TwoMoreTyped ==
    ASSUME NEW S, NEW s \in Seq(S), NEW a \in S, NEW b \in S
    PROVE  s \o <<a, b>> \in Seq(S)
<1>1. <<a, b>> \in Seq(S)
  OBVIOUS
<1>2. QED
  BY <1>1

LEMMA PassesTyped ==
    ASSUME RTypeOK, NEW max \in Nat, Passes(max)
    PROVE  clock' \in Nat /\ clock <= clock' /\ clock' <= clock + max
BY DEF RTypeOK, Passes

\* Type correctness of the tracer: whatever the sites answer, the chain has hops
\* of the declared shape and the step stays within MAX_HOPS.
THEOREM TraceTypeCorrect == RSpec => []RTypeOK
<1>1. RInit => RTypeOK
  <2> SUFFICES ASSUME RInit PROVE RTypeOK
    OBVIOUS
  <2>1. step \in 1..MaxHops /\ clock \in Nat /\ unverified \subseteq 1..MaxHops
    BY DEF RInit
  <2>2. hops \in Seq(HopRecord)
    BY DEF RInit
  <2>3. QED
    BY <2>1, <2>2 DEF RInit, RTypeOK
<1>2. RTypeOK /\ [RNext]_rvars => RTypeOK'
  <2> SUFFICES ASSUME RTypeOK, [RNext]_rvars PROVE RTypeOK'
    OBVIOUS
  <2>0. /\ step \in 1..MaxHops /\ step + 1 \in 1..MaxHops + 1 /\ step \in 1..MaxHops + 1
        /\ MaxHops + 1 \in 1..MaxHops + 1
        /\ url \in HttpUrls /\ url \in Urls /\ None \in Errors
        /\ {"budget", "lookup", "request", "scheme", "hops"} \subseteq Errors
    BY DEF RTypeOK, Errors
  <2>a. ASSUME NEW error \in Errors, Abort(error), clock' \in Nat PROVE RTypeOK'
    <3>1. Hop(step, url, None, error, TRUE) \in HopRecord
      BY <2>0, HopTyped
    <3>2. hops' \in Seq(HopRecord)
      BY <3>1, <2>a, OneMoreTyped DEF Abort, RTypeOK
    <3>3. QED
      BY <3>2, <2>a DEF Abort, RTypeOK
  <2>b. ASSUME NEW to \in Urls \cup {None} PROVE ThisHop(to) \in HopRecord
    BY <2>0, HopTyped DEF ThisHop
  <2>c. ASSUME Answered PROVE clock' \in Nat /\ unverified' \subseteq 1..MaxHops
    BY <2>c, <2>0, PassesTyped DEF Answered, RTypeOK
  <2>1. CASE OutOfTime
    BY <2>1, <2>a, <2>0 DEF OutOfTime, RTypeOK
  <2>2. CASE Resolve
    <3>1. clock' \in Nat
      BY <2>2, PassesTyped DEF Resolve
    <3>2. CASE Abort("lookup")
      BY <3>1, <3>2, <2>a, <2>0
    <3>3. CASE pc' = "request" /\ UNCHANGED <<step, url, hops, redirected, unverified>>
      BY <3>1, <3>3 DEF RTypeOK
    <3>4. QED
      BY <2>2, <3>2, <3>3 DEF Resolve
  <2>3. CASE BadCertificate
    <3>1. clock' \in Nat
      BY <2>3, PassesTyped DEF BadCertificate
    <3>2. QED
      BY <2>3, <3>1 DEF BadCertificate, RTypeOK
  <2>4. CASE RequestFails
    <3>1. clock' \in Nat
      BY <2>4, PassesTyped DEF RequestFails
    <3>2. QED
      BY <2>4, <3>1, <2>a, <2>0 DEF RequestFails
  <2>5. CASE Arrived
    BY <2>5, <2>b, <2>c DEF Arrived, RTypeOK
  <2>d. CASE Raises
    <3>1. clock' \in Nat
      BY <2>d, PassesTyped DEF Raises
    <3>2. QED
      BY <2>d, <3>1 DEF Raises, RTypeOK
  <2>6. ASSUME NEW to \in Urls, LeavesHttp(to) PROVE RTypeOK'
    <3>1. Hop(step + 1, to, None, "scheme", TRUE) \in HopRecord
      BY <2>0, HopTyped
    <3>2. hops' \in Seq(HopRecord)
      BY <3>1, <2>b, <2>6, TwoMoreTyped DEF LeavesHttp, RTypeOK
    <3>3. QED
      BY <2>6, <2>c, <3>2 DEF LeavesHttp, RTypeOK
  <2>7. ASSUME NEW to \in Urls, Follow(to) PROVE RTypeOK'
    BY <2>7, <2>b, <2>c DEF Follow, RTypeOK
  <2>8. ASSUME NEW to \in Urls, TooManyHops(to) PROVE RTypeOK'
    <3>1. Hop(MaxHops + 1, to, None, "hops", TRUE) \in HopRecord
      BY <2>0, HopTyped
    <3>2. hops' \in Seq(HopRecord)
      BY <3>1, <2>b, <2>8, TwoMoreTyped DEF TooManyHops, RTypeOK
    <3>3. QED
      BY <2>8, <2>c, <3>2 DEF TooManyHops, RTypeOK
  <2>9. CASE UNCHANGED rvars
    BY <2>9 DEF rvars, RTypeOK
  <2>10. QED
    BY <2>1, <2>2, <2>3, <2>4, <2>5, <2>6, <2>7, <2>8, <2>9, <2>d DEF RNext
<1>3. QED
  BY <1>1, <1>2, PTL DEF RSpec

(***************************************************************************)
(* The budget                                                              *)
(***************************************************************************)

\* What is left of the overrun at each stage of a hop.
OverrunInv ==
    /\ pc = "request" => clock <= Budget + MaxLookup
    /\ pc = "insecure" => clock <= Budget + MaxLookup + MaxRequest
    /\ OverrunIsOneHop

\* A trace lasts at most its budget, a lookup and two requests: the deadline
\* is looked at only between hops, and the check is enough for that.
THEOREM OverrunBounded == RSpec => []OverrunIsOneHop
<1>1. RInit => OverrunInv
  BY DEF RInit, OverrunInv, OverrunIsOneHop
<1>2. RTypeOK /\ OverrunInv /\ [RNext]_rvars => OverrunInv'
  <2> SUFFICES ASSUME RTypeOK, OverrunInv, [RNext]_rvars PROVE OverrunInv'
    OBVIOUS
  <2>a. clock \in Nat
    BY DEF RTypeOK
  <2>b. ASSUME pc \in {"request", "insecure"}, Passes(MaxRequest) PROVE OverrunIsOneHop'
    BY <2>a, <2>b DEF OverrunInv, OverrunIsOneHop, Passes
  <2>1. CASE OutOfTime
    BY <2>1 DEF OutOfTime, Abort, OverrunInv, OverrunIsOneHop
  <2>2. CASE Resolve
    BY <2>2, <2>a DEF Resolve, TimeUp, Abort, Passes, OverrunInv, OverrunIsOneHop
  <2>3. CASE BadCertificate
    BY <2>3, <2>a DEF BadCertificate, Passes, OverrunInv, OverrunIsOneHop
  <2>4. CASE RequestFails
    BY <2>4, <2>b DEF RequestFails, Abort, OverrunInv
  <2>5. CASE Arrived
    BY <2>5, <2>b DEF Arrived, Answered, OverrunInv
  <2>d. CASE Raises
    BY <2>d, <2>a, <2>b DEF Raises, TimeUp, Passes, OverrunInv, OverrunIsOneHop
  <2>6. CASE \E to \in Urls : LeavesHttp(to) \/ Follow(to) \/ TooManyHops(to)
    BY <2>6, <2>b DEF LeavesHttp, Follow, TooManyHops, Answered, OverrunInv
  <2>7. CASE UNCHANGED rvars
    BY <2>7 DEF rvars, OverrunInv, OverrunIsOneHop
  <2>8. QED
    BY <2>1, <2>2, <2>3, <2>4, <2>5, <2>6, <2>7, <2>d DEF RNext
<1>3. OverrunInv => OverrunIsOneHop
  BY DEF OverrunInv
<1>4. QED
  BY <1>1, <1>2, <1>3, TraceTypeCorrect, PTL DEF RSpec

(***************************************************************************)
(* The chain                                                               *)
(***************************************************************************)

\* While the trace goes on, all its hops are redirects and lead to url.
ChainInv ==
    /\ pc # "done" => /\ Len(hops) = step - 1
                      /\ \A i \in DOMAIN hops : hops[i].error = None
                      /\ hops # <<>> => hops[Len(hops)].to = url
    /\ ChainAccounts

\* What a hop that is not a redirect adds at the end of such a chain.
LEMMA ChainEnded ==
    ASSUME RTypeOK, ChainInv, pc # "done", NEW h, h.step = step, h.url = url, h.to = None,
           hops' = Append(hops, h), pc' = "done", redirected' = redirected
    PROVE  ChainInv'
<1>1. hops \in Seq(HopRecord) /\ step \in Nat /\ step >= 1 /\ Len(hops) = step - 1
  BY DEF RTypeOK, ChainInv
<1>2. /\ Len(hops') = Len(hops) + 1
      /\ DOMAIN hops = 1..Len(hops) /\ DOMAIN hops' = 1..Len(hops) + 1
      /\ \A i \in 1..Len(hops) : hops'[i] = hops[i]
      /\ hops'[Len(hops) + 1] = h
  BY <1>1
<1>3. hops' # <<>>
  BY <1>1, <1>2
<1>4. \A i \in DOMAIN hops' :
          /\ hops'[i].step = i
          /\ hops'[i].error # None => i = Len(hops') /\ hops'[i].to = None
          /\ i < Len(hops') => hops'[i].to = hops'[i + 1].url
  <2> SUFFICES ASSUME NEW i \in DOMAIN hops'
               PROVE  /\ hops'[i].step = i
                      /\ hops'[i].error # None => i = Len(hops') /\ hops'[i].to = None
                      /\ i < Len(hops') => hops'[i].to = hops'[i + 1].url
    OBVIOUS
  <2>1. CASE i = Len(hops) + 1
    BY <2>1, <1>1, <1>2
  <2>2. CASE i = Len(hops)
    <3>1. hops # <<>> /\ i \in DOMAIN hops /\ hops'[i] = hops[i] /\ hops'[i + 1] = h
      BY <2>2, <1>1, <1>2
    <3>2. QED
      BY <3>1, <2>2, <1>1, <1>2 DEF ChainInv, ChainAccounts
  <2>3. CASE i < Len(hops)
    <3>1. i \in DOMAIN hops /\ hops'[i] = hops[i] /\ hops'[i + 1] = hops[i + 1]
      BY <2>3, <1>1, <1>2
    <3>2. QED
      BY <3>1, <2>3, <1>1, <1>2 DEF ChainInv, ChainAccounts
  <2>4. QED
    BY <2>1, <2>2, <2>3, <1>1, <1>2
<1>5. redirected' = (hops' # <<>> /\ hops'[1].to # None)
  <2>1. CASE hops = <<>>
    BY <2>1, <1>1, <1>2, <1>3 DEF ChainInv, ChainAccounts
  <2>2. CASE hops # <<>>
    <3>1. hops'[1] = hops[1]
      BY <2>2, <1>1, <1>2
    <3>2. QED
      BY <3>1, <2>2, <1>3 DEF ChainInv, ChainAccounts
  <2>3. QED
    BY <2>1, <2>2
<1>6. hops'[Len(hops')].to = None
  BY <1>1, <1>2
<1>7. QED
  BY <1>3, <1>4, <1>5, <1>6 DEF ChainInv, ChainAccounts

\* The chain more has a hop for each step made and leads on to to.
LeadsOn(more, to) ==
    /\ Len(more) = step
    /\ more # <<>>
    /\ DOMAIN more = 1..step
    /\ more[1].to # None
    /\ more[step].to = to
    /\ \A i \in 1..step : more[i].step = i /\ more[i].error = None
    /\ \A i \in 1..step - 1 : more[i].to = more[i + 1].url

LEMMA ChainExtended ==
    ASSUME RTypeOK, ChainInv, pc # "done", NEW to \in Urls, NEW tls
    PROVE  LeadsOn(Append(hops, Hop(step, url, to, None, tls)), to)
<1> DEFINE h == Hop(step, url, to, None, tls)
           more == Append(hops, h)
<1>1. hops \in Seq(HopRecord) /\ step \in Nat /\ step >= 1 /\ Len(hops) = step - 1
  BY DEF RTypeOK, ChainInv
<1>2. /\ Len(more) = step
      /\ DOMAIN hops = 1..step - 1 /\ DOMAIN more = 1..step
      /\ \A i \in 1..step - 1 : more[i] = hops[i]
      /\ more[step] = h
  BY <1>1
<1> HIDE DEF more
<1>3. h.step = step /\ h.url = url /\ h.to = to /\ h.error = None /\ to # None
  BY DEF Hop
<1>4. more # <<>>
  BY <1>1, <1>2
<1>5. \A i \in 1..step : more[i].step = i /\ more[i].error = None
  <2> SUFFICES ASSUME NEW i \in 1..step PROVE more[i].step = i /\ more[i].error = None
    OBVIOUS
  <2>1. CASE i = step
    BY <2>1, <1>2, <1>3
  <2>2. CASE i < step
    <3>1. i \in DOMAIN hops /\ more[i] = hops[i]
      BY <2>2, <1>1, <1>2
    <3>2. QED
      BY <3>1 DEF ChainInv, ChainAccounts
  <2>3. QED
    BY <2>1, <2>2, <1>1
<1>6. \A i \in 1..step - 1 : more[i].to = more[i + 1].url
  <2> SUFFICES ASSUME NEW i \in 1..step - 1 PROVE more[i].to = more[i + 1].url
    OBVIOUS
  <2>1. i \in DOMAIN hops /\ more[i] = hops[i] /\ hops # <<>>
    BY <1>1, <1>2
  <2>2. CASE i = step - 1
    <3>1. hops[i].to = url /\ more[i + 1] = h
      BY <2>1, <2>2, <1>1, <1>2 DEF ChainInv
    <3>2. QED
      BY <3>1, <2>1, <1>3
  <2>3. CASE i < step - 1
    <3>1. more[i + 1] = hops[i + 1]
      BY <2>3, <1>1, <1>2
    <3>2. QED
      BY <3>1, <2>1, <2>3, <1>1 DEF ChainInv, ChainAccounts
  <2>4. QED
    BY <2>2, <2>3, <1>1
<1>7. more[1].to # None
  <2>1. CASE step = 1
    BY <2>1, <1>2, <1>3
  <2>2. CASE step > 1
    <3>1. hops # <<>> /\ 1 \in DOMAIN hops /\ more[1] = hops[1]
      BY <2>2, <1>1, <1>2
    <3>2. CASE step = 2
      BY <3>1, <3>2, <1>1 DEF ChainInv, RTypeOK
    <3>3. CASE step > 2
      <4>1. hops[1].to = hops[2].url /\ hops[2] \in HopRecord
        BY <3>1, <3>3, <1>1 DEF ChainInv, ChainAccounts
      <4>2. QED
        BY <4>1, <3>1 DEF HopRecord
    <3>4. QED
      BY <3>2, <3>3, <2>2, <1>1
  <2>3. QED
    BY <2>1, <2>2, <1>1
<1>8. QED
  BY <1>2, <1>3, <1>4, <1>5, <1>6, <1>7 DEF LeadsOn, more

LEMMA TwoAppended ==
    ASSUME NEW S, NEW s \in Seq(S), NEW a, NEW b, NEW t, t = s \o <<a, b>>
    PROVE  /\ Len(t) = Len(s) + 2
           /\ DOMAIN t = 1..Len(s) + 2
           /\ \A i \in 1..Len(s) : t[i] = s[i]
           /\ t[Len(s) + 1] = a
           /\ t[Len(s) + 2] = b
<1>1. s \in Seq(S \cup {a, b}) /\ <<a, b>> \in Seq(S \cup {a, b})
  OBVIOUS
<1>2. Len(<<a, b>>) = 2 /\ <<a, b>>[1] = a /\ <<a, b>>[2] = b
  OBVIOUS
<1>3. QED
  BY <1>1, <1>2

\* A redirect and the marker that says why it is not followed.
LEMMA ChainCut ==
    ASSUME RTypeOK, ChainInv, pc # "done", NEW to \in Urls, NEW tls, NEW m,
           m.step = step + 1, m.url = to, m.to = None,
           hops' = hops \o <<Hop(step, url, to, None, tls), m>>, pc' = "done", redirected' = TRUE
    PROVE  ChainInv'
<1> DEFINE more == Append(hops, Hop(step, url, to, None, tls))
<1>1. hops \in Seq(HopRecord) /\ step \in Nat /\ step >= 1 /\ Len(hops) = step - 1
  BY DEF RTypeOK, ChainInv
<1>2. /\ Len(more) = step
      /\ DOMAIN more = 1..step
      /\ more[1].to # None
      /\ more[step].to = to
      /\ \A i \in 1..step : more[i].step = i /\ more[i].error = None
      /\ \A i \in 1..step - 1 : more[i].to = more[i + 1].url
  BY ChainExtended DEF LeadsOn
<1>3. /\ Len(hops') = step + 1
      /\ DOMAIN hops' = 1..step + 1
      /\ \A i \in 1..step : hops'[i] = more[i]
      /\ hops'[step + 1] = m
      /\ hops' # <<>>
  <2> DEFINE h == Hop(step, url, to, None, tls)
             t == hops \o <<h, m>>
  <2>0. hops' = t
    OBVIOUS
  <2>1. /\ Len(t) = Len(hops) + 2
        /\ DOMAIN t = 1..Len(hops) + 2
        /\ \A i \in 1..Len(hops) : t[i] = hops[i]
        /\ t[Len(hops) + 1] = h
        /\ t[Len(hops) + 2] = m
    <3>1. hops \in Seq(HopRecord) /\ t = hops \o <<h, m>>
      BY <1>1
    <3> HIDE DEF t, h
    <3>2. QED
      BY <3>1, TwoAppended
  <2>2. /\ \A i \in 1..step - 1 : more[i] = hops[i]
        /\ more[step] = h
    BY <1>1
  <2> HIDE DEF t, h, more
  <2>3. Len(hops) + 1 = step /\ Len(hops) + 2 = step + 1
    BY <1>1
  <2>4. Len(hops') = step + 1 /\ DOMAIN hops' = 1..step + 1 /\ hops'[step + 1] = m
    BY <2>0, <2>1, <2>3
  <2>5. \A i \in 1..step : hops'[i] = more[i]
    <3> SUFFICES ASSUME NEW i \in 1..step PROVE hops'[i] = more[i]
      OBVIOUS
    <3>1. CASE i = step
      BY <3>1, <2>0, <2>1, <2>2, <2>3
    <3>2. CASE i < step
      BY <3>2, <1>1, <2>0, <2>1, <2>2
    <3>3. QED
      BY <3>1, <3>2, <1>1
  <2>6. hops' # <<>>
    BY <1>1, <2>4
  <2>7. QED
    BY <2>4, <2>5, <2>6
<1> HIDE DEF more
<1>4. \A i \in DOMAIN hops' :
          /\ hops'[i].step = i
          /\ hops'[i].error # None => i = Len(hops') /\ hops'[i].to = None
          /\ i < Len(hops') => hops'[i].to = hops'[i + 1].url
  <2> SUFFICES ASSUME NEW i \in 1..step + 1
               PROVE  /\ hops'[i].step = i
                      /\ hops'[i].error # None => i = Len(hops') /\ hops'[i].to = None
                      /\ i < Len(hops') => hops'[i].to = hops'[i + 1].url
    BY <1>3
  <2>1. CASE i = step + 1
    BY <2>1, <1>1, <1>3
  <2>2. CASE i = step
    BY <2>2, <1>1, <1>2, <1>3
  <2>3. CASE i < step
    BY SMTT(30), <2>3, <1>1, <1>2, <1>3
  <2>4. QED
    BY <2>1, <2>2, <2>3, <1>1
<1>5. hops'[1].to # None /\ hops'[Len(hops')].to = None
  BY <1>1, <1>2, <1>3
<1>6. QED
  BY <1>3, <1>4, <1>5 DEF ChainInv, ChainAccounts

LEMMA ChainInvariant == RSpec => []ChainInv
<1>1. RInit => ChainInv
  <2>1. RInit => hops = <<>> /\ Len(hops) = step - 1 /\ DOMAIN hops = {} /\ pc # "done" /\ redirected = FALSE
    BY DEF RInit
  <2>2. QED
    BY <2>1 DEF ChainInv, ChainAccounts
<1>2. RTypeOK /\ ChainInv /\ [RNext]_rvars => ChainInv'
  <2> SUFFICES ASSUME RTypeOK, ChainInv, [RNext]_rvars PROVE ChainInv'
    OBVIOUS
  <2>a. ASSUME NEW error, Abort(error), pc # "done" PROVE ChainInv'
    <3>1. /\ Hop(step, url, None, error, TRUE).step = step
          /\ Hop(step, url, None, error, TRUE).url = url
          /\ Hop(step, url, None, error, TRUE).to = None
      BY DEF Hop
    <3>2. QED
      BY <3>1, <2>a, ChainEnded DEF Abort
  <2>b. ASSUME UNCHANGED <<step, url, hops, redirected>>, pc # "done", pc' # "done"
        PROVE  ChainInv'
    BY <2>b DEF ChainInv, ChainAccounts
  <2>1. CASE OutOfTime
    BY <2>1, <2>a DEF OutOfTime
  <2>2. CASE Resolve
    <3>1. CASE Abort("lookup")
      BY <2>2, <3>1, <2>a DEF Resolve
    <3>2. CASE pc' = "request" /\ UNCHANGED <<step, url, hops, redirected, unverified>>
      BY <2>2, <3>2, <2>b DEF Resolve
    <3>3. QED
      BY <2>2, <3>1, <3>2 DEF Resolve
  <2>3. CASE BadCertificate
    BY <2>3, <2>b DEF BadCertificate
  <2>4. CASE RequestFails
    BY <2>4, <2>a DEF RequestFails
  <2>5. CASE Arrived
    <3>1. ThisHop(None).step = step /\ ThisHop(None).url = url /\ ThisHop(None).to = None
      BY DEF ThisHop, Hop
    <3>2. QED
      BY <2>5, <3>1, ChainEnded DEF Arrived, Answered
  <2>d. CASE Raises
    BY <2>d, <2>b DEF Raises
  <2>6. ASSUME NEW to \in Urls, LeavesHttp(to) PROVE ChainInv'
    <3>1. LET m == Hop(step + 1, to, None, "scheme", TRUE)
          IN  m.step = step + 1 /\ m.url = to /\ m.to = None
      BY DEF Hop
    <3>2. QED
      BY <2>6, <3>1, ChainCut DEF LeavesHttp, Answered, ThisHop
  <2>7. ASSUME NEW to \in Urls, Follow(to) PROVE ChainInv'
    <3>1. step \in Nat /\ pc # "done" /\ hops' = Append(hops, Hop(step, url, to, None, pc = "request"))
      BY <2>7 DEF Follow, Answered, ThisHop, RTypeOK
    <3>2. LeadsOn(hops', to)
      BY <3>1, ChainExtended
    <3>3. url' = to /\ step' = step + 1 /\ pc' = "top" /\ redirected' = TRUE
      BY <2>7 DEF Follow
    <3>4. /\ \A i \in DOMAIN hops' : hops'[i].step = i /\ hops'[i].error = None
          /\ \A i \in DOMAIN hops' : i < Len(hops') => hops'[i].to = hops'[i + 1].url
      BY <3>1, <3>2 DEF LeadsOn
    <3>5. Len(hops') = step' - 1 /\ hops'[Len(hops')].to = url'
      BY <3>1, <3>2, <3>3 DEF LeadsOn
    <3>6. hops' # <<>> /\ hops'[1].to # None
      BY <3>2 DEF LeadsOn
    <3>7. QED
      BY <3>3, <3>4, <3>5, <3>6 DEF ChainInv, ChainAccounts
  <2>8. ASSUME NEW to \in Urls, TooManyHops(to) PROVE ChainInv'
    <3>1. step = MaxHops /\ pc # "done"
      BY <2>8 DEF TooManyHops, Answered
    <3>2. LET m == Hop(MaxHops + 1, to, None, "hops", TRUE)
          IN  m.step = step + 1 /\ m.url = to /\ m.to = None
      BY <3>1 DEF Hop
    <3>3. QED
      BY ZenonT(60), <2>8, <3>1, <3>2, ChainCut DEF TooManyHops, ThisHop
  <2>9. CASE UNCHANGED rvars
    BY <2>9 DEF rvars, ChainInv, ChainAccounts
  <2>10. QED
    BY <2>1, <2>2, <2>3, <2>4, <2>5, <2>6, <2>7, <2>8, <2>9, <2>d DEF RNext
<1>3. QED
  BY <1>1, <1>2, TraceTypeCorrect, PTL DEF RSpec

\* The chain a trace returns accounts for itself, however it ended.
THEOREM ChainHolds == RSpec => []ChainAccounts
<1>1. ChainInv => ChainAccounts
  BY DEF ChainInv
<1>2. QED
  BY <1>1, ChainInvariant, PTL

(***************************************************************************)
(* The flags                                                               *)
(***************************************************************************)

\* The unverified steps are those of the hops so flagged, and none is to come.
Flagged(chain, steps) ==
    /\ steps \subseteq 1..Len(chain)
    /\ \A i \in 1..Len(chain) : i \in steps <=> ~chain[i].tls

FlagInv == Flagged(hops, unverified)

\* One more hop, perhaps with a marker after it.
LEMMA FlagAdded ==
    ASSUME hops \in Seq(HopRecord), step = Len(hops) + 1, FlagInv,
           Len(hops') \in {step, step + 1},
           \A i \in 1..Len(hops) : hops'[i] = hops[i],
           \/ unverified' = unverified /\ hops'[step].tls
           \/ unverified' = unverified \cup {step} /\ ~hops'[step].tls,
           Len(hops') = step + 1 => hops'[step + 1].tls
    PROVE  FlagInv'
<1>1. /\ Len(hops) \in Nat /\ step \in Nat /\ step \notin unverified /\ Len(hops) = step - 1
      /\ unverified \subseteq 1..Len(hops) /\ step + 1 \notin unverified
  BY DEF FlagInv, Flagged
<1>2. unverified' \subseteq 1..Len(hops')
  <2>1. Len(hops') \in Int /\ unverified' \subseteq unverified \cup {step}
    BY <1>1
  <2>2. 1..Len(hops) \subseteq 1..Len(hops') /\ step \in 1..Len(hops')
    BY <1>1, <2>1
  <2>3. QED
    BY <1>1, <2>1, <2>2
<1>3. ASSUME NEW i \in 1..Len(hops') PROVE i \in unverified' <=> ~hops'[i].tls
  <2>1. CASE i \in 1..Len(hops)
    <3>1. i # step /\ hops'[i] = hops[i] /\ (i \in unverified' <=> i \in unverified)
      BY <2>1, <1>1
    <3>2. QED
      BY <2>1, <3>1 DEF FlagInv, Flagged
  <2>2. CASE i = step
    BY <2>2, <1>1
  <2>3. CASE i = step + 1 /\ Len(hops') = step + 1
    BY <2>3, <1>1
  <2>4. QED
    BY <1>1, <1>3, <2>1, <2>2, <2>3
<1>4. QED
  BY <1>2, <1>3 DEF FlagInv, Flagged

LEMMA OneAppended ==
    ASSUME NEW S, NEW s \in Seq(S), NEW a
    PROVE  /\ Len(Append(s, a)) = Len(s) + 1
           /\ \A i \in 1..Len(s) : Append(s, a)[i] = s[i]
           /\ Append(s, a)[Len(s) + 1] = a
<1>1. s \in Seq(S \cup {a})
  OBVIOUS
<1>2. QED
  BY <1>1

LEMMA FlagInvariant == RSpec => []FlagInv
<1>1. RInit => FlagInv
  BY DEF RInit, FlagInv, Flagged
<1>2. RTypeOK /\ ChainInv /\ FlagInv /\ [RNext]_rvars => FlagInv'
  <2> SUFFICES ASSUME RTypeOK, ChainInv, FlagInv, [RNext]_rvars PROVE FlagInv'
    OBVIOUS
  <2>a. hops \in Seq(HopRecord) /\ (pc # "done" => step = Len(hops) + 1)
    <3>1. hops \in Seq(HopRecord) /\ Len(hops) \in Nat /\ step \in Nat
      BY DEF RTypeOK
    <3>2. QED
      BY <3>1 DEF ChainInv
  <2>b. ASSUME NEW error, Abort(error), pc # "done" PROVE FlagInv'
    <3>1. Hop(step, url, None, error, TRUE).tls
      BY DEF Hop
    <3>2. hops' = Append(hops, Hop(step, url, None, error, TRUE)) /\ unverified' = unverified
      BY <2>b DEF Abort
    <3>3. Len(hops) \in Nat /\ Len(hops') \in {step, step + 1} /\ Len(hops') = step
      BY <2>a, <2>b, <3>2, OneAppended
    <3>4. hops'[step].tls /\ \A i \in 1..Len(hops) : hops'[i] = hops[i]
      <4> DEFINE h == Hop(step, url, None, error, TRUE)
      <4>1. hops' = Append(hops, h) /\ h.tls
        BY <3>1, <3>2
      <4> HIDE DEF h
      <4>2. hops'[step] = h /\ \A i \in 1..Len(hops) : hops'[i] = hops[i]
        BY <4>1, <2>a, <2>b, OneAppended
      <4>3. QED
        BY <4>1, <4>2
    <3>5. Len(hops') = step + 1 => hops'[step + 1].tls
      BY <2>a, <3>3
    <3>6. QED
      BY <2>a, <2>b, <3>2, <3>3, <3>4, <3>5, FlagAdded DEF FlagInv
  <2>c. ASSUME UNCHANGED <<hops, unverified>> PROVE FlagInv'
    BY <2>c DEF FlagInv, Flagged
  <2>d. ASSUME NEW to, Answered
        PROVE  /\ pc # "done"
               /\ \/ unverified' = unverified /\ ThisHop(to).tls
                  \/ unverified' = unverified \cup {step} /\ ~ThisHop(to).tls
    BY <2>d DEF Answered, ThisHop, Hop
  <2>e. ASSUME NEW to, Answered, hops' = Append(hops, ThisHop(to)) PROVE FlagInv'
    <3>1. Len(hops) \in Nat /\ Len(hops') \in {step, step + 1} /\ Len(hops') = step
      BY <2>a, <2>d, <2>e, OneAppended
    <3>2. hops'[step] = ThisHop(to) /\ \A i \in 1..Len(hops) : hops'[i] = hops[i]
      BY <2>a, <2>d, <2>e, OneAppended
    <3>3. Len(hops') = step + 1 => hops'[step + 1].tls
      BY <3>1, <2>a
    <3>4. QED
      BY <2>a, <2>d, <2>e, <3>1, <3>2, <3>3, FlagAdded DEF FlagInv
  <2>f. ASSUME NEW to, Answered, NEW m, m.tls, hops' = hops \o <<ThisHop(to), m>> PROVE FlagInv'
    <3>1. Len(hops) \in Nat /\ Len(hops') = step + 1 /\ Len(hops') \in {step, step + 1}
      BY <2>a, <2>d, <2>f, TwoAppended
    <3>2. hops'[step] = ThisHop(to) /\ \A i \in 1..Len(hops) : hops'[i] = hops[i]
      BY <2>a, <2>d, <2>f, TwoAppended
    <3>3. hops'[step + 1] = m
      BY <2>a, <2>d, <2>f, TwoAppended, <3>1
    <3>4. QED
      BY <2>a, <2>d, <2>f, <3>1, <3>2, <3>3, FlagAdded DEF FlagInv
  <2>1. CASE OutOfTime
    BY <2>1, <2>b DEF OutOfTime
  <2>2. CASE Resolve
    BY <2>2, <2>b, <2>c DEF Resolve
  <2>3. CASE BadCertificate \/ Raises \/ UNCHANGED rvars
    BY <2>3, <2>c DEF BadCertificate, Raises, rvars
  <2>4. CASE RequestFails
    BY <2>4, <2>b DEF RequestFails
  <2>5. CASE Arrived
    BY <2>5, <2>e DEF Arrived
  <2>6. ASSUME NEW to \in Urls, LeavesHttp(to) PROVE FlagInv'
    <3>1. Hop(step + 1, to, None, "scheme", TRUE).tls
      BY DEF Hop
    <3>2. QED
      BY <2>6, <3>1, <2>f DEF LeavesHttp
  <2>7. ASSUME NEW to \in Urls, Follow(to) PROVE FlagInv'
    BY <2>7, <2>e DEF Follow
  <2>8. ASSUME NEW to \in Urls, TooManyHops(to) PROVE FlagInv'
    <3>1. Hop(MaxHops + 1, to, None, "hops", TRUE).tls
      BY DEF Hop
    <3>2. QED
      BY <2>8, <3>1, <2>f DEF TooManyHops
  <2>9. QED
    BY <2>1, <2>2, <2>3, <2>4, <2>5, <2>6, <2>7, <2>8 DEF RNext
<1>3. QED
  BY <1>1, <1>2, TraceTypeCorrect, ChainInvariant, PTL DEF RSpec

\* The chain flags the hops whose answer came unverified, and no other.
THEOREM FlagsAreTrue == RSpec => []UnverifiedIsFlagged
<1>1. RTypeOK /\ ChainInv /\ FlagInv => UnverifiedIsFlagged
  <2> SUFFICES ASSUME RTypeOK, ChainInv, FlagInv PROVE UnverifiedIsFlagged
    OBVIOUS
  <2>1. DOMAIN hops = 1..Len(hops)
    BY DEF RTypeOK
  <2>2. \A i \in DOMAIN hops : hops[i].step = i /\ (i \in unverified <=> ~hops[i].tls)
    BY <2>1 DEF ChainInv, ChainAccounts, FlagInv, Flagged
  <2>3. unverified \subseteq DOMAIN hops
    BY <2>1 DEF FlagInv, Flagged
  <2>4. QED
    BY <2>2, <2>3 DEF UnverifiedIsFlagged
<1>2. QED
  BY <1>1, TraceTypeCorrect, ChainInvariant, FlagInvariant, PTL
=============================================================================

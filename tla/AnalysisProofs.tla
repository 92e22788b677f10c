---------------------------- MODULE AnalysisProofs ----------------------------
(***************************************************************************)
(* Proofs about the analyser, for every message, sender, domain and answer *)
(* of DNS.                                                                 *)
(***************************************************************************)
EXTENDS Analysis, FiniteSetTheorems, WellFoundedInduction, TLAPS

\* The stages before the checks, and those after the details.
Early == {"parse", "received_spf", "spf", "infra", "dkim", "dmarc", "details"}
Later == {"auth_checks", "other_checks", "score", "done"}

\* What the analyser has found stands beside what the receiver found.
Verdict ==
    /\ pc \in Early \cup Later
    /\ mail.ar \in [Mechanisms -> Verdicts]
    /\ mail.receivedSpf \in Verdicts
    /\ res \in [Mechanisms -> Verdicts]
    /\ pc # "parse" => \A m \in Mechanisms : mail.ar[m] # "none" => res[m] = mail.ar[m]
    /\ pc = "infra" => mail.ar["spf"] = "none"

\* Until its own turn DMARC is the receiver's; a pass that the analyser
\* concludes is one of the alignments.
OwnPass ==
    /\ pc \in Early \ {"parse", "details"} => res["dmarc"] = mail.ar["dmarc"]
    /\ pc = "details" /\ mail.ar["dmarc"] = "none" /\ res["dmarc"] = "pass" => SpfAligned \/ DkimAligned
    /\ LocalPassIsAligned

\* A record that the receiver named is there when the checks ask for it.
Named ==
    /\ pc \in Early => lacks = {}
    /\ pc \in Later /\ mail.policy => record # None
    /\ mail.policy => "dmarc_record" \notin lacks

AInv == Verdict /\ OwnPass /\ Named /\ PassNotContradicted

\* No header or content flaw is the missing record.
LEMMA FlawsOf == "dmarc_record" \notin Flaws
  BY DEF Flaws, HeaderImpact, ContentImpact

\* The record found, or named, is one.
LEMMA RecordThere ==
    ASSUME NEW names, mail.policy, NEW r \in Record(names)
    PROVE  r # None
  <1>1. Chain(mail.from) \subseteq Domains /\ Chain(mail.headerFrom) \subseteq Domains
    BY DEF Chain
  <1>2. Found(names) \subseteq Domains
    BY <1>1 DEF Found
  <1>3. None \notin Domains
    BY AnalysisAssumption
  <1> QED
    BY <1>2, <1>3, AnalysisAssumption DEF Record

\* What an ingest stamps leaves the verdicts alone.
LEMMA StampedKeeps ==
    ASSUME NEW m \in Mails, NEW sender
    PROVE  Stamped(m, sender).ar = m.ar /\ Stamped(m, sender).receivedSpf = m.receivedSpf
  <1>1. m \in Mail
    BY AnalysisAssumption
  <1> QED
    BY <1>1 DEF Stamped, Mail

\* What holds before the message is parsed.
LEMMA AInitInv == AInit => AInv
  <1> SUFFICES ASSUME AInit PROVE AInv
    OBVIOUS
  <1>1. PICK m \in Mails, sender \in Senders : mail = Stamped(m, sender)
    BY DEF AInit
  <1>2. m \in Mail
    BY AnalysisAssumption
  <1>3. m.ar \in [Mechanisms -> Verdicts] /\ m.receivedSpf \in Verdicts
    BY <1>2 DEF Mail, Verdicts
  <1>4. mail.ar \in [Mechanisms -> Verdicts] /\ mail.receivedSpf \in Verdicts
    BY <1>1, <1>3, StampedKeeps
  <1>5. pc = "parse" /\ res = NoVerdict /\ lacks = {}
    BY DEF AInit
  <1>6. Verdict
    BY <1>4, <1>5 DEF Verdict, Early, NoVerdict, Verdicts
  <1>7. OwnPass /\ Named /\ PassNotContradicted
    BY <1>5 DEF OwnPass, LocalPassIsAligned, Named, PassNotContradicted, Early, Later
  <1> QED
    BY <1>6, <1>7 DEF AInv

\* The receiver's verdicts are read, and only what they leave open is filled in.
LEMMA VerdictKept ==
    ASSUME AInv, [ANext]_avars
    PROVE  Verdict'
  <1> USE DEF AInv, Verdict, Early, Later
  <1>1. CASE Parse \/ SkipSpf \/ Details \/ AuthChecks \/ OtherChecks \/ Aggregate \/ UNCHANGED avars
    BY <1>1 DEF Parse, SkipSpf, Details, AuthChecks, OtherChecks, Aggregate, avars
  <1>2. CASE ReceivedSpf
    BY <1>2 DEF ReceivedSpf, Mechanisms
  <1>3. CASE CheckSpf
    BY <1>3 DEF CheckSpf, Mechanisms
  <1>4. CASE CheckInfrastructure
    BY <1>4 DEF CheckInfrastructure, Mechanisms, Verdicts
  <1>5. CASE CheckDkim
    BY <1>5 DEF CheckDkim, Mechanisms, Verdicts
  <1>6. CASE CheckDmarc
    BY <1>6 DEF CheckDmarc, LocalDmarc, Mechanisms, Verdicts
  <1> QED
    BY <1>1, <1>2, <1>3, <1>4, <1>5, <1>6 DEF ANext

\* The alignment that makes a DMARC pass is the alignment that is shown.
LEMMA OwnPassKept ==
    ASSUME AInv, [ANext]_avars
    PROVE  OwnPass'
  <1> USE DEF AInv, OwnPass, Early
  <1>1. res \in [Mechanisms -> Verdicts] /\ "dmarc" \in Mechanisms
    BY DEF Verdict, Mechanisms
  <1>2. CASE Parse \/ SkipSpf
    BY <1>2 DEF Parse, SkipSpf, LocalPassIsAligned
  <1>3. CASE ReceivedSpf \/ CheckSpf \/ CheckInfrastructure \/ CheckDkim
    <2>1. mail' = mail /\ res'["dmarc"] = res["dmarc"]
      BY <1>1, <1>3 DEF ReceivedSpf, CheckSpf, CheckInfrastructure, CheckDkim
    <2>2. pc \in Early \ {"parse", "details"} /\ pc' \in {"spf", "dkim", "infra", "dmarc"}
      BY <1>3 DEF ReceivedSpf, CheckSpf, CheckInfrastructure, CheckDkim
    <2> QED
      BY <2>1, <2>2 DEF LocalPassIsAligned
  <1>4. CASE CheckDmarc
    <2>1. pc = "dmarc" /\ pc' = "details" /\ UNCHANGED <<mail, infra>>
      BY <1>4 DEF CheckDmarc
    <2>2. /\ res'["spf"] = res["spf"] /\ res'["dkim"] = res["dkim"]
          /\ res["dmarc"] = "none" => res'["dmarc"] = LocalDmarc
          /\ res["dmarc"] # "none" => res'["dmarc"] = res["dmarc"]
      BY <1>1, <1>4 DEF CheckDmarc
    <2>3. LocalDmarc = "pass" => SpfAligned \/ DkimAligned
      BY DEF LocalDmarc, SpfAligned, DkimAligned
    <2>4. (SpfAligned \/ DkimAligned)' <=> (SpfAligned \/ DkimAligned)
      BY <2>1, <2>2 DEF SpfAligned, DkimAligned, Envelope, SignedBy
    <2>5. (pc = "details" /\ mail.ar["dmarc"] = "none" /\ res["dmarc"] = "pass" => SpfAligned \/ DkimAligned)'
      BY <2>1, <2>2, <2>3, <2>4
    <2> QED
      BY <2>1, <2>5 DEF LocalPassIsAligned
  <1>5. CASE Details
    <2>1. pc = "details" /\ pc' = "auth_checks" /\ UNCHANGED <<mail, res>>
          /\ align'.spf = SpfAligned /\ align'.dkim = DkimAligned
      BY <1>5 DEF Details
    <2> QED
      BY <2>1 DEF LocalPassIsAligned
  <1>6. CASE AuthChecks \/ OtherChecks \/ Aggregate
    BY <1>6 DEF AuthChecks, OtherChecks, Aggregate, LocalPassIsAligned
  <1>7. CASE UNCHANGED avars
    BY <1>7 DEF avars, LocalPassIsAligned, SpfAligned, DkimAligned, Envelope, SignedBy
  <1> QED
    BY <1>2, <1>3, <1>4, <1>5, <1>6, <1>7 DEF ANext

\* The checks ask for a record only where nobody named one.
LEMMA NamedKept ==
    ASSUME AInv, [ANext]_avars
    PROVE  Named'
  <1> USE DEF AInv, Named, Early, Later
  <1>1. CASE Parse \/ ReceivedSpf \/ CheckSpf \/ SkipSpf \/ CheckInfrastructure \/ CheckDkim \/ CheckDmarc
    BY <1>1 DEF Parse, ReceivedSpf, CheckSpf, SkipSpf, CheckInfrastructure, CheckDkim, CheckDmarc
  <1>2. CASE Details
    <2>1. PICK names \in Answers : record' \in Record(names)
      BY <1>2 DEF Details
    <2> QED
      BY <1>2, <2>1, RecordThere DEF Details
  <1>3. CASE AuthChecks
    <2>1. PICK spfDns \in SpfRecord : lacks' = AuthLacks(spfDns)
      BY <1>3 DEF AuthChecks
    <2>2. "dmarc_record" \notin spfDns
      BY DEF SpfRecord
    <2>3. mail.policy => record # None
      BY <1>3 DEF AuthChecks
    <2>4. mail.policy => "dmarc_record" \notin lacks'
      BY <2>1, <2>2, <2>3 DEF AuthLacks, FailedVerdicts, Mechanisms
    <2> QED
      BY <1>3, <2>3, <2>4 DEF AuthChecks
  <1>4. CASE OtherChecks
    <2>1. PICK flaws \in FlawSets :
              lacks' = lacks \cup flaws \cup {c \in {"envelope_inferred"} : Inferred}
                         \cup {c \in {"return_path"} : ReturnPathDiffers}
      BY <1>4 DEF OtherChecks
    <2>2. "dmarc_record" \notin flaws
      BY FlawsOf, AnalysisAssumption
    <2>3. mail.policy => "dmarc_record" \notin lacks'
      BY <2>1, <2>2
    <2> QED
      BY <1>4, <2>3 DEF OtherChecks
  <1>5. CASE Aggregate \/ UNCHANGED avars
    BY <1>5 DEF Aggregate, avars
  <1> QED
    BY <1>1, <1>2, <1>3, <1>4, <1>5 DEF ANext

\* The page lists the second verification under the verdict of the first.
LEMMA ShownKept ==
    ASSUME AInv, [ANext]_avars
    PROVE  PassNotContradicted'
  <1> USE DEF AInv, PassNotContradicted
  <1>1. CASE Parse \/ ReceivedSpf \/ CheckSpf \/ SkipSpf \/ CheckInfrastructure \/ CheckDkim \/ CheckDmarc
    BY <1>1 DEF Parse, ReceivedSpf, CheckSpf, SkipSpf, CheckInfrastructure, CheckDkim, CheckDmarc
  <1>2. CASE Details
    <2>1. PICK verified \in Verifications : shown' = Results(verified)
      BY <1>2 DEF Details
    <2>2. UNCHANGED <<mail, dkimpy, res>>
      BY <1>2 DEF Details
    <2> QED
      BY <2>1, <2>2 DEF Results
  <1>3. CASE AuthChecks \/ OtherChecks \/ Aggregate \/ UNCHANGED avars
    BY <1>3 DEF AuthChecks, OtherChecks, Aggregate, avars
  <1> QED
    BY <1>1, <1>2, <1>3 DEF ANext

\* The invariant holds at every stage.
LEMMA AnalysisInvariant == ASpec => []AInv
  <1>1. AInv /\ [ANext]_avars => AInv'
    BY VerdictKept, OwnPassKept, NamedKept, ShownKept DEF AInv
  <1> QED
    BY <1>1, AInitInv, PTL DEF ASpec

\* What the receiver found, its verdicts and the DMARC record it named, stands
\* through the whole analysis.
THEOREM ReceiverIsBelieved == ASpec => []ReceiverVerdictKept
  <1>1. AInv => ReceiverVerdictKept
    BY DEF AInv, Verdict, Named, ReceiverVerdictKept
  <1> QED
    BY <1>1, AnalysisInvariant, PTL

\* With the DKIM library installed, a pass of DKIM is never shown over a signature
\* listed as failed.
THEOREM PassIsNotContradicted == ASpec => []PassNotContradicted
  <1>1. AInv => PassNotContradicted
    BY DEF AInv
  <1> QED
    BY <1>1, AnalysisInvariant, PTL

\* The analyser's own DMARC pass comes with an alignment it shows.
THEOREM OwnPassIsAligned == ASpec => []LocalPassIsAligned
  <1>1. AInv => LocalPassIsAligned
    BY DEF AInv, OwnPass
  <1> QED
    BY <1>1, AnalysisInvariant, PTL

(***************************************************************************)
(* The sum of points. Induction over finite sets is by a smallest          *)
(* counterexample, whose size is the least of a set of numbers.            *)
(***************************************************************************)

Smaller == {ss \in Nat \X Nat : ss[1] < ss[2]}

\* A set of numbers has a least element.
LEMMA HasLeast ==
    ASSUME NEW T, T \subseteq Nat, T # {}
    PROVE  \E x \in T : \A y \in T : x <= y
  <1>1. IsWellFoundedOn(Smaller, Nat)
    BY NatLessThanWellFounded, Zenon DEF Smaller, OpToRel
  <1>2. PICK x \in T : \A y \in T : ~(<<y, x>> \in Smaller)
    BY <1>1, WFMin, Zenon
  <1>3. ASSUME NEW y \in T PROVE x <= y
    <2>1. x \in Nat /\ y \in Nat /\ ~(<<y, x>> \in Smaller)
      BY <1>2
    <2>2. ~(y < x)
      BY <2>1 DEF Smaller
    <2> QED
      BY <2>1, <2>2
  <1> QED
    BY <1>3

Chosen(s) == CHOOSE x \in s : TRUE

\* The sum of the points of s, given the sums g of smaller sets.
Plus(g, s) == IF s = {} THEN 0 ELSE Impact[Chosen(s)] + g[s \ {Chosen(s)}]

\* The subsets of S with up to n elements.
Small(S, n) == {s \in SUBSET S : Cardinality(s) <= n}

\* The member taken off first.
LEMMA ChosenIn == ASSUME NEW s, s # {} PROVE Chosen(s) \in s
  BY DEF Chosen

\* Without it a set is one smaller.
LEMMA OneLess ==
    ASSUME NEW S, IsFiniteSet(S), NEW s \in SUBSET S, s # {}
    PROVE  /\ s \ {Chosen(s)} \in SUBSET S
           /\ Cardinality(s) \in Nat
           /\ Cardinality(s) > 0
           /\ Cardinality(s \ {Chosen(s)}) = Cardinality(s) - 1
  <1>1. IsFiniteSet(s)
    BY FS_Subset
  <1>2. Chosen(s) \in s
    BY ChosenIn
  <1>3. Cardinality(s) \in Nat /\ Cardinality(s) # 0
    BY <1>1, FS_CardinalityType, FS_EmptySet
  <1>4. Cardinality(s \ {Chosen(s)}) = Cardinality(s) - 1
    BY <1>1, <1>2, FS_RemoveElement
  <1> QED
    BY <1>3, <1>4

\* g solves the recursion on its domain, which has what the subsets of up to n
\* elements are reduced to.
Enough(g, S, n) ==
    /\ g = [t \in DOMAIN g |-> Plus(g, t)]
    /\ DOMAIN g \subseteq Small(S, n)
    /\ \A s \in Small(S, n) : s # {} => s \ {Chosen(s)} \in DOMAIN g

\* The recursion behind the sum has a solution.
LEMMA SumsExist ==
    ASSUME NEW S, IsFiniteSet(S)
    PROVE  \E g : g = [s \in SUBSET S |-> Plus(g, s)]
  <1> DEFINE Solves(g, n) == g = [s \in Small(S, n) |-> Plus(g, s)]
             Open == {n \in Nat : ~\E g : Solves(g, n)}
  <1>1. Open = {}
    <2> SUFFICES ASSUME Open # {} PROVE FALSE
      OBVIOUS
    <2>1. PICK n \in Open : \A k \in Open : n <= k
      BY HasLeast
    <2>2. n \in Nat /\ ~\E g : Solves(g, n)
      BY <2>1
    <2>3. \E g : Enough(g, S, n)
      <3>1. CASE n = 0
        <4>1. ASSUME NEW s \in SUBSET S, s # {} PROVE ~(Cardinality(s) <= n)
          <5>1. Cardinality(s) \in Nat /\ Cardinality(s) > 0
            BY <4>1, OneLess
          <5> QED
            BY <3>1, <5>1
        <4>2. Small(S, n) \subseteq {{}}
          BY <4>1 DEF Small
        <4> DEFINE none == [t \in {} |-> 0]
        <4>4. DOMAIN none = {} /\ none = [t \in DOMAIN none |-> Plus(none, t)]
          OBVIOUS
        <4> QED
          BY <4>2, <4>4 DEF Enough
      <3>2. CASE n # 0
        <4>1. n - 1 \in Nat /\ n - 1 \notin Open
          BY <2>1, <2>2, <3>2
        <4>2. PICK g : Solves(g, n - 1)
          BY <4>1
        <4>3. DOMAIN g = Small(S, n - 1) /\ g = [t \in DOMAIN g |-> Plus(g, t)]
          BY <4>2
        <4>4. \A s \in Small(S, n) : s # {} => s \ {Chosen(s)} \in Small(S, n - 1)
          BY <2>2, OneLess DEF Small
        <4>5. Small(S, n - 1) \subseteq Small(S, n)
          <5> SUFFICES ASSUME NEW s \in SUBSET S, Cardinality(s) <= n - 1 PROVE Cardinality(s) <= n
            BY DEF Small
          <5>1. Cardinality(s) \in Nat
            BY FS_Subset, FS_CardinalityType
          <5> QED
            BY <5>1, <2>2
        <4> QED
          BY <4>3, <4>4, <4>5 DEF Enough
      <3> QED
        BY <3>1, <3>2
    <2>4. PICK g : Enough(g, S, n)
      BY <2>3
    <2> DEFINE h == [s \in Small(S, n) |-> Plus(g, s)]
    <2>5. ASSUME NEW s \in Small(S, n) PROVE Plus(g, s) = Plus(h, s)
      <3>1. CASE s = {}
        BY <3>1 DEF Plus
      <3>2. CASE s # {}
        <4> DEFINE t == s \ {Chosen(s)}
        <4>1. t \in DOMAIN g /\ g = [u \in DOMAIN g |-> Plus(g, u)] /\ t \in Small(S, n)
          BY <2>4, <3>2 DEF Enough
        <4>2. g[t] = Plus(g, t)
          BY <4>1
        <4>3. h[t] = Plus(g, t)
          BY <4>1
        <4> QED
          BY <4>2, <4>3, <3>2 DEF Plus
      <3> QED
        BY <3>1, <3>2
    <2>6. Solves(h, n)
      BY <2>5
    <2> QED
      BY <2>2, <2>6
  <1>2. Cardinality(S) \in Nat
    BY FS_CardinalityType
  <1>3. PICK g : Solves(g, Cardinality(S))
    BY <1>1, <1>2
  <1>4. Small(S, Cardinality(S)) = SUBSET S
    BY FS_Subset DEF Small
  <1> QED
    BY <1>3, <1>4

Sums(S) == CHOOSE g : g = [s \in SUBSET S |-> Plus(g, s)]

\* A sum of points is no less than what any two different checks take off.
LEMMA SumOfPoints ==
    ASSUME NEW S, IsFiniteSet(S), \A c \in S : Impact[c] \in Nat
    PROVE  /\ Points(S) \in Int /\ Points(S) <= 100
           /\ \A c \in S : Points(S) <= 100 - Impact[c]
           /\ \A c, d \in S : c # d => Points(S) <= 100 - Impact[c] - Impact[d]
  <1> DEFINE g == Sums(S)
             Total(s) == /\ g[s] \in Nat
                         /\ \A c \in s : g[s] >= Impact[c]
                         /\ \A c, d \in s : c # d => g[s] >= Impact[c] + Impact[d]
             Wrong == {s \in SUBSET S : ~Total(s)}
             Sizes == {Cardinality(s) : s \in Wrong}
  <1>1. Points(S) = 100 - Sums(S)[S]
    BY DEF Points, MapThenSumSet, MapThenFoldSet, Sums, Plus, Chosen
  <1>2. g = [s \in SUBSET S |-> Plus(g, s)]
    BY SumsExist DEF Sums
  <1>3. Wrong = {}
    <2> SUFFICES ASSUME Wrong # {} PROVE FALSE
      OBVIOUS
    <2>1. Sizes \subseteq Nat /\ Sizes # {}
      BY FS_Subset, FS_CardinalityType
    <2>2. PICK n \in Sizes : \A k \in Sizes : n <= k
      BY <2>1, HasLeast
    <2>3. PICK s \in Wrong : n = Cardinality(s)
      BY <2>2
    <2>4. g[s] = Plus(g, s)
      BY <1>2, <2>3
    <2>5. CASE s = {}
      BY <2>3, <2>4, <2>5 DEF Plus
    <2>6. CASE s # {}
      <3> DEFINE x == Chosen(s)
                 t == s \ {x}
      <3>1. x \in s /\ t \in SUBSET S /\ Cardinality(t) < n
        BY <2>3, <2>6, ChosenIn, OneLess
      <3>2. Total(t)
        <4> SUFFICES ASSUME t \in Wrong PROVE FALSE
          BY <3>1
        <4>1. Cardinality(t) \in Sizes
          OBVIOUS
        <4>2. n \in Nat /\ Cardinality(t) \in Nat
          BY <2>1, <4>1
        <4>3. n <= Cardinality(t)
          BY <2>2, <4>1, Zenon
        <4>4. Cardinality(t) < n
          BY <3>1
        <4> HIDE DEF t, Sizes
        <4> QED
          BY <4>2, <4>3, <4>4
      <3>3. g[s] = Impact[x] + g[t] /\ Impact[x] \in Nat
        BY <2>3, <2>4, <2>6, <3>1 DEF Plus
      <3>4. \A c \in s : c = x \/ c \in t
        OBVIOUS
      <3>5. \A c \in s : Impact[c] \in Nat
        BY <2>3
      <3> HIDE DEF g, x, t
      <3>6. Total(s)
        BY <3>2, <3>3, <3>4, <3>5
      <3> QED
        BY <2>3, <3>6
    <2> QED
      BY <2>5, <2>6
  <1>4. Total(S)
    BY <1>3
  <1> QED
    BY <1>1, <1>4

(***************************************************************************)
(* Types, and what a grade says.                                           *)
(***************************************************************************)

\* Points are natural numbers.
LEMMA ImpactNat == \A c \in DOMAIN Impact : Impact[c] \in Nat
  <1>1. ASSUME NEW c \in DOMAIN AuthImpact PROVE AuthImpact[c] \in Nat
    BY DEF AuthImpact
  <1>2. ASSUME NEW c \in DOMAIN HeaderImpact PROVE HeaderImpact[c] \in Nat
    BY DEF HeaderImpact
  <1>3. ASSUME NEW c \in DOMAIN ContentImpact PROVE ContentImpact[c] \in Nat
    BY DEF ContentImpact
  <1> QED
    BY <1>1, <1>2, <1>3 DEF Impact

\* The checks are those of the three tables.
LEMMA ImpactDomain == DOMAIN Impact = DOMAIN AuthImpact \cup DOMAIN HeaderImpact \cup DOMAIN ContentImpact
  BY DEF Impact

\* There are finitely many.
LEMMA ChecksFinite == IsFiniteSet(DOMAIN Impact)
  <1>1. IsFiniteSet(DOMAIN AuthImpact)
    <2> DEFINE q == <<"spf", "dkim", "dmarc", "spf_lookups", "spf_record", "dkim_missing",
                      "dkim_malformed", "dmarc_record", "alignment">>
    <2>1. q \in Seq(DOMAIN AuthImpact) /\ \A c \in DOMAIN AuthImpact : \E n \in 1..Len(q) : q[n] = c
      BY DEF AuthImpact
    <2> QED
      BY <2>1 DEF IsFiniteSet
  <1>2. IsFiniteSet(DOMAIN HeaderImpact)
    <2> DEFINE q == <<"message_id", "date", "reply_to", "return_path", "envelope_inferred">>
    <2>1. q \in Seq(DOMAIN HeaderImpact) /\ \A c \in DOMAIN HeaderImpact : \E n \in 1..Len(q) : q[n] = c
      BY DEF HeaderImpact
    <2> QED
      BY <2>1 DEF IsFiniteSet
  <1>3. IsFiniteSet(DOMAIN ContentImpact)
    <2> DEFINE q == <<"links", "url_density_high", "url_density_moderate", "image_heavy", "trackers">>
    <2>1. q \in Seq(DOMAIN ContentImpact) /\ \A c \in DOMAIN ContentImpact : \E n \in 1..Len(q) : q[n] = c
      BY DEF ContentImpact
    <2> QED
      BY <2>1 DEF IsFiniteSet
  <1> QED
    BY <1>1, <1>2, <1>3, ImpactDomain, FS_Union

\* What is lost of the 100 points: no less than any two missing checks cost.
LEMMA PointsOfLacks ==
    ASSUME lacks \subseteq DOMAIN Impact
    PROVE  /\ Points(lacks) \in Int /\ Points(lacks) <= 100
           /\ \A c \in lacks : Impact[c] \in Nat /\ Points(lacks) <= 100 - Impact[c]
           /\ \A c, d \in lacks : c # d => Points(lacks) <= 100 - Impact[c] - Impact[d]
  <1>1. IsFiniteSet(lacks)
    BY ChecksFinite, FS_Subset
  <1>2. \A c \in lacks : Impact[c] \in Nat
    BY ImpactNat
  <1> QED
    BY <1>1, <1>2, SumOfPoints
\* The checks that failed are among those that take points off, and the grade
\* is the one of their sum.
Scored ==
    /\ pc \in {"other_checks", "score", "done"} =>
          /\ FailedVerdicts \subseteq lacks
          /\ align.spf \/ align.dkim \/ "alignment" \in lacks
    /\ pc = "done" =>
          /\ score = IF Points(lacks) < 0 THEN 0 ELSE Points(lacks)
          /\ grade = Grade(score)

GradeInv == ATypeOK /\ Scored

\* What an ingest stamps is a domain, or says that there is none.
LEMMA StampedTyped ==
    ASSUME NEW m \in Mails, NEW sender \in Senders
    PROVE  Stamped(m, sender).session \in Domains \cup {None, Absent}
  <1>1. m \in Mail /\ sender \in Domains \cup {None, Absent}
    BY AnalysisAssumption
  <1> QED
    BY <1>1 DEF Stamped, Mail

\* Nothing is lost before the checks.
LEMMA GradeInit == AInit => GradeInv
  <1> SUFFICES ASSUME AInit PROVE GradeInv
    OBVIOUS
  <1>1. mail.session \in Domains \cup {None, Absent}
    BY StampedTyped DEF AInit
  <1>2. res \in [Mechanisms -> Verdicts] /\ passed \subseteq DOMAIN mail.sigs /\ lacks \subseteq DOMAIN Impact
    BY DEF AInit, NoVerdict, Verdicts
  <1>3. dkimpy \in BOOLEAN /\ infra \in BOOLEAN /\ align \in [spf : BOOLEAN, dkim : BOOLEAN]
    BY DEF AInit
  <1>4. record \in Domains \cup {None, "receiver"} /\ score \in 0..100 /\ grade \in {"A", "B", "C", "F"}
    BY DEF AInit
  <1>5. ATypeOK
    BY <1>1, <1>2, <1>3, <1>4 DEF ATypeOK
  <1> QED
    BY <1>5 DEF AInit, Scored, GradeInv

\* The flaws of a message are checks.
LEMMA FlawsTyped == Flaws \subseteq DOMAIN Impact
  BY ImpactDomain DEF Flaws

\* What a stage lacks is a check with points.
LEMMA LacksTyped ==
    ASSUME NEW spfDns \in SpfRecord
    PROVE  AuthLacks(spfDns) \subseteq DOMAIN Impact
  <1>1. spfDns \subseteq DOMAIN AuthImpact
    BY DEF SpfRecord, AuthImpact
  <1>2. FailedVerdicts \subseteq DOMAIN AuthImpact
    BY DEF FailedVerdicts, Mechanisms, AuthImpact
  <1>3. AuthLacks(spfDns) \subseteq DOMAIN AuthImpact
    BY <1>1, <1>2 DEF AuthLacks, AuthImpact
  <1> QED
    BY <1>3, ImpactDomain

\* Every stage keeps the types.
LEMMA TypesKept ==
    ASSUME AInv, GradeInv, [ANext]_avars
    PROVE  ATypeOK'
  <1> USE DEF AInv, GradeInv, ATypeOK
  <1>1. CASE Parse \/ SkipSpf \/ UNCHANGED avars
    BY <1>1 DEF Parse, SkipSpf, Verdict, avars
  <1>2. CASE ReceivedSpf
    BY <1>2 DEF ReceivedSpf, Verdict, Mechanisms
  <1>3. CASE CheckSpf
    BY <1>3 DEF CheckSpf, Mechanisms
  <1>4. CASE CheckInfrastructure
    BY <1>4 DEF CheckInfrastructure, Mechanisms, Verdicts
  <1>5. CASE CheckDkim
    BY <1>5 DEF CheckDkim, Verifications, Mechanisms, Verdicts
  <1>6. CASE CheckDmarc
    BY <1>6 DEF CheckDmarc, LocalDmarc, Mechanisms, Verdicts
  <1>7. CASE Details
    <2>1. PICK names \in Answers : record' \in Record(names)
      BY <1>7 DEF Details
    <2>2. Found(names) \subseteq Domains
      BY DEF Found, Chain
    <2>3. record' \in Domains \cup {None, "receiver"}
      BY <2>1, <2>2 DEF Record
    <2>4. SpfAligned \in BOOLEAN /\ DkimAligned \in BOOLEAN
      BY Zenon DEF SpfAligned, DkimAligned
    <2> QED
      BY <1>7, <2>3, <2>4 DEF Details
  <1>8. CASE AuthChecks
    BY <1>8, LacksTyped DEF AuthChecks
  <1>9. CASE OtherChecks
    <2>1. lacks' \subseteq DOMAIN Impact
      BY <1>9, FlawsTyped, ImpactDomain, AnalysisAssumption DEF OtherChecks, HeaderImpact
    <2> QED
      BY <1>9, <2>1 DEF OtherChecks
  <1>10. CASE Aggregate
    <2>1. Points(lacks) \in Int /\ Points(lacks) <= 100
      BY PointsOfLacks
    <2>2. score' \in 0..100
      BY <1>10, <2>1 DEF Aggregate
    <2>3. grade' \in {"A", "B", "C", "F"}
      BY <1>10 DEF Aggregate, Grade
    <2> QED
      BY <1>10, <2>2, <2>3 DEF Aggregate
  <1> QED
    BY <1>1, <1>2, <1>3, <1>4, <1>5, <1>6, <1>7, <1>8, <1>9, <1>10 DEF ANext

\* Every stage keeps what is known of the missing checks and the score.
LEMMA ScoredKept ==
    ASSUME GradeInv, [ANext]_avars
    PROVE  Scored'
  <1> USE DEF GradeInv, Scored, FailedVerdicts
  <1>1. CASE \/ Parse \/ ReceivedSpf \/ CheckSpf \/ SkipSpf
             \/ CheckInfrastructure \/ CheckDkim \/ CheckDmarc \/ Details
    BY <1>1 DEF Parse, ReceivedSpf, CheckSpf, SkipSpf, CheckInfrastructure, CheckDkim, CheckDmarc, Details
  <1>2. CASE AuthChecks
    BY <1>2 DEF AuthChecks, AuthLacks
  <1>3. CASE OtherChecks
    BY <1>3 DEF OtherChecks
  <1>4. CASE Aggregate
    BY <1>4 DEF Aggregate
  <1>5. CASE UNCHANGED avars
    BY <1>5 DEF avars
  <1> QED
    BY <1>1, <1>2, <1>3, <1>4, <1>5 DEF ANext

\* Both hold at every stage.
LEMMA GradeInvariant == ASpec => []GradeInv
  <1>1. AInv /\ GradeInv /\ [ANext]_avars => GradeInv'
    BY TypesKept, ScoredKept DEF GradeInv
  <1> QED
    BY <1>1, GradeInit, AnalysisInvariant, PTL DEF ASpec

\* Type correctness, the bounds of the score included: it stays in 0..100
\* whatever the message lacks.
THEOREM AnalysisTypeCorrect == ASpec => []ATypeOK
  <1>1. GradeInv => ATypeOK
    BY DEF GradeInv
  <1> QED
    BY <1>1, GradeInvariant, PTL

\* Whatever checks are added up to a grade A, none of the big ones is among
\* them, and no two warnings.
LEMMA LacksOfA ==
    ASSUME GradeInv, pc = "done", grade = "A"
    PROVE  /\ {"spf", "dkim", "dmarc", "alignment"} \cap lacks = {}
           /\ \A c, d \in lacks : Impact[c] >= 10 /\ Impact[d] >= 10 => c = d
  <1>1. lacks \subseteq DOMAIN Impact
    BY DEF GradeInv, ATypeOK
  <1>2. score >= 90 /\ score = IF Points(lacks) < 0 THEN 0 ELSE Points(lacks)
    <2>1. score \in Int /\ grade = Grade(score) /\ score = IF Points(lacks) < 0 THEN 0 ELSE Points(lacks)
      BY DEF GradeInv, Scored, ATypeOK
    <2> QED
      BY <2>1 DEF Grade
  <1>3. Points(lacks) \in Int /\ Points(lacks) >= 90
    BY <1>1, <1>2, PointsOfLacks
  <1>4. \A c \in lacks : Impact[c] \in Nat /\ Impact[c] <= 10
    BY <1>1, <1>3, PointsOfLacks
  <1>5. Impact["spf"] = 25 /\ Impact["dkim"] = 25 /\ Impact["dmarc"] = 25 /\ Impact["alignment"] = 15
    BY DEF Impact, AuthImpact
  <1>6. ASSUME NEW c \in lacks, NEW d \in lacks, Impact[c] >= 10, Impact[d] >= 10, c # d PROVE FALSE
    <2>1. Points(lacks) <= 100 - Impact[c] - Impact[d]
      BY <1>1, <1>6, PointsOfLacks
    <2> QED
      BY <1>3, <1>4, <1>6, <2>1
  <1> QED
    BY <1>4, <1>5, <1>6

\* Grade A hides no failure: DKIM, DMARC and an alignment passed, SPF did not
\* fail, and at most one warning is there.
THEOREM GradeAHidesNothing == ASpec => []GradeAIsClean
  <1>1. GradeInv => GradeAIsClean
    <2> SUFFICES ASSUME GradeInv, pc = "done", grade = "A"
                 PROVE  /\ res["dkim"] = "pass" /\ res["dmarc"] = "pass"
                        /\ res["spf"] \in {"pass", "none"}
                        /\ align.spf \/ align.dkim
                        /\ Cardinality({c \in lacks : Impact[c] >= 10}) <= 1
      BY DEF GradeAIsClean
    <2> DEFINE warnings == {c \in lacks : Impact[c] >= 10}
    <2>1. FailedVerdicts \subseteq lacks /\ (align.spf \/ align.dkim \/ "alignment" \in lacks)
      BY DEF GradeInv, Scored
    <2>2. "spf" \notin lacks /\ "dkim" \notin lacks /\ "dmarc" \notin lacks /\ "alignment" \notin lacks
      BY LacksOfA
    <2>3. res["dkim"] = "pass" /\ res["dmarc"] = "pass" /\ res["spf"] \in {"pass", "none"}
      BY <2>1, <2>2 DEF FailedVerdicts, Mechanisms
    <2>4. warnings = {} \/ \E c \in lacks : warnings = {c}
      BY LacksOfA
    <2>5. Cardinality(warnings) = 0 \/ Cardinality(warnings) = 1
      BY <2>4, FS_EmptySet, FS_Singleton, Zenon
    <2>6. Cardinality(warnings) <= 1
      BY <2>5
    <2> QED
      BY <2>1, <2>2, <2>3, <2>6
  <1> QED
    BY <1>1, GradeInvariant, PTL
(***************************************************************************)
(* Where the claim of the alignment check is true.                         *)
(***************************************************************************)

\* A DKIM pass of the analyser's own is one of a signature it verified, and
\* what is shown as aligned is a pass next to a signature of the From domain.
DkimInv ==
    /\ pc \in {"received_spf", "spf", "infra", "dkim"} => res["dkim"] = mail.ar["dkim"]
    /\ pc \in {"dmarc", "details"} \cup Later /\ mail.ar["dkim"] = "none" /\ res["dkim"] = "pass"
         => passed # {}
    /\ pc \in Later /\ align.dkim => DkimAligned

\* Every stage keeps what is known of the signatures.
LEMMA DkimKept ==
    ASSUME AInv, DkimInv, [ANext]_avars
    PROVE  DkimInv'
  <1> USE DEF DkimInv, Later
  <1>1. res \in [Mechanisms -> Verdicts] /\ "dkim" \in Mechanisms
    BY DEF AInv, Verdict, Mechanisms
  <1>2. CASE Parse \/ SkipSpf
    BY <1>2 DEF Parse, SkipSpf
  <1>3. CASE ReceivedSpf \/ CheckSpf \/ CheckInfrastructure
    <2>1. mail' = mail /\ res'["dkim"] = res["dkim"] /\ pc' \in {"spf", "dkim", "infra"}
      BY <1>1, <1>3 DEF ReceivedSpf, CheckSpf, CheckInfrastructure
    <2>2. pc \in {"received_spf", "spf", "infra"}
      BY <1>3 DEF ReceivedSpf, CheckSpf, CheckInfrastructure
    <2> QED
      BY <2>1, <2>2
  <1>4. CASE CheckDkim
    <2>1. pc = "dkim" /\ pc' = "dmarc" /\ mail' = mail
      BY <1>4 DEF CheckDkim
    <2>2. mail.ar["dkim"] = "none" /\ res'["dkim"] = "pass" => passed' # {}
      BY <1>1, <1>4 DEF CheckDkim
    <2> QED
      BY <2>1, <2>2
  <1>5. CASE CheckDmarc
    <2>1. pc = "dmarc" /\ pc' = "details" /\ UNCHANGED <<mail, passed>> /\ res'["dkim"] = res["dkim"]
      BY <1>1, <1>5 DEF CheckDmarc
    <2> QED
      BY <2>1
  <1>6. CASE Details
    <2>1. pc = "details" /\ pc' = "auth_checks" /\ UNCHANGED <<mail, res, passed>> /\ align'.dkim = DkimAligned
      BY <1>6 DEF Details
    <2>2. DkimAligned' <=> DkimAligned
      BY <2>1 DEF DkimAligned, SignedBy
    <2> QED
      BY <2>1, <2>2
  <1>7. CASE AuthChecks \/ OtherChecks \/ Aggregate \/ UNCHANGED avars
    <2>1. UNCHANGED <<mail, res, passed, align>> /\ (pc \in Later \/ pc' = pc)
      BY <1>7 DEF AuthChecks, OtherChecks, Aggregate, avars
    <2>2. DkimAligned' <=> DkimAligned
      BY <2>1 DEF DkimAligned, SignedBy
    <2>3. CASE UNCHANGED avars
      BY <2>2, <2>3 DEF avars
    <2>4. CASE AuthChecks \/ OtherChecks \/ Aggregate
      BY <2>1, <2>2, <2>4 DEF AuthChecks, OtherChecks, Aggregate
    <2> QED
      BY <1>7, <2>3, <2>4
  <1> QED
    BY <1>2, <1>3, <1>4, <1>5, <1>6, <1>7 DEF ANext

\* All signatures are of the From domain, or none is.
SignaturesAgree ==
    \A i, j \in DOMAIN mail.sigs : Aligns(mail.sigs[i].d, mail.from) => Aligns(mail.sigs[j].d, mail.from)

\* "At least one aligned identifier passed" (checks.py) is true of every message
\* whose signatures agree, one with a single signature among them: what breaks
\* the claim is a mixture of the sender's signature and another's.
THEOREM AlignmentClaimHolds == ASpec => [](SignaturesAgree => AlignedIdentifierPassed)
  <1>1. AInit => DkimInv
    BY DEF AInit, DkimInv, Later
  <1>2. AInv /\ DkimInv /\ [ANext]_avars => DkimInv'
    BY DkimKept
  <1>3. GradeInv /\ DkimInv => (SignaturesAgree => AlignedIdentifierPassed)
    <2> SUFFICES ASSUME GradeInv, DkimInv, SignaturesAgree, pc = "done", mail.ar["dkim"] = "none",
                        "alignment" \notin lacks, ~align.spf
                 PROVE  \E i \in passed : Aligns(mail.sigs[i].d, mail.from)
      BY DEF AlignedIdentifierPassed
    <2>1. align.dkim
      BY DEF GradeInv, Scored
    <2>2. passed # {} /\ passed \subseteq DOMAIN mail.sigs /\ DkimAligned
      BY <2>1 DEF DkimInv, Later, DkimAligned, GradeInv, ATypeOK
    <2>3. \E j \in DOMAIN mail.sigs : Aligns(mail.sigs[j].d, mail.from)
      BY <2>2 DEF DkimAligned, SignedBy
    <2> QED
      BY <2>2, <2>3 DEF SignaturesAgree
  <1> QED
    BY <1>1, <1>2, <1>3, AnalysisInvariant, GradeInvariant, PTL DEF ASpec
=============================================================================

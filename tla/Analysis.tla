------------------------------ MODULE Analysis ------------------------------
(***************************************************************************)
(* One run of the analyser (api/analyzer_core): the receiver's verdicts    *)
(* are read from the headers, missing ones are computed, DNS records are   *)
(* looked up, and checks take points off a score of 100. DNS answers are   *)
(* nondeterministic: every lookup may fail.                                *)
(***************************************************************************)
EXTENDS Integers, Sequences, FiniteSets, FiniteSetsExt

CONSTANTS Domains,     \* domains that occur in a message
          Subdomains,  \* pairs <<child, parent>> of them
          Mails,       \* messages: what the analyser reads of their headers
          Senders,     \* envelope senders an ingest hands over
          FlawSets,    \* sets of header and content flaws
          None, Absent

Mechanisms == {"spf", "dkim", "dmarc"}
Verdicts == {"pass", "fail", "softfail", "none", "neutral", "temperror", "permerror"}

\* session: the envelope sender stamped at ingest, named: the MAIL FROM a receiver
\* wrote down; Absent is no header at all, None an empty address. policy: the DMARC
\* pass in Authentication-Results comes with the record's tags, for the domain
\* headerFrom. hop: where the message was handed in, nothing known, an address, or
\* one in the top Received hop whose HELO is a known ESP's. sigs: DKIM-Signature
\* headers, their d= domain and whether they have an s= tag.
Mail == [ar : [Mechanisms -> Verdicts], receivedSpf : {"none", "pass", "fail", "softfail"},
         from : Domains \cup {None}, session : Domains \cup {None, Absent},
         returnPath : Domains \cup {None, Absent}, named : Domains \cup {None},
         headerFrom : Domains \cup {None}, policy : BOOLEAN,
         hop : {"none", "plain", "esp"}, sigs : Seq([d : Domains \cup {None}, s : BOOLEAN])]

\* What each check takes off when it does not pass. Checks worth 10 points or
\* more are warned about, the others only noted.
AuthImpact == [spf |-> 25, dkim |-> 25, dmarc |-> 25, spf_lookups |-> 10, spf_record |-> 10,
               dkim_missing |-> 10, dkim_malformed |-> 10, dmarc_record |-> 10, alignment |-> 15]
HeaderImpact == [message_id |-> 10, date |-> 5, reply_to |-> 5, return_path |-> 5,
                 envelope_inferred |-> 10]
ContentImpact == [links |-> 10, url_density_high |-> 10, url_density_moderate |-> 5,
                  image_heavy |-> 10, trackers |-> 10]

Impact == [c \in DOMAIN AuthImpact \cup DOMAIN HeaderImpact \cup DOMAIN ContentImpact |->
              IF c \in DOMAIN AuthImpact THEN AuthImpact[c]
              ELSE IF c \in DOMAIN HeaderImpact THEN HeaderImpact[c] ELSE ContentImpact[c]]

\* What is wrong with a message besides its authentication.
Flaws == (DOMAIN HeaderImpact \cup DOMAIN ContentImpact) \ {"envelope_inferred", "return_path"}

ASSUME AnalysisAssumption ==
    /\ Subdomains \subseteq Domains \X Domains
    /\ Mails \subseteq Mail
    /\ Senders \subseteq Domains \cup {None, Absent}
    /\ {None, Absent, "receiver"} \cap Domains = {}
    /\ None \notin {Absent, "receiver"}
    /\ FlawSets \subseteq SUBSET Flaws

VARIABLES pc,      \* the next stage
          mail,    \* the message
          dkimpy,  \* the DKIM library can be imported
          res,     \* auth_results
          infra,   \* spf_uses_infrastructure
          passed,  \* DKIM signatures (by index) that verified
          shown,   \* per signature, the result of the details
          record,  \* domain of the DMARC record: None, or "receiver" for its tags
          align,   \* alignment: spf_aligned and dkim_aligned
          lacks,   \* ids of the checks that did not pass
          score, grade

avars == <<pc, mail, dkimpy, res, infra, passed, shown, record, align, lacks, score, grade>>

NoVerdict == [m \in Mechanisms |-> "none"]

\* apply_smtp_session_metadata: the ingest's sender goes into the message, unless
\* one is there already.
Stamped(m, sender) ==
    IF m.session # Absent \/ sender = Absent THEN m
    ELSE [m EXCEPT !.session = sender, !.returnPath = IF @ = Absent THEN sender ELSE @]

AInit ==
    /\ pc = "parse"
    /\ \E m \in Mails, sender \in Senders : mail = Stamped(m, sender)
    /\ dkimpy \in BOOLEAN
    /\ res = NoVerdict
    /\ infra = FALSE
    /\ passed = {}
    /\ shown = <<>>
    /\ record = None
    /\ align = [spf |-> FALSE, dkim |-> FALSE]
    /\ lacks = {}
    /\ score = 100
    /\ grade = "A"

\* domain_aligns.
Aligns(child, parent) ==
    /\ child # None
    /\ parent # None
    /\ child = parent \/ <<child, parent>> \in Subdomains

\* _envelope_from_authoritative: MAIL FROM is known, not guessed.
Authoritative == mail.session # Absent \/ mail.returnPath \in Domains \/ mail.named # None

\* extract_envelope_from: the From header stands in where nothing was captured. A
\* null sender captured at ingest is one.
Envelope ==
    IF mail.session # Absent THEN mail.session
    ELSE IF mail.returnPath \in Domains THEN mail.returnPath
    ELSE IF mail.named # None THEN mail.named
    ELSE mail.from

\* _choose_sender_ip finds an address.
SenderKnown == mail.hop # "none"

\* _top_hop_helo_and_ip and _esp_registrable_domain: the top hop is that address,
\* under the name of a known ESP.
EspHop == mail.hop = "esp"

SignedBy == {mail.sigs[i].d : i \in DOMAIN mail.sigs} \ {None}

\* parse_auth_results.
Parse ==
    /\ pc = "parse"
    /\ res' = mail.ar
    /\ pc' = "received_spf"
    /\ UNCHANGED <<mail, dkimpy, infra, passed, shown, record, align, lacks, score, grade>>

\* Slip: Received-SPF is believed over Authentication-Results.
ReceivedSpfFirst ==
    /\ pc = "received_spf"
    /\ res' = IF mail.receivedSpf # "none" THEN [res EXCEPT !["spf"] = mail.receivedSpf] ELSE res
    /\ pc' = "spf"
    /\ UNCHANGED <<mail, dkimpy, infra, passed, shown, record, align, lacks, score, grade>>

ReceivedSpf ==
    /\ pc = "received_spf"
    /\ res' = IF res["spf"] = "none" THEN [res EXCEPT !["spf"] = mail.receivedSpf] ELSE res
    /\ pc' = "spf"
    /\ UNCHANGED <<mail, dkimpy, infra, passed, shown, record, align, lacks, score, grade>>

\* SPF is evaluated for the envelope; an error leaves it "none".
CheckSpf ==
    /\ pc = "spf"
    /\ res["spf"] = "none"
    /\ SenderKnown
    /\ Envelope # None
    /\ \E v \in Verdicts : res' = [res EXCEPT !["spf"] = v]
    /\ pc' = IF res'["spf"] \in {"pass", "none"} \/ Authoritative \/ ~EspHop
             THEN "dkim" ELSE "infra"
    /\ UNCHANGED <<mail, dkimpy, infra, passed, shown, record, align, lacks, score, grade>>

SkipSpf ==
    /\ pc = "spf"
    /\ res["spf"] # "none" \/ ~SenderKnown \/ Envelope = None
    /\ pc' = "dkim"
    /\ UNCHANGED <<mail, dkimpy, res, infra, passed, shown, record, align, lacks, score, grade>>

\* MAIL FROM was a guess and did not pass: the ESP's own SPF may, for the hop.
CheckInfrastructure ==
    /\ pc = "infra"
    /\ \E ok \in BOOLEAN :
          /\ res' = IF ok THEN [res EXCEPT !["spf"] = "pass"] ELSE res
          /\ infra' = ok
    /\ pc' = "dkim"
    /\ UNCHANGED <<mail, dkimpy, passed, shown, record, align, lacks, score, grade>>

WellFormed(i) == mail.sigs[i].d # None /\ mail.sigs[i].s

\* What a verification of all signatures, each over up to four forms of the
\* message, may find: one without d= or s= cannot pass, and without the library
\* none does.
Verifications ==
    IF dkimpy THEN SUBSET {i \in DOMAIN mail.sigs : WellFormed(i)} ELSE {{}}

\* The result is used when there is none yet.
CheckDkim ==
    /\ pc = "dkim"
    /\ passed' \in Verifications
    /\ res' = IF res["dkim"] = "none" /\ mail.sigs # <<>>
              THEN [res EXCEPT !["dkim"] = IF passed' # {} THEN "pass" ELSE "fail"]
              ELSE res
    /\ pc' = "dmarc"
    /\ UNCHANGED <<mail, dkimpy, infra, shown, record, align, lacks, score, grade>>

\* Slip: any SPF pass will do.
LocalDmarcSpf ==
    IF res["spf"] = "pass" \/ (res["dkim"] = "pass" /\ \E d \in SignedBy : Aligns(d, mail.from)) THEN "pass"
    ELSE IF res["spf"] \in {"fail", "softfail", "permerror"} /\ res["dkim"] = "fail" THEN "fail"
    ELSE "none"

\* What fallback_auth_results concludes for itself, with an alignment of its own.
LocalDmarc ==
    IF \/ res["spf"] = "pass" /\ ~infra /\ Aligns(Envelope, mail.from)
       \/ res["dkim"] = "pass" /\ \E d \in SignedBy : Aligns(d, mail.from)
    THEN "pass"
    ELSE IF res["spf"] \in {"fail", "softfail", "permerror"} /\ res["dkim"] = "fail" THEN "fail"
    ELSE "none"

CheckDmarc ==
    /\ pc = "dmarc"
    /\ res' = IF res["dmarc"] = "none" THEN [res EXCEPT !["dmarc"] = LocalDmarc] ELSE res
    /\ pc' = "details"
    /\ UNCHANGED <<mail, dkimpy, infra, passed, shown, record, align, lacks, score, grade>>

SpfAligned == res["spf"] = "pass" /\ ~infra /\ Aligns(Envelope, mail.from)
DkimAligned == res["dkim"] = "pass" /\ \E d \in SignedBy : Aligns(d, mail.from)

\* Slip: the second verification starts from nothing.
ResultsFromNone(verified) ==
    [i \in DOMAIN mail.sigs |-> IF i \in verified THEN "pass" ELSE "fail"]

\* The signatures as the page lists them: one that does not verify keeps the
\* verdict when that is a pass, but without the library all are failed.
Results(verified) ==
    [i \in DOMAIN mail.sigs |->
        IF i \in verified \/ (dkimpy /\ res["dkim"] = "pass") THEN "pass" ELSE "fail"]

\* _dmarc_suffix_chain: a domain and its parents.
Chain(d) == {p \in Domains : Aligns(d, p)}

\* Where DNS, the system's or a public server, may answer with a record; a name
\* that times out with both has none.
Answers == SUBSET (Chain(mail.from) \cup Chain(mail.headerFrom))

\* _lookup_dmarc_record, given the names where DNS answered with a record: the
\* nearest to the From domain, then the nearest to the one the receiver named.
Found(names) ==
    LET Nearest(d) == {p \in Chain(d) \cap names : \A q \in Chain(d) \cap names : Aligns(q, p) => q = p}
    IN  IF Chain(mail.from) \cap names # {} THEN Nearest(mail.from) ELSE Nearest(mail.headerFrom)

\* Without a record, the tags in the receiver's DMARC pass stand in for it.
Record(names) ==
    IF Found(names) # {} THEN Found(names)
    ELSE IF mail.policy THEN {"receiver"} ELSE {None}

\* build_auth_details: signatures are verified again and the DMARC record is
\* looked up; the alignment is what the page shows and the checks read.
Details ==
    /\ pc = "details"
    /\ \E verified \in Verifications : shown' = Results(verified)
    /\ \E names \in Answers : record' \in Record(names)
    /\ align' = [spf |-> SpfAligned, dkim |-> DkimAligned]
    /\ pc' = "auth_checks"
    /\ UNCHANGED <<mail, dkimpy, res, infra, passed, lacks, score, grade>>

Malformed == \E i \in DOMAIN mail.sigs : i <= 3 /\ ~WellFormed(i)

FailedVerdicts ==
    {m \in Mechanisms : res[m] # "pass"} \ (IF res["spf"] = "none" THEN {"spf"} ELSE {})

\* Slip: alignment is left to the verdicts.
AuthLacksUnaligned(spfDns) ==
    FailedVerdicts \cup spfDns
      \cup {c \in {"dmarc_record"} : record = None}
      \cup {c \in {"dkim_missing"} : mail.sigs = <<>>}
      \cup {c \in {"dkim_malformed"} : Malformed}

\* What DNS may say of the SPF record: nothing amiss, none, or too long.
SpfRecord ==
    {{"spf_record"}} \cup (IF Envelope = None /\ mail.from = None THEN {} ELSE {{}, {"spf_lookups"}})

\* run_auth_checks, given what DNS said of the SPF record.
AuthLacks(spfDns) ==
    FailedVerdicts \cup spfDns
      \cup {c \in {"dmarc_record"} : record = None}
      \cup {c \in {"dkim_missing"} : mail.sigs = <<>>}
      \cup {c \in {"dkim_malformed"} : Malformed}
      \cup {c \in {"alignment"} : ~align.spf /\ ~align.dkim}

AuthChecks ==
    /\ pc = "auth_checks"
    /\ \E spfDns \in SpfRecord : lacks' = AuthLacks(spfDns)
    /\ pc' = "other_checks"
    /\ UNCHANGED <<mail, dkimpy, res, infra, passed, shown, record, align, score, grade>>

\* envelope_from_source: "header-from-fallback".
Inferred == ~Authoritative /\ mail.from # None

ReturnPathDiffers == mail.returnPath \in Domains /\ mail.from # None /\ mail.returnPath # mail.from

\* run_header_checks and run_content_checks.
OtherChecks ==
    /\ pc = "other_checks"
    /\ \E flaws \in FlawSets :
          lacks' = lacks \cup flaws
                     \cup {c \in {"envelope_inferred"} : Inferred}
                     \cup {c \in {"return_path"} : ReturnPathDiffers}
    /\ pc' = "score"
    /\ UNCHANGED <<mail, dkimpy, res, infra, passed, shown, record, align, score, grade>>

Points(checks) == 100 - MapThenSumSet(LAMBDA c : Impact[c], checks)

Grade(n) == IF n >= 90 THEN "A" ELSE IF n >= 70 THEN "B" ELSE IF n >= 50 THEN "C" ELSE "F"

\* aggregate_deliverability.
Aggregate ==
    /\ pc = "score"
    /\ score' = IF Points(lacks) < 0 THEN 0 ELSE Points(lacks)
    /\ grade' = Grade(score')
    /\ pc' = "done"
    /\ UNCHANGED <<mail, dkimpy, res, infra, passed, shown, record, align, lacks>>

ANext ==
    \/ Parse \/ ReceivedSpf \/ CheckSpf \/ SkipSpf \/ CheckInfrastructure \/ CheckDkim
    \/ CheckDmarc \/ Details \/ AuthChecks \/ OtherChecks \/ Aggregate

ASpec == AInit /\ [][ANext]_avars

(***************************************************************************)
(* Properties                                                              *)
(***************************************************************************)

\* Type invariant.
ATypeOK ==
    /\ mail.session \in Domains \cup {None, Absent}
    /\ dkimpy \in BOOLEAN
    /\ res \in [Mechanisms -> Verdicts]
    /\ infra \in BOOLEAN
    /\ passed \subseteq DOMAIN mail.sigs
    /\ record \in Domains \cup {None, "receiver"}
    /\ align \in [spf : BOOLEAN, dkim : BOOLEAN]
    /\ lacks \subseteq DOMAIN Impact
    /\ score \in 0..100
    /\ grade \in {"A", "B", "C", "F"}

\* What the receiving server found is never replaced by what the analyser finds
\* later, when the DNS may have changed: neither its verdicts, nor the DMARC
\* record it named, which is not reported missing.
ReceiverVerdictKept ==
    pc # "parse" =>
        /\ \A m \in Mechanisms : mail.ar[m] # "none" => res[m] = mail.ar[m]
        /\ mail.policy => "dmarc_record" \notin lacks

\* Signatures are verified twice, for the verdict and for the page. When the
\* verdict is a pass, the receiver's or the analyser's own, the page lists no
\* signature as failed, whatever DNS answers the second time. That takes the DKIM
\* library: without it every signature is listed as failed, also next to a pass
\* of the receiver's.
PassNotContradicted ==
    pc \in {"auth_checks", "other_checks", "score", "done"} /\ res["dkim"] = "pass" /\ dkimpy
      => \A i \in DOMAIN mail.sigs : shown[i] = "pass"

\* A DMARC pass that the analyser itself concluded is backed by the alignment it
\* reports, although the two are computed in different places.
LocalPassIsAligned ==
    /\ pc \notin {"parse", "received_spf", "spf", "infra", "dkim", "dmarc", "details"}
    /\ mail.ar["dmarc"] = "none"
    /\ res["dmarc"] = "pass"
    => align.spf \/ align.dkim

\* Grade A: DKIM and DMARC passed, something is aligned, SPF did not fail, and
\* there is at most one warning.
GradeAIsClean ==
    pc = "done" /\ grade = "A" =>
        /\ res["dkim"] = "pass" /\ res["dmarc"] = "pass"
        /\ res["spf"] \in {"pass", "none"}
        /\ align.spf \/ align.dkim
        /\ Cardinality({c \in lacks : Impact[c] >= 10}) <= 1

\* checks.py, auth.dmarc.alignment: "At least one aligned identifier passed
\* (SPF or DKIM)".
AlignedIdentifierPassed ==
    /\ pc = "done"
    /\ mail.ar["dkim"] = "none"
    /\ "alignment" \notin lacks
    => align.spf \/ \E i \in passed : Aligns(mail.sigs[i].d, mail.from)
=============================================================================

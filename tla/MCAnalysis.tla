----------------------------- MODULE MCAnalysis -----------------------------
(***************************************************************************)
(* TLC instances of Analysis: a brand, a subdomain of it, and its ESP.     *)
(***************************************************************************)
EXTENDS Analysis

OneBrand == {<<"mail.brand", "brand">>}

Signed(d) == [d |-> d, s |-> TRUE]

Plain == [ar |-> NoVerdict, receivedSpf |-> "none", from |-> "brand", session |-> Absent,
          returnPath |-> Absent, named |-> None, headerFrom |-> None, policy |-> FALSE,
          hop |-> "plain", sigs |-> <<>>]

Signatures ==
    {<<>>, <<Signed("brand")>>, <<Signed("esp")>>, <<Signed("esp"), Signed("mail.brand")>>,
     <<Signed("brand"), Signed(None)>>, <<[d |-> "brand", s |-> FALSE]>>}

\* Every mix of header verdicts, hops and up to two signatures.
Mixed ==
    {[Plain EXCEPT !.ar = [spf |-> s, dkim |-> k, dmarc |-> m], !.receivedSpf = r, !.from = f,
                   !.hop = h, !.sigs = g] :
        s \in {"none", "fail"}, k \in {"none", "pass"}, m \in {"none", "pass"},
        r \in {"none", "pass"}, f \in {"brand", None}, h \in {"none", "esp"}, g \in Signatures}

\* Every way to know MAIL FROM and the DMARC record.
Sourced ==
    {[Plain EXCEPT !.ar = [NoVerdict EXCEPT !["dmarc"] = IF p THEN "pass" ELSE "none"],
                   !.from = f, !.session = e, !.returnPath = r, !.named = n,
                   !.headerFrom = h, !.policy = p, !.hop = "esp", !.sigs = <<Signed("esp")>>] :
        f \in {"mail.brand", None}, e \in {Absent, None, "esp"}, r \in {Absent, None, "brand"},
        n \in {None, "mail.brand"}, h \in {None, "brand"}, p \in BOOLEAN}

AllMails == Mixed \cup Sourced

AllSenders == {Absent, None, "brand", "mail.brand", "esp"}

\* Mail without Authentication-Results that carries two signatures.
TwoSignatures == {[Plain EXCEPT !.sigs = <<Signed("esp"), Signed("brand")>>]}

FromEsp == {"esp"}

SomeFlaws == {{}, {"date"}, {"message_id", "date"}, {"links", "url_density_high", "image_heavy", "trackers"}}
=============================================================================

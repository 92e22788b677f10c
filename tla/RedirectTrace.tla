---------------------------- MODULE RedirectTrace ----------------------------
(***************************************************************************)
(* trace_url of api/redirect_trace.py: one request per hop; redirects are  *)
(* followed by hand until an answer that is none, an error, the hop limit  *)
(* or the deadline, which is looked at between hops only. A site may       *)
(* answer anything, and the same address differently each time.            *)
(***************************************************************************)
EXTENDS Integers, Sequences

CONSTANTS Urls,        \* addresses a redirect may name
          HttpUrls,    \* those with an allowed scheme
          MaxHops,     \* MAX_HOPS
          Budget,      \* TOTAL_BUDGET_SECONDS
          MaxLookup,   \* bound on a DNS lookup, which the code leaves to the resolver
          MaxRequest,  \* bound on a request: PER_HOP_TIMEOUT bounds each wait in it
          None

ASSUME TraceAssumption ==
    /\ HttpUrls \subseteq Urls
    /\ None \notin Urls
    /\ MaxHops \in Nat \ {0}
    /\ Budget \in Nat
    /\ MaxLookup \in Nat
    /\ MaxRequest \in Nat

VARIABLES pc,          \* "top", "request", "insecure", "done" or "raised"
          step, url,   \* the hop, and current_url
          clock,       \* time since total_start
          hops,        \* the chain
          redirected,
          unverified   \* history: steps answered with TLS verification off

rvars == <<pc, step, url, clock, hops, redirected, unverified>>

\* to is redirect_location; error names the reason the chain ended early.
Hop(n, u, to, error, tls) == [step |-> n, url |-> u, to |-> to, error |-> error, tls |-> tls]

RInit ==
    /\ pc = "top"
    /\ step = 1
    /\ url \in HttpUrls
    /\ clock = 0
    /\ hops = <<>>
    /\ redirected = FALSE
    /\ unverified = {}

\* Slip: the deadline is looked at when the hop limit is, once.
TimeUpAtLimit == clock > Budget /\ step = MaxHops

TimeUp == clock > Budget

Passes(max) == \E t \in 0..max : clock' = clock + t

\* The chain ends with a hop that says why.
Abort(error) ==
    /\ hops' = Append(hops, Hop(step, url, None, error, TRUE))
    /\ pc' = "done"
    /\ UNCHANGED <<step, url, redirected, unverified>>

OutOfTime ==
    /\ pc = "top"
    /\ TimeUp
    /\ Abort("budget")
    /\ UNCHANGED clock

\* The pre-flight lookup.
Resolve ==
    /\ pc = "top"
    /\ ~TimeUp
    /\ Passes(MaxLookup)
    /\ \/ Abort("lookup")
       \/ /\ pc' = "request"
          /\ UNCHANGED <<step, url, hops, redirected, unverified>>

\* A certificate that does not verify: the request is made again without.
BadCertificate ==
    /\ pc = "request"
    /\ Passes(MaxRequest)
    /\ pc' = "insecure"
    /\ UNCHANGED <<step, url, hops, redirected, unverified>>

RequestFails ==
    /\ pc \in {"request", "insecure"}
    /\ Passes(MaxRequest)
    /\ Abort("request")

\* An address that does not parse, or has no valid name or port, raises a
\* ValueError that nothing handles: the caller gets no chain.
Raises ==
    /\ \/ pc = "top" /\ ~TimeUp /\ Passes(MaxLookup)
       \/ pc \in {"request", "insecure"} /\ Passes(MaxRequest)
    /\ pc' = "raised"
    /\ UNCHANGED <<step, url, hops, redirected, unverified>>

Answered ==
    /\ pc \in {"request", "insecure"}
    /\ Passes(MaxRequest)
    /\ unverified' = IF pc = "insecure" THEN unverified \cup {step} ELSE unverified

\* Slip: the flag is left at its default.
ThisHopTrusted(to) == Hop(step, url, to, None, TRUE)

\* The hop of an answer that redirects to to.
ThisHop(to) == Hop(step, url, to, None, pc = "request")

\* An answer that is no redirect ends the chain.
Arrived ==
    /\ Answered
    /\ hops' = Append(hops, ThisHop(None))
    /\ pc' = "done"
    /\ UNCHANGED <<step, url, redirected>>

\* A redirect that leaves http is shown and not followed.
LeavesHttp(to) ==
    /\ Answered
    /\ to \notin HttpUrls
    /\ hops' = hops \o <<ThisHop(to), Hop(step + 1, to, None, "scheme", TRUE)>>
    /\ redirected' = TRUE
    /\ pc' = "done"
    /\ UNCHANGED <<step, url>>

\* Slip: a redirect is not counted as a step.
FollowUncounted(to) ==
    /\ Answered
    /\ to \in HttpUrls
    /\ step < MaxHops
    /\ hops' = IF hops = <<>> THEN <<ThisHop(to)>> ELSE hops
    /\ redirected' = TRUE
    /\ url' = to
    /\ pc' = "top"
    /\ UNCHANGED step

Follow(to) ==
    /\ Answered
    /\ to \in HttpUrls
    /\ step < MaxHops
    /\ hops' = Append(hops, ThisHop(to))
    /\ redirected' = TRUE
    /\ url' = to
    /\ step' = step + 1
    /\ pc' = "top"

\* Slip: the loop just ends.
TooManyHopsSilent(to) ==
    /\ Answered
    /\ to \in HttpUrls
    /\ step = MaxHops
    /\ hops' = Append(hops, ThisHop(to))
    /\ redirected' = TRUE
    /\ url' = to
    /\ pc' = "done"
    /\ UNCHANGED step

\* The last hop redirects on: the else branch of the loop.
TooManyHops(to) ==
    /\ Answered
    /\ to \in HttpUrls
    /\ step = MaxHops
    /\ hops' = hops \o <<ThisHop(to), Hop(MaxHops + 1, to, None, "hops", TRUE)>>
    /\ redirected' = TRUE
    /\ url' = to
    /\ pc' = "done"
    /\ UNCHANGED step

RNext ==
    \/ OutOfTime \/ Resolve \/ BadCertificate \/ RequestFails \/ Raises \/ Arrived
    \/ \E to \in Urls : LeavesHttp(to) \/ Follow(to) \/ TooManyHops(to)

\* The handler's thread goes on, and lookups and requests end by their timeouts.
RSpec == RInit /\ [][RNext]_rvars /\ WF_rvars(RNext)

(***************************************************************************)
(* Properties                                                              *)
(***************************************************************************)

Errors == {None, "budget", "lookup", "request", "scheme", "hops"}
HopRecord == [step : 1..MaxHops + 1, url : Urls, to : Urls \cup {None},
              error : Errors, tls : BOOLEAN]

\* Type invariant.
RTypeOK ==
    /\ pc \in {"top", "request", "insecure", "done", "raised"}
    /\ step \in 1..MaxHops
    /\ url \in HttpUrls
    /\ clock \in Nat
    /\ hops \in Seq(HopRecord)
    /\ redirected \in BOOLEAN
    /\ unverified \subseteq 1..MaxHops

\* The chain accounts for itself whichever way it ended: the hops are counted
\* without a gap, each is at the address the one before redirects to, and the
\* last one is an answer that does not redirect or says why it was not followed.
ChainAccounts ==
    /\ \A i \in DOMAIN hops :
          /\ hops[i].step = i
          /\ hops[i].error # None => i = Len(hops) /\ hops[i].to = None
          /\ i < Len(hops) => hops[i].to = hops[i + 1].url
    /\ pc = "done" => hops # <<>> /\ hops[Len(hops)].to = None
    /\ redirected = (hops # <<>> /\ hops[1].to # None)

\* A hop is marked unverified exactly when its answer came over a connection
\* whose certificate did not verify.
UnverifiedIsFlagged == {hops[i].step : i \in {j \in DOMAIN hops : ~hops[j].tls}} = unverified

\* A trace outlasts its budget by one hop at most, which is a lookup and, for a
\* bad certificate, two requests.
OverrunIsOneHop == clock <= Budget + MaxLookup + 2 * MaxRequest

\* Every trace ends, also when the sites redirect in a circle for ever.
TraceEnds == <>(pc \in {"done", "raised"})
=============================================================================

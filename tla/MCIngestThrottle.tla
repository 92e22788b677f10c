-------------------------- MODULE MCIngestThrottle --------------------------
(***************************************************************************)
(* TLC instance of IngestThrottle: the clock stops at MaxClock and the     *)
(* process restarts at most MaxRuns times.                                 *)
(***************************************************************************)
EXTENDS IngestThrottle

CONSTANTS MaxClock, MaxRuns

MCTNext ==
    \/ \E ip \in IPs : Arrive(ip) \/ RefuseDaily(ip) \/ RefuseSoon(ip) \/ Accept(ip)
    \/ clock < MaxClock /\ TTick
    \/ runs < MaxRuns /\ TRestart

MCTSpec == TInit /\ [][MCTNext]_tvars
=============================================================================

------------------------------- MODULE MCStore -------------------------------
(***************************************************************************)
(* TLC instance of Store: analyses that differ in one column or the other. *)
(***************************************************************************)
EXTENDS Store, TLC

TwoColumns == {[auth |-> "none", deliv |-> "low"], [auth |-> "none", deliv |-> "high"],
               [auth |-> "pass", deliv |-> "low"]}

Symmetry == Permutations(Sessions) \cup Permutations(Mails)
=============================================================================

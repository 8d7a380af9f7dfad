---------------------------- MODULE MCDashboard -----------------------------
(***************************************************************************)
(* Instances of Dashboard for TLC.                                         *)
(***************************************************************************)
EXTENDS Dashboard, TLC

MCProviderOf == [o \in Orders |-> "RAPPI"]

Interchangeable ==
    Permutations(Orders) \cup Permutations(Operators) \cup Permutations(Dashboards)
=============================================================================

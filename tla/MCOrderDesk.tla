---------------------------- MODULE MCOrderDesk -----------------------------
(***************************************************************************)
(* Instances of OrderDesk for TLC.                                         *)
(***************************************************************************)
EXTENDS OrderDesk, TLC

MCProviderOf == [o \in Orders |-> "RAPPI"]

Interchangeable == Permutations(Orders) \cup Permutations(Operators)
=============================================================================

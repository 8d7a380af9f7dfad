---------------------------- MODULE MCOrderReads ----------------------------
(***************************************************************************)
(* Instances of OrderReads for TLC; the simulator is one of the operators. *)
(***************************************************************************)
EXTENDS OrderReads, TLC

MCProviderOf == [o \in Orders |-> "RAPPI"]

Interchangeable == Permutations(Operators \ {Simulator})
=============================================================================

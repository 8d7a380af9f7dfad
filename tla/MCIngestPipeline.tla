-------------------------- MODULE MCIngestPipeline --------------------------
(***************************************************************************)
(* Instances of IngestPipeline for TLC.  The bodies are e1, e2 and e3, the *)
(* business orders are k1 and k2; e1 and e2 name the same order.           *)
(***************************************************************************)
EXTENDS IngestPipeline, TLC

CONSTANTS e1, e2, e3, k1, k2

MCKeyOf == [e \in Events |-> IF e = e3 THEN k2 ELSE k1]

\* Requests, workers and retry calls are interchangeable; bodies are not.
Interchangeable ==
    Permutations(Requests) \cup Permutations(Workers) \cup Permutations(Calls)
=============================================================================

------------------------------ MODULE MCRawArc ------------------------------
(***************************************************************************)
(* Model-checking instance of RawArc: threads and references are           *)
(* interchangeable.                                                        *)
(***************************************************************************)
EXTENDS RawArc, TLC

Symmetric == Permutations(Thread) \cup Permutations(Ref)
=============================================================================

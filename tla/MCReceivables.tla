---------------------------- MODULE MCReceivables ----------------------------
(* Model-checking instance of Receivables: symmetry of the requests. *)
EXTENDS Receivables, TLC

Symmetry == Permutations(Requests)
=============================================================================

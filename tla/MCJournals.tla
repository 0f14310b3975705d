----------------------------- MODULE MCJournals -----------------------------
(* Model-checking instance of Journals: symmetry of the identities. *)
EXTENDS Journals, TLC

Symmetry == Permutations(Requests) \cup Permutations(Users) \cup Permutations(ClientUuids)
=============================================================================

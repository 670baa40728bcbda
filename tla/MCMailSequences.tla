-------------------------- MODULE MCMailSequences --------------------------
(* Contacts are alike, and so are batches. *)
EXTENDS MailSequences, TLC
MCSymmetry == Permutations(Contacts) \cup Permutations(Batches)
=============================================================================

---------------------------- MODULE MCConnection ----------------------------
(* TLC instances of Connection. *)
EXTENDS Connection, TLC

\* Ids are interchangeable (safety runs only).
IdSymmetry == Permutations(Ids)

=============================================================================

-------------------------- MODULE MCCommandDispatch --------------------------
(* Small instances of the command dispatcher. *)
EXTENDS CommandDispatch, TLC

\* Nothing but equality is asked of a command's id.
IdSymmetry == Permutations(Ids)
=============================================================================

---------------------------- MODULE MCFigaroTurn ----------------------------
(* Small instances of FigaroTurn. *)
EXTENDS FigaroTurn, TLC

\* Prompts and well-formed calls are interchangeable in the runs that use this:
\* there all prompts carry text.
Symmetric == Permutations(Prompts) \cup Permutations(Calls \ Malformed)
=============================================================================

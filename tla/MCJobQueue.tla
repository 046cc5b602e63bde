----------------------------- MODULE MCJobQueue -----------------------------
(***************************************************************************)
(* JobQueue for TLC.  The configurations choose from these names: a fixture *)
(* reminder, an ordinary one, two workers, two schedulers and a token.     *)
(***************************************************************************)
EXTENDS JobQueue, TLC

CONSTANTS fix, ord, w1, w2, s1, s2, tokA

\* Workers differ in nothing but their names.
Symmetry == Permutations({w1, w2})
=============================================================================

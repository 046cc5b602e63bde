--------------------------- MODULE MCSecureStore ----------------------------
(* SecureStore for TLC: three calls at once, two sessions.                 *)
EXTENDS SecureStore, TLC

\* Calls, sessions and keys differ in nothing but their names.
Interchangeable == Permutations(Calls) \cup Permutations(Values) \cup Permutations(Keys)
=============================================================================

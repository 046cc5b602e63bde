-------------------------- MODULE MCDeviceSession --------------------------
(* DeviceSession on small instances. *)
EXTENDS DeviceSession, TLC

\* Names of jobs, tokens and accounts are interchangeable: every account of
\* these instances has a row already.
Interchangeable == Permutations(Jobs) \cup Permutations(Tokens) \cup Permutations(Users)
=============================================================================

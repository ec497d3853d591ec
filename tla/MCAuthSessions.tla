--------------------------- MODULE MCAuthSessions ---------------------------
(* Instances of AuthSessions for TLC.                                      *)
EXTENDS AuthSessions, TLC

\* Sessions, families and requests are interchangeable.
Symmetric ==
  Permutations(Sessions) \cup Permutations(Families) \cup Permutations(Requests)
=============================================================================

---------------------------- MODULE MCEnrollment ----------------------------
(* Instance of Enrollment for TLC: tokens are interchangeable, and so are  *)
(* endpoints.                                                              *)
EXTENDS Enrollment, TLC

Symmetric == Permutations(Tokens) \cup Permutations(Endpoints)
=============================================================================

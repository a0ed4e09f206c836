---------------------------- MODULE MCTokenCache ----------------------------
(***************************************************************************)
(* TokenCache with two threads and times scaled down: a timeout of one     *)
(* second, the margin twice that, a token that is valid() for two seconds. *)
(***************************************************************************)
EXTENDS TokenCache, TLC

ThreadSymmetry == Permutations(Threads)

=============================================================================

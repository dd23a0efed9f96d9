---------------------------- MODULE MCAsyncFutures ----------------------------
(* AsyncFutures with a few calls.                                           *)
EXTENDS AsyncFutures, TLC

FutureSymmetry == Permutations(Future)
=============================================================================

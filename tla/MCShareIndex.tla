----------------------------- MODULE MCShareIndex -----------------------------
(* Instances of ShareIndex for TLC. *)
EXTENDS ShareIndex, TLC

CONSTANTS s1, f1

(* One share with one file in it. *)
HomeOne == f1 :> s1

ThreadSymmetry == Permutations(Threads)

===============================================================================

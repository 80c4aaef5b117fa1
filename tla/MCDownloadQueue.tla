-------------------------- MODULE MCDownloadQueue --------------------------
(* Instances of DownloadQueue for TLC. *)
EXTENDS DownloadQueue, TLC

(* Neither items nor threads have an order: the dictionaries have none.      *)
QueueSymmetry == Permutations(Items) \cup Permutations(Threads)

=============================================================================

------------------------------ MODULE MCSwarm ------------------------------
(* Instances of Swarm for TLC: the sets of workers, uploaders and folders    *)
(* are sets of model values, given in the .cfg files.                        *)
EXTENDS Swarm, TLC

(* The workers of a swarm run the same code and nothing names one of them.   *)
WorkerSymmetry == Permutations(Workers)

=============================================================================

------------------------------ MODULE MCMutex ------------------------------
(***************************************************************************)
(* Instances of Mutex for TLC.  Threads and condvars are interchangeable   *)
(* model values; the symmetry is used by the runs without liveness.        *)
(***************************************************************************)
EXTENDS Mutex, TLC

Symmetry == Permutations(Threads) \cup Permutations(Condvars)

=============================================================================

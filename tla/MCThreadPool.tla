--------------------------- MODULE MCThreadPool ---------------------------
(***************************************************************************)
(* Instances of ThreadPool for TLC.  Cores and user mappings are           *)
(* interchangeable; threads are not, the first free one is taken.          *)
(***************************************************************************)
EXTENDS ThreadPool, TLC

Symmetry == Permutations(Cores) \cup Permutations(UserMaps)

=============================================================================

---------------------------- MODULE MCSessions ----------------------------
(***************************************************************************)
(* Instances of Sessions for TLC.  Threads are interchangeable; the TAs    *)
(* are told apart by their flags.                                          *)
(***************************************************************************)
EXTENDS Sessions, TLC

CONSTANTS a, b, m

\* a opens b and, in vain, itself; the multi-instance m opens a.
NestedOpens == {<< a, b >>, << a, a >>, << m, a >>}

\* a opens b.
ChainOpens == {<< a, b >>}

Symmetry == Permutations(Threads)

=============================================================================

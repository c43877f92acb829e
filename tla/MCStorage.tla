----------------------------- MODULE MCStorage -----------------------------
(***************************************************************************)
(* Instances of Storage for TLC: clients and names are interchangeable.    *)
(***************************************************************************)
EXTENDS Storage, TLC

\* An object is opened to work on it alone, or to read it with others.
OwnerOrReaders == {{"R", "W", "META"}, {"R", "SHARE_R"}}
Owner == {{"R", "W", "META"}}

\* Writers share the object.
SharedWriters == {{"W", "SHARE_W"}}

Symmetry == Permutations(Clients) \cup Permutations(Names)

=============================================================================

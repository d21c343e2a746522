--------------------------- MODULE MCNssLifecycle ---------------------------
EXTENDS NssLifecycle, TLC

(* Objects, addresses and the non-empty tuples are interchangeable.        *)
Symmetry ==
  Permutations(Objects) \cup Permutations(Addresses)
    \cup Permutations(Tuples \ {EmptyTuple})
=============================================================================

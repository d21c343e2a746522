----------------------------- MODULE MCSslHooks -----------------------------
EXTENDS SslHooks, TLC

(* Bound: the program sets one kind of hook in a run, whichever it is.     *)
(* Only setters lead out of this, and nothing obliges a program to call    *)
(* one, so fairness means the same within the bound.                       *)
OneHook ==
  \E h \in Hook : \A o \in Objects, k \in Hook \ {h} : callback[o][k] = NoTag

Symmetry ==
  Permutations(Threads) \cup Permutations(Objects)
    \cup Permutations(Descriptors) \cup Permutations(Tags)
    \cup Permutations(Pins)
=============================================================================

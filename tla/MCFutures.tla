----------------------------- MODULE MCFutures -----------------------------
(* Small instances of Futures for TLC.                                     *)
EXTENDS Futures, TLC

\* Threads, variables and shared states are interchangeable.
Symmetry ==
    Permutations(Thread) \cup Permutations(Promise) \cup Permutations(Future)
        \cup Permutations(State)
=============================================================================

-------------------------- MODULE MCCApiGeneration --------------------------
(* Instances of CApiGeneration for TLC. *)
EXTENDS CApiGeneration, TLC

CONSTANTS h1, h2, t1, t2, default, private

\* Threads are interchangeable, and so are handles; sound for safety properties only.
Symmetry == Permutations(Handles) \cup Permutations(Threads)
=============================================================================

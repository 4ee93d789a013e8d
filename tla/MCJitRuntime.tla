---------------------------- MODULE MCJitRuntime ----------------------------
(* Instances of JitRuntime for TLC: entry addresses on neighbouring pages. *)
EXTENDS JitRuntime, TLC

CONSTANTS r1, r2, j1, j2

\* r1's block starts on page 0 and may run into page 1, where r2's starts.
Firsts == [r \in Rips |-> IF r = r1 THEN 0 ELSE 1]

Symmetry == Permutations(Jobs)

\* All blocks on the same pages.
SamePage == [r \in Rips |-> 0]

=============================================================================

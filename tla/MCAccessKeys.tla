---------------------------- MODULE MCAccessKeys ----------------------------
(* AccessKeys for TLC: keys, verifiers, runs, processes are interchangeable.  *)
EXTENDS AccessKeys, TLC

MCAges == {-1, 0, 1}
Symmetry == Permutations(Keys) \cup Permutations(Verifiers) \cup Permutations(Processes)
            \cup Permutations(Runs)
=============================================================================

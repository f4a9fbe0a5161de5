--------------------------- MODULE WebAppManagerMC ---------------------------
(* Instances of WebAppManager small enough for TLC. *)
EXTENDS WebAppManager, TLC

\* Identities of heap objects are interchangeable, and so are process ids, which
\* the code only compares for equality.  Application ids are not: killApp and
\* clearMemoryCaches take the first in the order of the QMap.
Symmetry == Permutations(Objects) \cup Permutations(Windows) \cup Permutations(Pids)
=============================================================================

------------------------------ MODULE MCChain ------------------------------
(***************************************************************************)
(* Block trees for Chain.                                                  *)
(***************************************************************************)
EXTENDS Chain

\* A cut-down version of the tree of the stress test: the canonical branch up
\* to E, a branch of the fork B1 up to D1 and another one up to D2.
StressParent ==
    [A |-> "G", B |-> "A", C |-> "B", D |-> "C", E |-> "D",
     B1 |-> "A", C1 |-> "B1", D1 |-> "C1", C2 |-> "B1", D2 |-> "C2"]
StressBlock == DOMAIN StressParent
StressHeight ==
    [G |-> 0, A |-> 1, B |-> 2, C |-> 3, D |-> 4, E |-> 5,
     B1 |-> 2, C1 |-> 3, D1 |-> 4, C2 |-> 3, D2 |-> 4]

\* The blocks of the upper branch compete with siblings, so that several
\* disconnected chains follow the same block.  C1, D1 and D2 have heights that do
\* not follow from their parents', and N has no parent at all.
MixedParent ==
    [A |-> "G", B |-> "A", C |-> "B", D |-> "C", B1 |-> "A", C1 |-> "B1", D1 |-> "C1",
     C2 |-> "B1", D2 |-> "C2", N |-> "none"]
MixedBlock == DOMAIN MixedParent
MixedHeight ==
    [G |-> 0, A |-> 1, B |-> 2, C |-> 3, D |-> 4, B1 |-> 2, C1 |-> 5, D1 |-> 4,
     C2 |-> 3, D2 |-> 6, N |-> 2]

\* The stress test's fork B1 carries the highest branch, which at first may be
\* the lower of the two that wait for B1.
LateParent ==
    [A |-> "G", B |-> "A", B1 |-> "A", C1 |-> "B1", D1 |-> "C1",
     C2 |-> "B1", D2 |-> "C2", E2 |-> "D2"]
LateBlock == DOMAIN LateParent
LateHeight ==
    [G |-> 0, A |-> 1, B |-> 2, B1 |-> 2, C1 |-> 3, D1 |-> 4, C2 |-> 3, D2 |-> 4, E2 |-> 5]
=============================================================================

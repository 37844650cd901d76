-------------------------- MODULE MCGenerationLedger --------------------------
(***************************************************************************)
(* GenerationLedger for TLC.  Two generations compete for a place while a  *)
(* third is activated elsewhere; generations, labels and workers are       *)
(* interchangeable.                                                        *)
(***************************************************************************)
EXTENDS GenerationLedger, TLC

CONSTANTS g1, g2, g3, l1, l2, w1, w2

Symmetry == Permutations({g1, g2, g3}) \union Permutations({l1, l2})

\* A label names at most one generation (pin_generation, PinLabelInUse).  Two
\* concurrent pins break it: as an invariant of GenerationLedgerConcurrent.cfg
\* it fails.
LabelsAreUnique ==
  \A g, h \in Generations :
    Rooted(g) /\ Rooted(h) /\ gcRoots[g].label = gcRoots[h].label =>
      g = h \/ gcRoots[g].label = NoLabel
=============================================================================

--------------------------- MODULE MCStoreOpening ---------------------------
(* One schema change touches one family, the types two families share, or    *)
(* the Horizon definition that jobs and the configuration both hold.         *)
EXTENDS StoreOpening, TLC

CONSTANTS p1, p2

MCSchemas ==
  {{t} : t \in Tables} \union {{"job", "configuration"}, {"log", "outbox"}, {"record", "intent"}}

Symmetry == Permutations(Pids)
=============================================================================

-------------------------- MODULE WorkflowCatalogMC --------------------------
(* Small instances of WorkflowCatalog for TLC.  The ids of a kind are        *)
(* interchangeable: nothing in the model, and no safety property, tells two  *)
(* of them apart.                                                            *)
EXTENDS WorkflowCatalog, TLC

Symmetry == Permutations(Workflows) \cup Permutations(Versions)
                \cup Permutations(Runs) \cup Permutations(Clients) \cup Permutations(Configs)
                \cup Permutations(Instants)
=============================================================================

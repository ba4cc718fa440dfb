-------------------------- MODULE MCModelPipeline --------------------------
EXTENDS ModelPipeline, TLC

WorkerSymmetry == Permutations(Workers)
Symmetry == WorkerSymmetry \cup Permutations(Requests)
=============================================================================

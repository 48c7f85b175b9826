------------------------ MODULE MCGenerationLifecycle -------------------------
(* Model-checking instance of GenerationLifecycle, with the inductive invariants *)
(* of its proofs at hand.                                                        *)
EXTENDS GenerationHealth_proofs
===============================================================================

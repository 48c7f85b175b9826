--------------------------- MODULE MCEngineAdmission ---------------------------
(* Model-checking instances of EngineAdmission, with the invariant of its proofs.  *)
EXTENDS EngineAdmission_proofs
===============================================================================

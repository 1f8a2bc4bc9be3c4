------------------------------ MODULE MCCasOutbox ------------------------------
(* Model-checking instances of CasOutbox.  The workers are interchangeable.  *)
EXTENDS CasOutbox, TLC

WorkerSymmetry == Permutations(Workers)
================================================================================

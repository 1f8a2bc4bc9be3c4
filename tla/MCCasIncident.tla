----------------------------- MODULE MCCasIncident -----------------------------
(* Model-checking instances of CasIncident.  The handsets are interchangeable. *)
EXTENDS CasIncident, TLC

PhoneSymmetry == Permutations(Phones)
================================================================================

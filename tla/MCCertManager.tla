--------------------------- MODULE MCCertManager ---------------------------
(* Instances of CertManager for TLC: values for its constants.             *)
EXTENDS CertManager, TLC

MCLimit    == [k \in Kinds |-> 1]
MCNoFaults == [k \in Kinds |-> IF k = "crash" THEN 1 ELSE 0]
MCSymmetry == Permutations(Callers)
=============================================================================

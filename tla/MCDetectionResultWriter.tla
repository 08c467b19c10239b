---------------------- MODULE MCDetectionResultWriter ----------------------
(* Instance of DetectionResultWriter for TLC; the constants are model      *)
(* values given in the configurations.                                     *)
EXTENDS DetectionResultWriter, TLC

PathSymmetry == Permutations(Paths)
=============================================================================

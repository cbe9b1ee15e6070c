--------------------------- MODULE MCAutoAnalysis ---------------------------
(* AutoAnalysis for TLC; the cfg files give the constants their values.    *)
EXTENDS AutoAnalysis
=============================================================================

------------------------- MODULE MCPortfolioDraft -------------------------
(* Model-checking instance of PortfolioDraft: a known and an unknown core,  *)
(* one known satellite, and weights that include a negative one and one     *)
(* that is above 1 but within the tolerance, in 200ths.                     *)
EXTENDS PortfolioDraft
CONSTANTS fund, ghost, stock
MCCores == {fund, ghost}
MCSatellites == {stock}
MCKnown == {fund, stock}
MCWeights == {-40, 120, 201}
===========================================================================

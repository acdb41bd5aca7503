-------------------------- MODULE MCCopilotDrawer ---------------------------
(* Two portfolios, so that a switch leaves one conversation for another;   *)
(* nothing tells them apart but their keys.                                *)
EXTENDS CopilotDrawer

CONSTANTS p1, p2

MCPortfolios == {p1, p2}
MCNoValue == <<>>
Symmetry == Permutations(MCPortfolios)
=============================================================================

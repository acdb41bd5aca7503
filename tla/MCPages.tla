------------------------------ MODULE MCPages -------------------------------
(* Two stocks in two sectors, one or two funds on a page of cards; typed    *)
(* percentages that make the total negative, zero and positive.             *)
EXTENDS Pages

CONSTANTS f1, f2, s1, s2, p1, p2

MCPortfolios == {p1, p2}
Symmetry == Permutations(MCPortfolios)
MCPercents == {-60, 40}
MCSearches == {{f1, f2, s1, s2}, {f1, s1}}
=============================================================================

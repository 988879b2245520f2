--------------------------- MODULE MCHillClimbing ---------------------------
(****************************************************************************)
(* Rates for HillClimbing.  Against the best rate 1 they are: equal, inside *)
(* the operation region, on its boundary (delta_be = 2), outside it, and a  *)
(* change of phase (more than 4).                                           *)
(****************************************************************************)
EXTENDS HillClimbing

MCRates == {1, 2, 3, 4, 8}
=============================================================================

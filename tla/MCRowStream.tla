---------------------------- MODULE MCRowStream ----------------------------
(***************************************************************************)
(* RowStream on small instances: the model values and the symmetry of the   *)
(* runs RowStream_*.cfg.                                                     *)
(***************************************************************************)
EXTENDS RowStream, TLC

CONSTANTS c1, c2, v1, v2

\* No definition tells columns or values apart, and no run that uses this
\* checks liveness.
MCSymmetry == Permutations({c1, c2}) \cup Permutations({v1, v2})
=============================================================================

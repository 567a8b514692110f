--------------------------- MODULE MCLan80xxMacsec ---------------------------
(* Instances of the LAN80xx MACsec tables for TLC.                         *)
EXTENDS Lan80xxMacsec, TLC

CONSTANTS p1, p2, x1, x2

Symmetry == Permutations({p1, p2}) \cup Permutations({x1, x2})
====

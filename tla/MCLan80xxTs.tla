------------------------------ MODULE MCLan80xxTs ------------------------------
(* Small instances of Lan80xxTs for TLC.                                        *)
EXTENDS Lan80xxTs, TLC
CONSTANTS base, other, ptp0, f0, f1, c1, c2, eth, ip

\* No clock, and two whose entries overlap without being the same.
SomeClocks ==
    {NoClock, [mode |-> "BC", delaym |-> "P2P"], [mode |-> "TC", delaym |-> "E2E"]}

\* No property or action tells apart two flows, two encapsulations or two
\* configurations.
Symmetric ==
    Permutations({f0, f1}) \union Permutations({c1, c2}) \union Permutations({eth, ip})
================================================================================

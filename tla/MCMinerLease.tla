---------------------------- MODULE MCMinerLease ----------------------------
EXTENDS MinerLease

CONSTANTS m1, v1

\* The precompile finds the validator; the miner registers itself.
ValidatorLookup == [a \in Addrs |-> IF a = v1 THEN 1 ELSE None]

\* Two quantizations of one model, and another model.
ModelIds == [m \in Models |-> IF m \in {"q4", "q8"} THEN "q" ELSE m]
=============================================================================

-------------------------- MODULE MCMinerRegistry --------------------------
EXTENDS MinerRegistry, TLC

CONSTANTS m1, m2, e1, e2

Symmetry == Permutations({m1, m2}) \union Permutations({e1, e2})

\* The precompile finds neither address: every neuron registers itself.
NoLookup == [a \in Addrs |-> None]
=============================================================================

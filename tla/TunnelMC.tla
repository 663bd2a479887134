------------------------------ MODULE TunnelMC ------------------------------
EXTENDS TunnelPipes, TLC

Symmetry == Permutations(Clients)
=============================================================================

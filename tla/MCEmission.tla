----------------------------- MODULE MCEmission -----------------------------
EXTENDS Emission, TLC

Symmetry == Permutations(Commands)

\* Bound: what commands do once two links have one number is left to the proofs.
BeforeFork == ~Forked(Links)
=============================================================================

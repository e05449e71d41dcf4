------------------------------ MODULE MCTokenIds ------------------------------
EXTENDS TokenIds

\* Every residue of an index modulo up to three ranges, combined with every
\* residue of an offset modulo up to five ids.
MCEntropies == 0..11
=============================================================================

------------------------------ MODULE MCBuckets ------------------------------
EXTENDS Buckets, TLC

Symmetric == Permutations(Tenants)
=============================================================================

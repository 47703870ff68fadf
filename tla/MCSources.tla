----------------------------- MODULE MCSources ------------------------------
EXTENDS Sources, TLC

Sources2 == Permutations(Source)
=============================================================================

------------------------------- MODULE MCDam -------------------------------
EXTENDS Dam

CONSTANTS a, b, k1, k2, k3
=============================================================================

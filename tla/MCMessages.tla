----------------------------- MODULE MCMessages -----------------------------
EXTENDS MessageDelivery

CONSTANTS p1, p2, s1, s2
=============================================================================

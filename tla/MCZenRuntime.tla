---------------------------- MODULE MCZenRuntime ----------------------------
EXTENDS ZenRuntime

CONSTANTS r1, r2, d1, d2, h1, h2, m1, m2, i1, i2, n1, n2
=============================================================================

---------------------------- MODULE MCExecutors ----------------------------
EXTENDS Executors

CONSTANTS r1, r2, r3, r4, d1, d2, d3, d4, h1, h2, h3, h4,
          m1, m2, m3, m4, i1, i2, i3, i4, n1, n2, n3, n4
=============================================================================

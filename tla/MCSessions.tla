---------------------------- MODULE MCSessions ----------------------------
EXTENDS Sessions

CONSTANTS s1, s2, s3, i1, i2, t1, t2
=============================================================================

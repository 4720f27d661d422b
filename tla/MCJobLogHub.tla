----------------------------- MODULE MCJobLogHub -----------------------------
EXTENDS JobLogHub

CONSTANTS r1, r2
=============================================================================

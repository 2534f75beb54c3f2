----------------------------- MODULE MCBackoff -----------------------------
EXTENDS Backoff

\* Small widths: products of base and power pass U64Max, delays in milliseconds
\* pass U32Max, the counter reaches U32Max, and the largest shift reaches the
\* largest cap from some bases but not from all.
MCSeconds == {0, 1, 2, 3, 5, 7, 15}
=============================================================================

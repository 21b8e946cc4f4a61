----------------------------- MODULE MCOutings -----------------------------
EXTENDS Outings

CONSTANTS j1, j2

MCJobs == {j1, j2}
=============================================================================

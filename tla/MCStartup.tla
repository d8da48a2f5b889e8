----------------------------- MODULE MCStartup -----------------------------
EXTENDS Startup
CONSTANTS v1, n1, u1, u2
=============================================================================

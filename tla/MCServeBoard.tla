----------------------------- MODULE MCServeBoard -----------------------------
EXTENDS ServeBoard

CONSTANTS stream, r1
=============================================================================

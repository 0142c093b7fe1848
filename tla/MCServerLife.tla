---------------------------- MODULE MCServerLife ----------------------------
EXTENDS ServerLife
=============================================================================

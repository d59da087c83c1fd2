------------------------------- MODULE MCGnss -------------------------------
EXTENDS Gnss
=============================================================================

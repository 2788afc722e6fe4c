------------------------------- MODULE MCTurns -------------------------------
EXTENDS Turns, TLC
=============================================================================

---------------------------- MODULE MCPriceAlerts ----------------------------
EXTENDS PriceAlerts, TLC

\* The second alert watches the upper level, the others the lower one.
OneAbove == {2}
=============================================================================

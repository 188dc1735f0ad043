----------------------------- MODULE MCGmPaths -----------------------------
EXTENDS GmPaths

\* Two circles side by side, which are entered from a fifth trapezoid through a
\* portal that is open one way.
MCNeighbors == <<<<2, 3>>, <<3, 4>>, <<2, 4, 5>>, <<2, 3, 5>>, <<3, 4>>>>
MCCosts == 0..9
=============================================================================

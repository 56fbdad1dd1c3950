--------------------------- MODULE MCControlPlane ---------------------------
EXTENDS ControlPlane

CONSTANTS a, b, c

\* Two points per node but one, and two shards with different first owners.
MCCircle == <<a, c, b, a, c>>
MCStarts == <<2, 4>>
=============================================================================

-------------------------- MODULE MCVampAlsaHost --------------------------
\* Labels in the map's order: devices 1 and 3 (3 is a radio), their writers 2
\* and 4, plugins 5 and 6, connections 7 and 8, and the listener 9.
EXTENDS VampAlsaHost

MCFileOf == [d \in FileDev |-> d + 1]
=============================================================================

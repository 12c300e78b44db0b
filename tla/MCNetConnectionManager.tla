----------------------- MODULE MCNetConnectionManager -----------------------
EXTENDS NetConnectionManager, TLC

CONSTANTS c1, c2, bridge

MCClients == {c1, c2, bridge}

\* The clients other than the bridge are interchangeable.
ClientSymmetry == Permutations({c1, c2})
=============================================================================

---------------------------- MODULE MCNetServer ----------------------------
EXTENDS NetServer

CONSTANTS c1, bridge

MCClients == {c1, bridge}
============================================================================

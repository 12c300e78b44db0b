---------------------------- MODULE MCHttpServer ----------------------------
EXTENDS HttpServer

CONSTANTS served, unknown, r1, r2, k1, k2, k3

MCPaths == {served, unknown}
MCRegistered == {served}
MCRequests == {r1, r2}
MCConnections == {k1, k2, k3}
=============================================================================

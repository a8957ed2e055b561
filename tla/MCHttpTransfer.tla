--------------------------- MODULE MCHttpTransfer ---------------------------
EXTENDS HttpTransfer

AllServers == Server
=============================================================================

--------------------------- MODULE MC_ChatterLive ---------------------------
EXTENDS ChatterLive
CONSTANTS client, server
MCNode == {client, server}
MCConnectors == {client}
=============================================================================

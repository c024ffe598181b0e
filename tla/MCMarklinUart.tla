--------------------------- MODULE MCMarklinUart ----------------------------
EXTENDS MarklinUart

mcClients == {5, 6}
=============================================================================

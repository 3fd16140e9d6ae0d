--------------------------- MODULE MCTcpTransport ---------------------------
EXTENDS TcpTransport, TLC

CONSTANTS s1, s2

MCSenders1 == {s1}
MCSenders2 == {s1, s2}

==============================================================================

------------------------- MODULE MCRegistrarClient -------------------------
EXTENDS RegistrarClient, TLC

CONSTANTS h1, h2, h3, i1, i2

MCHandles == {h1, h2, h3}
MCIds == {i1, i2}

\* bus payloads: a single create, and a remove followed by a flush
MCBusShapes == {<<"create">>, <<"remove", "flush">>}

==============================================================================

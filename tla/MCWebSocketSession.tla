------------------------- MODULE MCWebSocketSession -------------------------
EXTENDS WebSocketSession

CONSTANTS c1, c2

TwoConns == {c1, c2}
\* Connections are alike: the first prompt may as well come from c1.
FirstFromC1 == <<{c1}, {c1, c2}>>
=============================================================================

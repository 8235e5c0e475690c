----------------------------- MODULE MCEdgeTurn -----------------------------
EXTENDS EdgeTurn

CONSTANTS s1, s2, c1, c2, c3

MCSessions == {s1, s2}
MCClients == {c1, c2, c3}

====

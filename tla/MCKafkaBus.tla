----------------------------- MODULE MCKafkaBus -----------------------------
EXTENDS KafkaBus

CONSTANTS s1, s2, a1, a2, none

MCSenders == {s1, s2}
MCAddrs == {a1, a2}
=============================================================================

--------------------------- MODULE MCGamPollEngine ---------------------------
EXTENDS GamPollEngine

CONSTANTS s1, s2, d1, d2

MCSubs0 == {}
MCSubs1 == {s1}
MCSubs2 == {s1, s2}
MCDSubs1 == {d1}
MCDSubs2 == {d1, d2}
====

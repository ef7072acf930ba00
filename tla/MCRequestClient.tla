-------------------------- MODULE MCRequestClient ---------------------------
(* Two provider instances and two addresses for one observed name.        *)
EXTENDS RequestClient, TLC

CONSTANTS s1, s2, n1, a1, a2

MCGuids == {s1, s2}
MCNames == {n1}
MCAddrs == {a1, a2}
=============================================================================

------------------------------ MODULE MCClient ------------------------------
(* Two provider instances, two addresses and two Clients of one name.      *)
EXTENDS Client

CONSTANTS s1, s2, n1, a1, a2, k1, k2

MCGuids == {s1, s2}
MCNames == {n1}
MCAddrs == {a1, a2}
MCClients == {k1, k2}

=============================================================================

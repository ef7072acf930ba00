------------------------- MODULE MCRpcRequestClient -------------------------
(***************************************************************************)
(* One RpcRequestClient.execute() against two provider instances of its    *)
(* topic, which may bind two addresses.                                    *)
(***************************************************************************)
EXTENDS RpcRequestClient

CONSTANTS s1, s2, n1, a1, a2

MCGuids == {s1, s2}
MCNames == {n1}
MCAddrs == {a1, a2}

=============================================================================

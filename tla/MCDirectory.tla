---------------------------- MODULE MCDirectory -----------------------------
(* Two processes: p1 observes the topic n1 that p2 serves; peer x1 of     *)
(* another implementation may serve it too.                               *)
EXTENDS Directory, TLC

CONSTANTS p1, p2, x1, n1, a1

MCProcs == {p1, p2}
MCNames == {n1}
MCAddrs == {a1}
MCServes == (p1 :> {} @@ p2 :> {n1})
MCWants == (p1 :> {n1} @@ p2 :> {})
MCCrashable == {p2}
MCNoCrash == {}
MCPeers == {x1}
MCNoPeers == {}
MCPeerServes == (x1 :> {n1})
MCNoPeerServes == [x \in {} |-> {}]
MCGuids == MCProcs \cup MCPeers
MCObserverOnly == {p1}
MCPeerGuids == {p1, x1}
MCObserverServes == (p1 :> {})
MCObserverWants == (p1 :> {n1})
MCServerObserverServes == (p1 :> {n1})

=============================================================================

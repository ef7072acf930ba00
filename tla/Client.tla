------------------------------- MODULE Client -------------------------------
(***************************************************************************)
(* The Clients of one process (dispatch.py, class Client, lines 346-428:   *)
(* Subscriber and PubClient without on_connect/on_disconnect hooks)        *)
(* observing one topic name through the process's Directory, with the     *)
(* providers of the name coming and going as in module RequestClient.     *)
(*                                                                         *)
(* A Client keeps self.addresses, the address list of the guid map it saw  *)
(* last, and reconciles its zmq socket with every new map.  The observers  *)
(* of a name are called in registration order (TopicMap.call_observers,    *)
(* lines 1024-1027); an exception in one of them unwinds the loop and the  *)
(* datagram handler, so the observers after it are not called.  A zmq     *)
(* operation on a closed socket raises.                                    *)
(***************************************************************************)
EXTENDS TopicMap, Sequences

CONSTANTS
    Name,       \* the topic name the Clients observe
    None,       \* model value: no address
    Clients     \* the Client objects the application may create

ASSUME Name \in Names

VARIABLES
    serving, msgs, net, clock,  \* the providers and the Directory's map
    queue,      \* closures posted to the loop, [op, c], oldest first
    obs,        \* observers[Name]: the registered handlers, in dict order
    phase,      \* phase[c]: "none" (not built), "open", "closed"
    ref,        \* ref[c]: self.observer_ref is "set" or "unset" (no attribute)
    addrs,      \* addrs[c]: self.addresses as a bag (address -> occurrences)
    conns       \* conns[c]: the addresses c's zmq socket is connected to

provVars == <<serving, msgs, net, clock>>
cliVars == <<queue, obs, phase, ref, addrs, conns>>
vars == <<provVars, cliVars>>

AddressBags == [Addrs -> 0..Cardinality(Guids)]
NoAddresses == [a \in Addrs |-> 0]

TypeOK ==
    /\ serving \in [Guids -> Addrs \cup {None}]
    /\ \A n \in Names, g \in Guids : net[n][g] \in Keyed(n, g)
    /\ queue \in Seq([op : {"observe", "unobserve"}, c : Clients])
    /\ obs \in Seq(Clients)
    /\ phase \in [Clients -> {"none", "open", "closed"}]
    /\ ref \in [Clients -> {"set", "unset"}]
    /\ addrs \in [Clients -> AddressBags]
    /\ conns \in [Clients -> SUBSET Addrs]

Init ==
    /\ serving = [g \in Guids |-> None]
    /\ msgs = {}
    /\ net = [n \in Names |-> NoEntry]
    /\ clock = 0
    /\ queue = <<>>
    /\ obs = <<>>
    /\ phase = [c \in Clients |-> "none"]
    /\ ref = [c \in Clients |-> "unset"]
    /\ addrs = [c \in Clients |-> NoAddresses]
    /\ conns = [c \in Clients |-> {}]

-----------------------------------------------------------------------------
(***************************************************************************)
(* topic_map_updated, lines 370-378, with connect and disconnect (sync,    *)
(* lines 396-425) on the client's socket.                                   *)
(***************************************************************************)

(* new_addresses: one entry per guid of the map.                            *)
NewAddresses(gm) ==
    [a \in Addrs |-> Cardinality({g \in Guids : gm[g] # NoTopic /\ gm[g].address = a})]

(* The first loop connects every address of the map not in self.addresses *)
(* (once per occurrence; a second connect to an endpoint adds nothing).    *)
ToConnect(b, gm) == {a \in Addrs : NewAddresses(gm)[a] > 0 /\ b[a] = 0}

(* The second loop disconnects every address of self.addresses not in the *)
(* map, once per occurrence.                                               *)
ToDrop(b, gm) == {a \in Addrs : b[a] > 0 /\ NewAddresses(gm)[a] = 0}

(* What one call of c's handler can leave: whether it raised, c's          *)
(* addresses and its connections.  On a closed socket the first connect or *)
(* disconnect raises and nothing changes.  On an open socket a disconnect  *)
(* of an endpoint that is not connected raises ENOENT; the disconnects     *)
(* done before it (in list order, which the bag forgets) stay done.  Only  *)
(* a call that ends normally assigns self.addresses.                        *)
Handled(c, gm, A, C) ==
    LET conn == ToConnect(A[c], gm)
        drop == ToDrop(A[c], gm)
        up   == C[c] \cup conn
        bad  == {a \in drop : a \notin up \/ A[c][a] > 1}
    IN  IF phase[c] = "closed"
        THEN IF conn \cup drop = {}
             THEN {[raised |-> FALSE, addrs |-> NewAddresses(gm), conns |-> C[c]]}
             ELSE {[raised |-> TRUE, addrs |-> A[c], conns |-> C[c]]}
        ELSE IF bad = {}
             THEN {[raised |-> FALSE, addrs |-> NewAddresses(gm), conns |-> up \ drop]}
             ELSE {[raised |-> TRUE, addrs |-> A[c], conns |-> up \ d] : d \in SUBSET drop}

(* TopicMap.call_observers, lines 1024-1027: the handlers in s are called  *)
(* in order until one raises.  The result is the set of possible           *)
(* <<addresses, connections>> of all clients afterwards.                   *)
RECURSIVE Notified(_, _, _, _)
Notified(s, gm, A, C) ==
    IF s = <<>> THEN {<<A, C>>}
    ELSE LET c == Head(s)
         IN  UNION {LET A2 == [A EXCEPT ![c] = o.addrs]
                        C2 == [C EXCEPT ![c] = o.conns]
                    IN  IF o.raised THEN {<<A2, C2>>} ELSE Notified(Tail(s), gm, A2, C2)
                    : o \in Handled(c, gm, A, C)}

(* The observers of the name run on the new map gm.                        *)
Notify(gm) ==
    \E r \in Notified(obs, gm, addrs, conns) :
        /\ addrs' = r[1]
        /\ conns' = r[2]

-----------------------------------------------------------------------------
(***************************************************************************)
(* The application's thread.                                               *)
(***************************************************************************)

(* Client.__init__ (lines 357-368): no addresses; observe_topic posts       *)
(* _observe_topic (lines 380-384).                                          *)
Create(c) ==
    /\ phase[c] = "none"
    /\ phase' = [phase EXCEPT ![c] = "open"]
    /\ queue' = Append(queue, [op |-> "observe", c |-> c])
    /\ UNCHANGED <<provVars, obs, ref, addrs, conns>>

(* Client.close (lines 392-394): unobserve_topic posts _unobserve_topic    *)
(* (lines 386-390), then Socket.closeSocket (lines 296-297) closes the zmq *)
(* socket and with it every connection.                                    *)
Close(c) ==
    /\ phase[c] = "open"
    /\ phase' = [phase EXCEPT ![c] = "closed"]
    /\ queue' = Append(queue, [op |-> "unobserve", c |-> c])
    /\ conns' = [conns EXCEPT ![c] = {}]
    /\ UNCHANGED <<provVars, obs, ref, addrs>>

-----------------------------------------------------------------------------
(***************************************************************************)
(* The loop.                                                               *)
(***************************************************************************)

(* _observe_topic: Directory.observe (lines 1089-1092) -> TopicMap.observe *)
(* (lines 1012-1022) registers the handler, then calls it on the known    *)
(* map.  If the handler raises, observe never returns, and observer_ref is *)
(* never assigned.                                                          *)
RunObserve ==
    LET c == Head(queue).c
    IN  /\ queue # <<>>
        /\ Head(queue).op = "observe"
        /\ queue' = Tail(queue)
        /\ obs' = Append(obs, c)
        /\ IF Known(net, Name)
           THEN \E o \in Handled(c, net[Name], addrs, conns) :
                    /\ addrs' = [addrs EXCEPT ![c] = o.addrs]
                    /\ conns' = [conns EXCEPT ![c] = o.conns]
                    /\ ref' = IF o.raised THEN ref ELSE [ref EXCEPT ![c] = "set"]
           ELSE /\ ref' = [ref EXCEPT ![c] = "set"]
                /\ UNCHANGED <<addrs, conns>>
        /\ UNCHANGED <<provVars, phase>>

(* _unobserve_topic: "if self.observer_ref" raises AttributeError when the *)
(* attribute was never assigned, and the handler stays registered;         *)
(* otherwise TopicMap.unobserve (lines 1029-1032) deletes it.              *)
RunUnobserve ==
    LET c == Head(queue).c
    IN  /\ queue # <<>>
        /\ Head(queue).op = "unobserve"
        /\ queue' = Tail(queue)
        /\ obs' = IF ref[c] = "set" THEN SelectSeq(obs, LAMBDA x : x # c) ELSE obs
        /\ UNCHANGED <<provVars, phase, ref, addrs, conns>>

(* discovery_available -> TopicMap.add (lines 961-983): the entry is       *)
(* stored, then the observers are called when the map changed.             *)
ReceiveAnnounce(m) ==
    LET t == [name |-> Name, guid |-> m.guid, address |-> m.address,
              timestamp |-> clock + 1]
    IN  /\ m \in msgs
        /\ m.ev = "A"
        /\ clock < MaxTs
        /\ msgs' = msgs \ {m}
        /\ clock' = clock + 1
        /\ net' = NetAdd(net, t)
        /\ IF AddChanges(net, t) THEN Notify(net'[Name]) ELSE UNCHANGED <<addrs, conns>>
        /\ UNCHANGED <<serving, queue, obs, phase, ref>>

(* discovery_remove -> TopicMap.remove (lines 985-1000): the entry is      *)
(* deleted, then the observers are called.  (An observer that raises also  *)
(* skips the pruning of an emptied dict, which no Client can tell from a   *)
(* pruned one.)                                                             *)
ReceiveRemove(m) ==
    /\ m \in msgs
    /\ m.ev = "R"
    /\ msgs' = msgs \ {m}
    /\ net' = NetRemove(net, m.guid, Name)
    /\ IF RemoveNotifies(net, m.guid, Name) # {}
       THEN Notify(net'[Name]) ELSE UNCHANGED <<addrs, conns>>
    /\ UNCHANGED <<serving, clock, queue, obs, phase, ref>>

(***************************************************************************)
(* The providers, as in RequestClient: a Server binds and announces,      *)
(* answers searches, closes with an "R", or its process dies.              *)
(***************************************************************************)
ServerStart(g, a) ==
    /\ serving[g] = None
    /\ serving' = [serving EXCEPT ![g] = a]
    /\ msgs' = msgs \cup {[ev |-> "A", guid |-> g, address |-> a]}
    /\ UNCHANGED <<net, clock>>

ServerAnswer(g) ==
    /\ serving[g] # None
    /\ msgs' = msgs \cup {[ev |-> "A", guid |-> g, address |-> serving[g]]}
    /\ UNCHANGED <<serving, net, clock>>

ServerStop(g) ==
    /\ serving[g] # None
    /\ serving' = [serving EXCEPT ![g] = None]
    /\ msgs' = msgs \cup {[ev |-> "R", guid |-> g, address |-> None]}
    /\ UNCHANGED <<net, clock>>

ServerCrash(g) ==
    /\ serving[g] # None
    /\ serving' = [serving EXCEPT ![g] = None]
    /\ UNCHANGED <<msgs, net, clock>>

Provider ==
    \/ \E g \in Guids, a \in Addrs : ServerStart(g, a)
    \/ \E g \in Guids : ServerAnswer(g) \/ ServerStop(g) \/ ServerCrash(g)

Next ==
    \/ Provider /\ UNCHANGED cliVars
    \/ \E c \in Clients : Create(c) \/ Close(c)
    \/ RunObserve
    \/ RunUnobserve
    \/ \E m \in msgs : ReceiveAnnounce(m) \/ ReceiveRemove(m)

Spec == Init /\ [][Next]_vars

-----------------------------------------------------------------------------
(***************************************************************************)
(* Properties.                                                             *)
(***************************************************************************)

(* The addresses the map lists.                                            *)
Listed == {a \in Addrs : NewAddresses(net[Name])[a] > 0}

(* Every open Client whose _observe_topic has run is connected to exactly  *)
(* the addresses the Directory lists for its name (spec 4.3: the Client    *)
(* "reconciles its live connection set on every topology change"), also   *)
(* when another Client of the same name was closed early (spec 7: closing *)
(* must guard already-queued closures against use-after-close).           *)
Reconciled ==
    \A c \in Clients :
        (phase[c] = "open" /\ ref[c] = "set") => conns[c] = Listed

=============================================================================

---------------------------- MODULE RequestClient ----------------------------
(***************************************************************************)
(* A RequestClient (dispatch.py, class RequestClient) observing one topic  *)
(* name through its process's Directory, with the providers of that name   *)
(* starting, stopping and crashing around it.                              *)
(*                                                                         *)
(* Everything the client does runs on the Directory's event loop except    *)
(* close(), which the application calls from its own thread.  The loop     *)
(* handles datagrams in any order (UDP) and runs the closures posted with  *)
(* add_callback in FIFO order.  TopicMap.add/remove call the client's      *)
(* topic_map_updated synchronously, inside the datagram's handler.         *)
(*                                                                         *)
(* The client's reaction to a new guid map is given by pure operators      *)
(* (Decision, ConnectedAfter, StreamAfter, StreamsAfter), which            *)
(* RpcRequestClient reuses for the RequestClient it owns.                  *)
(***************************************************************************)
EXTENDS TopicMap, Sequences

CONSTANTS
    Name,       \* the topic name the client observes
    None        \* model value: no stream, no address

ASSUME Name \in Names

VARIABLES
    serving,    \* serving[g]: the address provider instance g binds, or None
    msgs,       \* "A" and "R" datagrams of the providers on their way
    net,        \* the Directory's TopicMap.network_topics
    clock,      \* time.time() ticks used so far (one per Topic created)
    queue,      \* closures this client posted to the loop, oldest first
    observing,  \* the client's handler is registered in TopicMap.observers
    connected,  \* RequestClient.connected_topic
    stream,     \* the address RequestClient.stream's socket connects to, or None
    streams,    \* ZMQStreams the client created and has not closed
    closed      \* close() has been called

rcVars == <<connected, stream, streams>>
vars == <<serving, msgs, net, clock, queue, observing, connected, stream, streams,
          closed>>

(* The topics in a guid map.                                               *)
Entries(gm) == {gm[g] : g \in {h \in Guids : gm[h] # NoTopic}}

(* _newest_topic_in_topic_map, lines 1247-1254: the entry with the largest *)
(* timestamp.  Timestamps here are distinct (one clock tick per Topic), so *)
(* the first maximum of the dict's order is the maximum.                   *)
Newest(gm) == CHOOSE t \in Entries(gm) : \A u \in Entries(gm) : u.timestamp <= t.timestamp

(* topic_map_updated, lines 616-630: what the client does with a guid map. *)
Decision(gm, c) ==
    IF Entries(gm) = {} THEN "disconnect"
    ELSE IF \/ c = NoTopic
            \/ /\ Newest(gm).address # c.address
               /\ Newest(gm).timestamp > c.timestamp
         THEN "connect"
         ELSE "stay"

(* An empty map makes topic_map_updated post _disconnect (line 620:       *)
(* disconnect() without sync).  A connect runs _connect at once (sync),    *)
(* whose disconnect(sync=True) (line 635) acts when connected: _disconnect *)
(* (lines 659-664) clears connected_topic and calls close_stream, which    *)
(* calls on_disconnect.                                                     *)
Disconnects(gm, c) == Decision(gm, c) = "connect" /\ c # NoTopic

(* connected_topic after the update (line 636).                            *)
ConnectedAfter(gm, c) == IF Decision(gm, c) = "connect" THEN Newest(gm) ELSE c

(* The closures the update posts.                                          *)
PostedAfter(gm, c) == IF Decision(gm, c) = "disconnect" THEN <<"disconnect">> ELSE <<>>

(* Fault variant: close_stream counts a close even when there is no stream. *)
CloseStreamAlways(s, k) == <<None, k - 1>>

(* close_stream, lines 714-720: the stream is closed and dropped.           *)
CloseStream(s, k) == <<None, IF s # None THEN k - 1 ELSE k>>

(* RequestClient.stream and the open-stream count after the update:        *)
(* _connect (lines 632-650) closes the old stream through disconnect and   *)
(* opens a ZMQStream on a new REQ socket connected to the topic's address. *)
StreamAfter(gm, c, s) == IF Decision(gm, c) = "connect" THEN Newest(gm).address ELSE s

(* Fault variant: _connect opens the new stream without disconnecting.     *)
StreamsAfterLeak(gm, c, s, k) == IF Decision(gm, c) = "connect" THEN k + 1 ELSE k

StreamsAfter(gm, c, s, k) ==
    LET closedOne == IF Disconnects(gm, c) THEN CloseStream(s, k)[2] ELSE k
    IN  IF Decision(gm, c) = "connect" THEN closedOne + 1 ELSE closedOne

(* The client's handler runs on the guid map gm; q is the loop's queue of  *)
(* this client's closures when it is called.                               *)
Updated(gm, q) ==
    /\ connected' = ConnectedAfter(gm, connected)
    /\ stream' = StreamAfter(gm, connected, stream)
    /\ streams' = StreamsAfter(gm, connected, stream, streams)
    /\ queue' = q \o PostedAfter(gm, connected)

TypeOK ==
    /\ serving \in [Guids -> Addrs \cup {None}]
    /\ msgs \subseteq [ev : {"A", "R"}, guid : Guids, address : Addrs \cup {None}]
    /\ \A n \in Names, g \in Guids : net[n][g] \in Keyed(n, g)
    /\ clock \in 0..MaxTs
    /\ queue \in Seq({"observe", "unobserve", "disconnect"})
    /\ observing \in BOOLEAN
    /\ connected \in {t \in Topics : t.name = Name} \cup {NoTopic}
    /\ stream \in Addrs \cup {None}
    /\ streams \in Nat
    /\ closed \in BOOLEAN

(* RequestClient.__init__ (lines 577-586) posts _observe_topic.            *)
Init ==
    /\ serving = [g \in Guids |-> None]
    /\ msgs = {}
    /\ net = [n \in Names |-> NoEntry]
    /\ clock = 0
    /\ queue = <<"observe">>
    /\ observing = FALSE
    /\ connected = NoTopic
    /\ stream = None
    /\ streams = 0
    /\ closed = FALSE

-----------------------------------------------------------------------------
(***************************************************************************)
(* The providers: a Server binds and announces, answers searches, closes   *)
(* with an "R", or its process dies without one.  A provider instance is a *)
(* guid; its process may bind the name again later, at any address.        *)
(***************************************************************************)
ServerStart(g, a) ==
    /\ serving[g] = None
    /\ serving' = [serving EXCEPT ![g] = a]
    /\ msgs' = msgs \cup {[ev |-> "A", guid |-> g, address |-> a]}
    /\ UNCHANGED <<net, clock, queue, observing, rcVars, closed>>

ServerAnswer(g) ==
    /\ serving[g] # None
    /\ msgs' = msgs \cup {[ev |-> "A", guid |-> g, address |-> serving[g]]}
    /\ UNCHANGED <<serving, net, clock, queue, observing, rcVars, closed>>

ServerStop(g) ==
    /\ serving[g] # None
    /\ serving' = [serving EXCEPT ![g] = None]
    /\ msgs' = msgs \cup {[ev |-> "R", guid |-> g, address |-> None]}
    /\ UNCHANGED <<net, clock, queue, observing, rcVars, closed>>

ServerCrash(g) ==
    /\ serving[g] # None
    /\ serving' = [serving EXCEPT ![g] = None]
    /\ UNCHANGED <<msgs, net, clock, queue, observing, rcVars, closed>>

-----------------------------------------------------------------------------
(***************************************************************************)
(* The loop.                                                               *)
(***************************************************************************)

(* discovery_available (lines 1160-1180) makes a Topic stamped with the    *)
(* receiver's time.time() and merges it with TopicMap.add (lines 970-981), *)
(* which calls the client when the map changed and the client observes.    *)
ReceiveAnnounce(m) ==
    LET t == [name |-> Name, guid |-> m.guid, address |-> m.address,
              timestamp |-> clock + 1]
    IN  /\ m \in msgs
        /\ m.ev = "A"
        /\ clock < MaxTs
        /\ msgs' = msgs \ {m}
        /\ clock' = clock + 1
        /\ net' = NetAdd(net, t)
        /\ IF AddChanges(net, t) /\ observing
           THEN Updated(net'[Name], queue)
           ELSE UNCHANGED <<queue, rcVars>>
        /\ UNCHANGED <<serving, observing, closed>>

(* discovery_remove (lines 1182-1184): TopicMap.remove (lines 985-1000)    *)
(* calls the client when the guid had an entry.                            *)
ReceiveRemove(m) ==
    /\ m \in msgs
    /\ m.ev = "R"
    /\ msgs' = msgs \ {m}
    /\ net' = NetRemove(net, m.guid, Name)
    /\ IF RemoveNotifies(net, m.guid, Name) # {} /\ observing
       THEN Updated(net'[Name], queue)
       ELSE UNCHANGED <<queue, rcVars>>
    /\ UNCHANGED <<serving, clock, observing, closed>>

(* _observe_topic (lines 604-608): TopicMap.observe (lines 1012-1022)       *)
(* registers the handler and calls it at once when the name is known.      *)
RunObserve ==
    /\ queue # <<>>
    /\ Head(queue) = "observe"
    /\ observing' = TRUE
    /\ IF Known(net, Name)
       THEN Updated(net[Name], Tail(queue))
       ELSE queue' = Tail(queue) /\ UNCHANGED rcVars
    /\ UNCHANGED <<serving, msgs, net, clock, closed>>

(* _unobserve_topic (lines 610-614): TopicMap.unobserve.                    *)
RunUnobserve ==
    /\ queue # <<>>
    /\ Head(queue) = "unobserve"
    /\ queue' = Tail(queue)
    /\ observing' = FALSE
    /\ UNCHANGED <<serving, msgs, net, clock, rcVars, closed>>

(* _disconnect (lines 659-664), posted by an empty map: it acts on the     *)
(* connection the client has when it runs, whichever that is.             *)
RunDisconnect ==
    /\ queue # <<>>
    /\ Head(queue) = "disconnect"
    /\ queue' = Tail(queue)
    /\ connected' = NoTopic
    /\ IF connected # NoTopic
       THEN /\ stream' = CloseStream(stream, streams)[1]
            /\ streams' = CloseStream(stream, streams)[2]
       ELSE UNCHANGED <<stream, streams>>
    /\ UNCHANGED <<serving, msgs, net, clock, observing, closed>>

(* close(), lines 722-724, on the application's thread: _unobserve_topic   *)
(* is posted and close_stream runs at once; connected_topic is kept.       *)
Close ==
    /\ ~closed
    /\ closed' = TRUE
    /\ queue' = Append(queue, "unobserve")
    /\ stream' = CloseStream(stream, streams)[1]
    /\ streams' = CloseStream(stream, streams)[2]
    /\ UNCHANGED <<serving, msgs, net, clock, observing, connected>>

Next ==
    \/ \E g \in Guids, a \in Addrs : ServerStart(g, a)
    \/ \E g \in Guids : ServerAnswer(g) \/ ServerStop(g) \/ ServerCrash(g)
    \/ \E m \in msgs : ReceiveAnnounce(m)
    \/ \E m \in msgs : ReceiveRemove(m)
    \/ RunObserve
    \/ RunUnobserve
    \/ RunDisconnect
    \/ Close

Spec == Init /\ [][Next]_vars

-----------------------------------------------------------------------------
(***************************************************************************)
(* Properties.                                                             *)
(***************************************************************************)

(* Until it is closed, the client holds exactly the one ZMQStream of the    *)
(* topic it is connected to: every reconnect closes the previous stream    *)
(* before opening the next, and a disconnect leaves none.                  *)
StreamTracksConnection ==
    ~closed =>
        /\ stream = IF connected = NoTopic THEN None ELSE connected.address
        /\ streams = IF stream = None THEN 0 ELSE 1

(* An open client whose posted closures have all run is connected whenever *)
(* its Directory lists a provider of the name: the _disconnect an empty    *)
(* map posted must not drop a connection made after it was posted.         *)
ConnectedWhileProvided ==
    (observing /\ ~closed /\ queue = <<>> /\ Known(net, Name)) => connected # NoTopic

(* Once close() and the closures it posted have run, the client holds no   *)
(* stream (spec 7: closing a RequestClient must guard already-queued       *)
(* closures against use-after-close).                                      *)
ClosedReleases ==
    (closed /\ queue = <<>>) => streams = 0

=============================================================================

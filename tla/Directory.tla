------------------------------ MODULE Directory -----------------------------
(***************************************************************************)
(* The multicast discovery protocol (dispatch.py, class Directory) run by *)
(* several processes at once, each with its own TopicMap, event loop,      *)
(* search timer and multicast socket (Node.run/stop drive the loop).       *)
(*                                                                         *)
(* Every process is a guid in Procs: a restarted program is a new guid     *)
(* (my_guid ends in a fresh uuid1, line 1055).  A process's event loop is  *)
(* the FIFO queue of closures posted with add_callback.  While it runs,    *)
(* the loop runs them in order, and timers and datagrams come in between   *)
(* any two of them (a superset of the orders of the real loop, which takes *)
(* its callbacks in batches).  Node.stop asks the loop to stop: the loop   *)
(* still runs the closures queued at that moment, _stop among them, and    *)
(* ends; a closure they post is never run.  That is how tornado's IOLoop   *)
(* stops (callbacks are collected at the start of an iteration, then "if   *)
(* not self._running: break"), and asyncio's run_forever likewise.        *)
(*                                                                         *)
(* The network is UDP multicast on one subnet with IP_MULTICAST_LOOP set   *)
(* (line 1081): a packet goes to every process, the sender included, may  *)
(* be lost (at most MaxLoss times) and arrives in any order.  A packet     *)
(* waits in the socket buffer until the receiver's handler is installed.  *)
(***************************************************************************)
EXTENDS TopicMap, Sequences, SequencesExt

CONSTANTS
    Procs,          \* guids of process instances
    Serves,         \* Serves[p]: the names process p may bind a Server for
    Wants,          \* Wants[p]: the names process p may open an observing socket for
    SeedInterval,   \* 0.1 s (line 1241), in tenths of a second
    IntervalMax,    \* broadcast_interval_max, 16 s (line 1064), in tenths
    InitInterval,   \* broadcast_interval as constructed, 1 s (line 1062), in tenths
    GroupingMax,    \* broadcast_grouping_max (line 1066)
    MaxRegs,        \* bound on Server registrations
    MaxLoss,        \* bound on lost packets
    MaxQueue,       \* bound on a loop's queue of posted closures
    Crashable,      \* the processes that may die without stopping
    Peers,          \* guids of other implementations of the protocol on the group
    PeerServes,     \* PeerServes[x]: the names peer x announces
    None            \* model value: an absent packet field

ASSUME /\ Procs \subseteq Guids
       /\ Serves \in [Procs -> SUBSET Names]
       /\ Wants \in [Procs -> SUBSET Names]
       /\ Crashable \subseteq Procs
       /\ Peers \subseteq Guids \ Procs
       /\ PeerServes \in [Peers -> SUBSET Names]
       \* every search fits one packet: at most GroupingMax names, and names
       \* are far shorter than the 1400-byte limit of line 1218
       /\ Cardinality(Names) <= GroupingMax

VARIABLES
    loop,       \* loop[p]: "new", "running", "last", "halted", "crashed"
    queue,      \* queue[p]: closures posted to p's loop, oldest first
    batch,      \* batch[p]: in the last iteration, how many closures at the
                \*   head of queue[p] it still runs
    handler,    \* handler[p]: onReceive is installed on the multicast socket
    local,      \* local[p]: p's TopicMap.local_topics
    net,        \* net[p]: p's TopicMap.network_topics
    observers,  \* observers[p]: p's TopicMap.observers (one handle per name)
    sockets,    \* sockets[p]: names p has an open observing socket for
    serving,    \* serving[p]: names p has an open Server for
    timer,      \* timer[p]: broadcast_timer is set
    interval,   \* interval[p]: broadcast_interval
    msgs,       \* packets in flight
    lost,       \* packets lost so far
    exitSent,   \* processes and peers whose "X" packet has left the socket
    regs,       \* Servers registered so far
    adding,     \* adding[p]: the TopicMap.add that p's application thread is in
    linear      \* linear[p]: network_topics as it would be had every add and
                \*   remove run whole at its last write (a history variable)

vars == <<loop, queue, batch, handler, local, net, observers, sockets, serving,
          timer, interval, msgs, lost, exitSent, regs, adding, linear>>

(* No Directory step reads a Topic's timestamp, so every Topic here has    *)
(* the same one.                                                            *)
Stamp == 1

(* The handle an observing socket holds (a uuid1 string in the code).      *)
Handle == "observer"

Events == {"A", "R", "X", "S"}

(* The closures the code posts with io_loop.add_callback.                  *)
Closures ==
    [op : {"addHandler", "stop", "poll", "observe", "unobserve"}, name : Names \cup {None}]
    \cup
    [op : {"send"}, ev : Events, name : Names \cup {None},
     address : Addrs \cup {None}, names : SUBSET Names]

Packets ==
    [from : Procs \cup Peers, to : Procs, ev : Events, name : Names \cup {None},
     address : Addrs \cup {None}, names : SUBSET Names]

Call(op, n) == [op |-> op, name |-> n]

(* Directory.send(command, args), line 1193: posts _send.                  *)
SendA(t) == [op |-> "send", ev |-> "A", name |-> t.name, address |-> t.address,
             names |-> {}]
SendR(n) == [op |-> "send", ev |-> "R", name |-> n, address |-> None, names |-> {}]
SendX    == [op |-> "send", ev |-> "X", name |-> None, address |-> None, names |-> {}]
SendS(ns) == [op |-> "send", ev |-> "S", name |-> None, address |-> None, names |-> ns]

(* The loop runs posted closures, timers and socket events.                *)
Idle(p) == loop[p] = "running"

(* The loop runs its head closure next.                                    *)
Runs(p, op) ==
    /\ \/ loop[p] = "running" /\ queue[p] # <<>>
       \/ loop[p] = "last" /\ batch[p] > 0
    /\ Head(queue[p]).op = op

(* The process's own queue after its head closure ran and posted cs.       *)
Done(p, cs) ==
    /\ queue' = [queue EXCEPT ![p] = Tail(@) \o cs]
    /\ batch' = [batch EXCEPT ![p] = IF loop[p] = "last" THEN @ - 1 ELSE @]

Post(p, cs) == queue' = [queue EXCEPT ![p] = @ \o cs]

Room(p, k) == Len(queue[p]) + k <= MaxQueue

(* TopicMap.add on the application's thread (Server.__init__ calls          *)
(* Directory.add there) reads "topic.name in self.network_topics" at line   *)
(* 970 and writes the guid map at lines 971-980, without a lock, while the  *)
(* loop runs handlers on the same dicts.  adding[p].dict records what the   *)
(* read found and what the loop did since:                                  *)
(*   "fresh":  no guid map; line 980 will assign a new one {guid: topic};   *)
(*   "raced":  no guid map, but the loop created one since; either write    *)
(*             may land last;                                               *)
(*   "shared": the guid map was fetched (line 971); line 974 inserts in it; *)
(*   "orphan": the loop deleted that guid map since (lines 997-998,         *)
(*             1007-1008), so line 974 writes into a dict nobody holds.     *)
(* TopicMap.remove on the same thread (Server.close) empties the guid map   *)
(* (line 995) and tests it (line 997) before "del" at line 998:             *)
(*   "emptied": the name has a guid map, which line 998 deletes;           *)
(*   "deleted": the loop pruned it since, so line 998 raises KeyError.     *)
(* sendR is removed_local, which decides the R of Directory.remove.        *)
NoAdd == [topic |-> NoTopic, dict |-> "none", sendR |-> FALSE]

AppFree(p) == adding[p] = NoAdd

(* A change of p's network_topics made whole by the loop: the registry     *)
(* becomes newNet, its history newLinear, and an add or remove in progress  *)
(* on the application's thread sees the change.  pruned is the name whose  *)
(* guid map TopicMap.remove deletes when empty (lines 997-998), or None.    *)
Change(p, newNet, newLinear, pruned) ==
    LET n == adding[p].topic.name
        gone == newNet[n] = NoEntry /\ (net[p][n] # NoEntry \/ pruned = n)
    IN  /\ net' = [net EXCEPT ![p] = newNet]
        /\ linear' = [linear EXCEPT ![p] = newLinear]
        /\ adding' =
             CASE adding[p].dict = "shared" /\ newNet[n] = NoEntry ->
                    [adding EXCEPT ![p].dict = "orphan"]
               [] adding[p].dict = "fresh" /\ newNet[n] # NoEntry ->
                    [adding EXCEPT ![p].dict = "raced"]
               [] adding[p].dict = "emptied" /\ gone ->
                    [adding EXCEPT ![p].dict = "deleted"]
               [] adding[p].dict = "deleted" /\ newNet[n] # NoEntry ->
                    [adding EXCEPT ![p].dict = "emptied"]
               [] OTHER -> adding

(* Directory.find_missing_topics, lines 1209-1234, with the interval it    *)
(* starts from: the sends it posts, and the timer and interval it leaves.  *)
SearchSends(p) ==
    IF Missing(observers[p], net[p]) = {} THEN <<>>
    ELSE <<SendS(Missing(observers[p], net[p]))>>

(* Fault variant: find_missing_topics never re-arms broadcast_timer.      *)
FindMissingTimerOff(p) == timer' = [timer EXCEPT ![p] = FALSE]

FindMissingTimer(p) ==
    timer' = [timer EXCEPT ![p] = Missing(observers[p], net[p]) # {}]

NextInterval(iv) == IF iv < IntervalMax THEN iv * 2 ELSE iv

FindMissingInterval(p, iv) ==
    interval' = [interval EXCEPT ![p] =
                    IF Missing(observers[p], net[p]) = {} THEN iv ELSE NextInterval(iv)]

-----------------------------------------------------------------------------
TypeOK ==
    /\ loop \in [Procs -> {"new", "running", "last", "halted", "crashed"}]
    /\ queue \in [Procs -> Seq(Closures)]
    /\ batch \in [Procs -> Nat]
    /\ handler \in [Procs -> BOOLEAN]
    /\ \A p \in Procs, n \in Names : local[p][n] \in Keyed(n, p)
    /\ \A p \in Procs, n \in Names, g \in Guids : net[p][n][g] \in Keyed(n, g)
    /\ \A p \in Procs : DOMAIN observers[p] \subseteq Names
    /\ sockets \in [Procs -> SUBSET Names]
    /\ serving \in [Procs -> SUBSET Names]
    /\ timer \in [Procs -> BOOLEAN]
    /\ interval \in [Procs -> Nat]
    /\ msgs \subseteq Packets
    /\ lost \in 0..MaxLoss
    /\ exitSent \subseteq Procs \cup Peers
    /\ regs \in 0..MaxRegs
    /\ \A p \in Procs : adding[p] = NoAdd \/ adding[p].dict \in {"fresh", "raced", "shared", "orphan", "emptied", "deleted"}

(* Directory.__init__ (lines 1049-1066, TopicMap.__init__ 955-959).         *)
Init ==
    /\ loop = [p \in Procs |-> "new"]
    /\ queue = [p \in Procs |-> <<>>]
    /\ batch = [p \in Procs |-> 0]
    /\ handler = [p \in Procs |-> FALSE]
    /\ local = [p \in Procs |-> [n \in Names |-> NoTopic]]
    /\ net = [p \in Procs |-> [n \in Names |-> NoEntry]]
    /\ observers = [p \in Procs |-> [n \in {} |-> {}]]
    /\ sockets = [p \in Procs |-> {}]
    /\ serving = [p \in Procs |-> {}]
    /\ timer = [p \in Procs |-> FALSE]
    /\ interval = [p \in Procs |-> InitInterval]
    /\ msgs = {}
    /\ lost = 0
    /\ exitSent = {}
    /\ regs = 0
    /\ adding = [p \in Procs |-> NoAdd]
    /\ linear = [p \in Procs |-> [n \in Names |-> NoEntry]]

-----------------------------------------------------------------------------
(* Node.run (lines 218-223): Directory.run posts _add_handler, the loop     *)
(* starts.                                                                  *)
NodeRun(p) ==
    /\ loop[p] = "new"
    /\ loop' = [loop EXCEPT ![p] = "running"]
    /\ Post(p, <<Call("addHandler", None)>>)
    /\ UNCHANGED <<batch, handler, local, net, adding, linear, observers, sockets, serving, timer,
                   interval, msgs, lost, exitSent, regs>>

(* Node.stop (lines 262-268): Directory.stop (lines 1116-1120) posts       *)
(* _stop, then io_loop.stop(): the closures queued so far, _stop last, are *)
(* the loop's final batch.                                                  *)
NodeStop(p) ==
    /\ AppFree(p)
    /\ loop[p] = "running"
    /\ Room(p, 1)
    /\ loop' = [loop EXCEPT ![p] = "last"]
    /\ batch' = [batch EXCEPT ![p] = Len(queue[p]) + 1]
    /\ Post(p, <<Call("stop", None)>>)
    /\ UNCHANGED <<handler, local, net, adding, linear, observers, sockets, serving, timer,
                   interval, msgs, lost, exitSent, regs>>

(* The process dies without running anything more.                         *)
Crash(p) ==
    /\ p \in Crashable
    /\ loop[p] \in {"running", "last"}
    /\ loop' = [loop EXCEPT ![p] = "crashed"]
    /\ batch' = [batch EXCEPT ![p] = 0]
    /\ UNCHANGED <<queue, handler, local, net, adding, linear, observers, sockets, serving, timer,
                   interval, msgs, lost, exitSent, regs>>

(* A stopped loop returns from IOLoop.start after its last batch.          *)
Halt(p) ==
    /\ loop[p] = "last"
    /\ batch[p] = 0
    /\ loop' = [loop EXCEPT ![p] = "halted"]
    /\ UNCHANGED <<queue, batch, handler, local, net, adding, linear, observers, sockets, serving,
                   timer, interval, msgs, lost, exitSent, regs>>

-----------------------------------------------------------------------------
(***************************************************************************)
(* Calls made on the application's thread.                                 *)
(***************************************************************************)

(* Server.__init__ (lines 323-339) calls Directory.add (lines 1097-1101),  *)
(* whose TopicMap.add first stores the Topic in local_topics (lines        *)
(* 962-968; a name already there raises ValueError and changes nothing,    *)
(* the guard LocalFree), then reads whether the name has a guid map.       *)
RegisterBegin(p, n, a) ==
    LET t == [name |-> n, guid |-> p, address |-> a, timestamp |-> Stamp]
    IN  /\ loop[p] \in {"new", "running"}
        /\ AppFree(p)
        /\ n \in Serves[p] \ serving[p]
        /\ regs < MaxRegs
        /\ LocalFree(p, local[p], t)
        /\ local' = [local EXCEPT ![p] = LocalAdd(p, @, t)]
        /\ serving' = [serving EXCEPT ![p] = @ \cup {n}]
        /\ regs' = regs + 1
        /\ adding' = [adding EXCEPT ![p] =
                        [topic |-> t, sendR |-> FALSE,
                         dict |-> IF net[p][n] = NoEntry THEN "fresh"
                                                ELSE "shared"]]
        /\ UNCHANGED <<loop, queue, batch, handler, net, linear, observers, sockets,
                       timer, interval, msgs, lost, exitSent>>

(* The rest of TopicMap.add (lines 971-983) writes the guid map, and       *)
(* Directory.add posts the "A" line of the local topic.                    *)
RegisterEnd(p) ==
    LET t == adding[p].topic
        n == t.name
        own == [g \in Guids |-> IF g = p THEN t ELSE NoTopic]
    IN  /\ adding[p].dict \in {"fresh", "raced", "shared", "orphan"}
        /\ Room(p, 1)
        /\ \/ adding[p].dict \in {"fresh", "raced"}
              /\ net' = [net EXCEPT ![p][n] = own]
           \/ adding[p].dict = "raced"
              /\ UNCHANGED net
           \/ adding[p].dict = "shared"
              /\ net' = [net EXCEPT ![p] = NetAdd(@, t)]
           \/ adding[p].dict = "orphan"
              /\ UNCHANGED net
        /\ linear' = [linear EXCEPT ![p] = NetAdd(@, t)]
        /\ adding' = [adding EXCEPT ![p] = NoAdd]
        /\ Post(p, <<SendA(t)>>)
        /\ UNCHANGED <<loop, batch, handler, local, observers, sockets, serving, timer,
                       interval, msgs, lost, exitSent, regs>>

(* Server.close (lines 341-343) on the application's thread: TopicMap.     *)
(* remove (lines 985-997) drops the local topic and the process's own       *)
(* entry, and tests whether the guid map is now empty.  If it is not, the   *)
(* remove is over and Directory.remove (lines 1106-1109) posts an "R" line  *)
(* when a local topic went; if it is, "del" (line 998) is a step apart.     *)
CloseServer(p, n) ==
    LET emptied == net[p][n] # NoEntry /\ NetRemove(net[p], p, n)[n] = NoEntry
        sendR == RemovedLocal(p, local[p], p, n)
    IN  /\ AppFree(p)
        /\ n \in serving[p]
        /\ Room(p, 1)
        /\ local' = [local EXCEPT ![p] = LocalRemove(p, @, p, n)]
        /\ net' = [net EXCEPT ![p] = NetRemove(@, p, n)]
        /\ serving' = [serving EXCEPT ![p] = @ \ {n}]
        /\ IF emptied
           THEN /\ adding' = [adding EXCEPT ![p] = [topic |-> net[p][n][p],
                                                    dict |-> "emptied", sendR |-> sendR]]
                /\ UNCHANGED <<linear, queue>>
           ELSE /\ linear' = [linear EXCEPT ![p] = NetRemove(@, p, n)]
                /\ Post(p, IF sendR THEN <<SendR(n)>> ELSE <<>>)
                /\ UNCHANGED adding
        /\ UNCHANGED <<loop, batch, handler, observers, sockets, timer, interval, msgs,
                       lost, exitSent, regs>>

(* Line 998, "del self.network_topics[topic_name]": it deletes whatever     *)
(* guid map the name has by now, and the R follows; if the loop deleted     *)
(* it, KeyError propagates out of Server.close, past the R and the          *)
(* closeSocket.                                                             *)
CloseEnd(p) ==
    LET n == adding[p].topic.name
    IN  /\ adding[p].dict \in {"emptied", "deleted"}
        /\ linear' = [linear EXCEPT ![p] = NetRemove(@, p, n)]
        /\ adding' = [adding EXCEPT ![p] = NoAdd]
        /\ \/ /\ adding[p].dict = "emptied"
              /\ Room(p, 1)
              /\ net' = [net EXCEPT ![p][n] = NoEntry]
              /\ Post(p, IF adding[p].sendR THEN <<SendR(n)>> ELSE <<>>)
           \/ /\ adding[p].dict = "deleted"
              /\ UNCHANGED <<net, queue>>
        /\ UNCHANGED <<loop, batch, handler, local, observers, sockets, serving, timer,
                       interval, msgs, lost, exitSent, regs>>

(* Constructing a Client or RequestClient posts _observe_topic (lines      *)
(* 380-384, 604-608).                                                       *)
OpenObserver(p, n) ==
    /\ AppFree(p)
    /\ loop[p] \in {"new", "running"}
    /\ n \in Wants[p] \ sockets[p]
    /\ Room(p, 1)
    /\ sockets' = [sockets EXCEPT ![p] = @ \cup {n}]
    /\ Post(p, <<Call("observe", n)>>)
    /\ UNCHANGED <<loop, batch, handler, local, net, adding, linear, observers, serving, timer,
                   interval, msgs, lost, exitSent, regs>>

(* Closing it posts _unobserve_topic (lines 386-390, 610-614).              *)
CloseObserver(p, n) ==
    /\ AppFree(p)
    /\ n \in sockets[p]
    /\ Room(p, 1)
    /\ sockets' = [sockets EXCEPT ![p] = @ \ {n}]
    /\ Post(p, <<Call("unobserve", n)>>)
    /\ UNCHANGED <<loop, batch, handler, local, net, adding, linear, observers, serving, timer,
                   interval, msgs, lost, exitSent, regs>>

-----------------------------------------------------------------------------
(***************************************************************************)
(* Closures run by the loop.                                               *)
(***************************************************************************)

(* Directory.run's _add_handler (lines 1112-1113).                          *)
RunAddHandler(p) ==
    /\ Runs(p, "addHandler")
    /\ handler' = [handler EXCEPT ![p] = TRUE]
    /\ Done(p, <<>>)
    /\ UNCHANGED <<loop, local, net, adding, linear, observers, sockets, serving, timer, interval,
                   msgs, lost, exitSent, regs>>

(* Directory.stop's _stop (lines 1117-1119): the handler goes and an "X"   *)
(* line is posted.                                                          *)
RunStop(p) ==
    /\ Runs(p, "stop")
    /\ handler' = [handler EXCEPT ![p] = FALSE]
    /\ Done(p, <<SendX>>)
    /\ UNCHANGED <<loop, local, net, adding, linear, observers, sockets, serving, timer, interval,
                   msgs, lost, exitSent, regs>>

(* Directory.send's _send (lines 1194-1199): one datagram to the group,    *)
(* which reaches every member, the sender included.                         *)
RunSend(p) ==
    LET c == Head(queue[p])
    IN  /\ Runs(p, "send")
        /\ msgs' = msgs \cup
                   {[from |-> p, to |-> q, ev |-> c.ev, name |-> c.name,
                     address |-> c.address, names |-> c.names] : q \in Procs}
        /\ exitSent' = IF c.ev = "X" THEN exitSent \cup {p} ELSE exitSent
        /\ Done(p, <<>>)
        /\ UNCHANGED <<loop, handler, local, net, adding, linear, observers, sockets, serving,
                       timer, interval, lost, regs>>

(* query_poll's _start_polling (lines 1238-1242): the pending timer is     *)
(* removed, the interval reset to the seed, and find_missing_topics runs.  *)
RunPoll(p) ==
    /\ Runs(p, "poll")
    /\ FindMissingTimer(p)
    /\ FindMissingInterval(p, SeedInterval)
    /\ Done(p, SearchSends(p))
    /\ UNCHANGED <<loop, handler, local, net, adding, linear, observers, sockets, serving, msgs,
                   lost, exitSent, regs>>

(* _observe_topic: Directory.observe (lines 1089-1092) registers the       *)
(* handle with TopicMap.observe and calls query_poll.                       *)
RunObserve(p) ==
    LET n == Head(queue[p]).name
    IN  /\ Runs(p, "observe")
        /\ observers' = [observers EXCEPT ![p] = ObsAdd(@, n, Handle)]
        /\ Done(p, <<Call("poll", None)>>)
        /\ UNCHANGED <<loop, handler, local, net, adding, linear, sockets, serving, timer, interval,
                       msgs, lost, exitSent, regs>>

(* _unobserve_topic: Directory.unobserve (lines 1094-1095).                 *)
RunUnobserve(p) ==
    LET n == Head(queue[p]).name
    IN  /\ Runs(p, "unobserve")
        /\ observers' = [observers EXCEPT ![p] = ObsRemove(@, n, Handle)]
        /\ Done(p, <<>>)
        /\ UNCHANGED <<loop, handler, local, net, adding, linear, sockets, serving, timer, interval,
                       msgs, lost, exitSent, regs>>

(* The broadcast timer fires find_missing_topics (line 1231).               *)
TimerFire(p) ==
    /\ timer[p]
    /\ Idle(p)
    /\ Room(p, 1)
    /\ FindMissingTimer(p)
    /\ FindMissingInterval(p, interval[p])
    /\ Post(p, SearchSends(p))
    /\ UNCHANGED <<loop, batch, handler, local, net, adding, linear, observers, sockets, serving,
                   msgs, lost, exitSent, regs>>

-----------------------------------------------------------------------------
(***************************************************************************)
(* Directory.onReceive (lines 1122-1153): one datagram read from the       *)
(* socket, between batches, while the handler is installed.                *)
(***************************************************************************)
Deliver(p, m) ==
    /\ m \in msgs
    /\ m.to = p
    /\ Idle(p)
    /\ handler[p]
    /\ msgs' = msgs \ {m}

(* "ignore loopbacks" (line 1138): only other processes' datagrams are     *)
(* handled.                                                                 *)
(* Fault variant: the loopback filter of line 1138 dropped.               *)
ForeignAll(p, m) == TRUE

Foreign(p, m) == m.from # p

ReceiveOwn(p, m) ==
    /\ Deliver(p, m)
    /\ ~Foreign(p, m)
    /\ UNCHANGED <<loop, queue, batch, handler, local, net, adding, linear, observers, sockets,
                   serving, timer, interval, lost, exitSent, regs>>

(* Fault variant: discovery_exiting purges the guid without query_poll.   *)
ReceiveExitNoPoll(p, m) ==
    /\ Deliver(p, m)
    /\ Foreign(p, m)
    /\ m.ev = "X"
    /\ Change(p, NetRemoveAll(net[p], m.from), NetRemoveAll(linear[p], m.from), None)
    /\ UNCHANGED <<loop, queue, batch, handler, local, observers, sockets, serving,
                   timer, interval, lost, exitSent, regs>>

(* "X": discovery_exiting (lines 1155-1158).                                *)
ReceiveExit(p, m) ==
    /\ Deliver(p, m)
    /\ Foreign(p, m)
    /\ m.ev = "X"
    /\ Room(p, 1)
    /\ Change(p, NetRemoveAll(net[p], m.from), NetRemoveAll(linear[p], m.from), None)
    /\ Post(p, <<Call("poll", None)>>)
    /\ UNCHANGED <<loop, batch, handler, local, observers, sockets, serving, timer,
                   interval, lost, exitSent, regs>>

(* "A": discovery_available (lines 1160-1180) makes a Topic and hands it   *)
(* to Directory.add (lines 1097-1101): TopicMap.add merges it, and a topic *)
(* it reports local is announced again.  A local name already registered  *)
(* raises ValueError inside the handler and changes nothing.  Every        *)
(* address is on the receiver's subnet here.                                *)
ReceiveAnnounce(p, m) ==
    LET t == [name |-> m.name, guid |-> m.from, address |-> m.address,
              timestamp |-> Stamp]
    IN  /\ Deliver(p, m)
        /\ Foreign(p, m)
        /\ m.ev = "A"
        /\ Room(p, IF t.guid = p THEN 1 ELSE 0)
        /\ IF LocalFree(p, local[p], t)
           THEN /\ local' = [local EXCEPT ![p] = LocalAdd(p, @, t)]
                /\ Change(p, NetAdd(net[p], t), NetAdd(linear[p], t), None)
                /\ Post(p, IF t.guid = p THEN <<SendA(t)>> ELSE <<>>)
           ELSE UNCHANGED <<local, net, adding, linear, queue>>
        /\ UNCHANGED <<loop, batch, handler, observers, sockets, serving, timer,
                       interval, lost, exitSent, regs>>

(* Fault variant: discovery_remove without the query_poll.               *)
ReceiveRemoveNoPoll(p, m) ==
    /\ Deliver(p, m)
    /\ Foreign(p, m)
    /\ m.ev = "R"
    /\ local' = [local EXCEPT ![p] = LocalRemove(p, @, m.from, m.name)]
    /\ Change(p, NetRemove(net[p], m.from, m.name), NetRemove(linear[p], m.from, m.name),
              m.name)
    /\ UNCHANGED <<loop, queue, batch, handler, observers, sockets, serving, timer,
                   interval, lost, exitSent, regs>>

(* "R": discovery_remove (lines 1182-1184): TopicMap.remove, then          *)
(* query_poll.                                                              *)
ReceiveRemove(p, m) ==
    /\ Deliver(p, m)
    /\ Foreign(p, m)
    /\ m.ev = "R"
    /\ Room(p, 1)
    /\ local' = [local EXCEPT ![p] = LocalRemove(p, @, m.from, m.name)]
    /\ Change(p, NetRemove(net[p], m.from, m.name), NetRemove(linear[p], m.from, m.name),
              m.name)
    /\ Post(p, <<Call("poll", None)>>)
    /\ UNCHANGED <<loop, batch, handler, observers, sockets, serving, timer,
                   interval, lost, exitSent, regs>>

(* "S": discovery_search (lines 1186-1191) posts an "A" line for every     *)
(* requested name this process serves.                                     *)
ReceiveSearch(p, m) ==
    LET found == {n \in m.names : local[p][n] # NoTopic}
    IN  /\ Deliver(p, m)
        /\ Foreign(p, m)
        /\ m.ev = "S"
        /\ Room(p, Cardinality(found))
        /\ Post(p, [i \in 1..Cardinality(found) |-> SendA(local[p][SetToSeq(found)[i]])])
        /\ UNCHANGED <<loop, batch, handler, local, net, adding, linear, observers, sockets, serving,
                       timer, interval, lost, exitSent, regs>>

(* A datagram is dropped by the network.                                   *)
Lose(m) ==
    /\ m \in msgs
    /\ lost < MaxLoss
    /\ msgs' = msgs \ {m}
    /\ lost' = lost + 1
    /\ UNCHANGED <<loop, queue, batch, handler, local, net, adding, linear, observers, sockets,
                   serving, timer, interval, exitSent, regs>>

-----------------------------------------------------------------------------
(***************************************************************************)
(* A peer is another implementation on the multicast group (the protocol  *)
(* of spec 4.2 and 7): it announces the names it serves, at start and in   *)
(* answer to searches, and sends "X" when it stops, after which it is      *)
(* silent.                                                                  *)
(***************************************************************************)
PeerAnnounce(x, n, a) ==
    /\ x \notin exitSent
    /\ n \in PeerServes[x]
    /\ msgs' = msgs \cup {[from |-> x, to |-> q, ev |-> "A", name |-> n, address |-> a,
                           names |-> {}] : q \in Procs}
    /\ UNCHANGED <<loop, queue, batch, handler, local, net, adding, linear, observers, sockets,
                   serving, timer, interval, lost, exitSent, regs>>

PeerExit(x) ==
    /\ x \notin exitSent
    /\ msgs' = msgs \cup {[from |-> x, to |-> q, ev |-> "X", name |-> None,
                           address |-> None, names |-> {}] : q \in Procs}
    /\ exitSent' = exitSent \cup {x}
    /\ UNCHANGED <<loop, queue, batch, handler, local, net, adding, linear, observers, sockets,
                   serving, timer, interval, lost, regs>>

-----------------------------------------------------------------------------
Loop(p) ==
    \/ Halt(p)
    \/ RunAddHandler(p)
    \/ RunStop(p)
    \/ RunSend(p)
    \/ RunPoll(p)
    \/ RunObserve(p)
    \/ RunUnobserve(p)
    \/ TimerFire(p)

Receive(p, m) ==
    \/ ReceiveOwn(p, m)
    \/ ReceiveExit(p, m)
    \/ ReceiveAnnounce(p, m)
    \/ ReceiveRemove(p, m)
    \/ ReceiveSearch(p, m)

Next ==
    \/ \E p \in Procs :
          \/ NodeRun(p)
          \/ NodeStop(p)
          \/ Crash(p)
          \/ \E n \in Names, a \in Addrs : RegisterBegin(p, n, a)
          \/ RegisterEnd(p)
          \/ CloseEnd(p)
          \/ \E n \in Names : CloseServer(p, n)
          \/ \E n \in Names : OpenObserver(p, n)
          \/ \E n \in Names : CloseObserver(p, n)
          \/ Loop(p)
          \/ \E m \in msgs : ReceiveOwn(p, m)
          \/ \E m \in msgs : ReceiveExit(p, m)
          \/ \E m \in msgs : ReceiveAnnounce(p, m)
          \/ \E m \in msgs : ReceiveRemove(p, m)
          \/ \E m \in msgs : ReceiveSearch(p, m)
    \/ \E x \in Peers, n \in Names, a \in Addrs : PeerAnnounce(x, n, a)
    \/ \E x \in Peers : PeerExit(x)
    \/ \E m \in msgs : Lose(m)

(* p reads a datagram that q sent it.                                      *)
Reads(p, q) == \E m \in msgs : m.to = p /\ m.from = q /\ Receive(p, m)

(* The loop is the only scheduler the code relies on: it keeps running     *)
(* queued closures and due timers, and reads the socket whenever it is     *)
(* readable (the kernel buffer is FIFO, so a waiting datagram is read      *)
(* after finitely many others).  Fairness per sender is weaker than that. *)
(* The application's calls, crashes and losses are not fair.               *)
Fairness ==
    \A p \in Procs :
        /\ WF_vars(Loop(p))
        /\ \A q \in Procs \cup Peers : WF_vars(Reads(p, q))

Spec == Init /\ [][Next]_vars /\ Fairness

-----------------------------------------------------------------------------
(***************************************************************************)
(* Properties.                                                             *)
(***************************************************************************)

Observing(p, n) == n \in DOMAIN observers[p] /\ observers[p][n] # {}

(* A process announces only what it serves: local_topics, which the        *)
(* process answers searches from, holds a name only while a Server for it *)
(* is open, whatever order the process's own datagrams come back in.       *)
LocalOnlyWhileServing ==
    \A p \in Procs, n \in Names : local[p][n] # NoTopic => n \in serving[p]

(* A running process with a missing name always has a search on the way:   *)
(* its broadcast timer is set or a query_poll is queued.  A topology change *)
(* that empties a name (an "R" or "X") must restart the search.            *)
SearchScheduled ==
    \A p \in Procs :
        (loop[p] = "running" /\ Missing(observers[p], net[p]) # {})
            => \/ timer[p]
               \/ \E i \in 1..Len(queue[p]) : queue[p][i].op = "poll"

(* p observes n and q serves it, both running with their handlers on.      *)
Wanted(p, q, n) ==
    /\ p # q
    /\ \A r \in {p, q} : loop[r] = "running" /\ handler[r]
    /\ Observing(p, n)
    /\ local[q][n] # NoTopic

(* Discovery converges: while p observes a name that a running q serves,   *)
(* p eventually knows a provider of it, through q's announcement or the    *)
(* search retries, whatever datagrams are lost.                            *)
Discovered ==
    \A p, q \in Procs, n \in Names :
        Wanted(p, q, n) ~> (Known(net[p], n) \/ ~Wanted(p, q, n))

(* A process with no observing socket left eventually stops searching:    *)
(* find_missing_topics clears the broadcast timer once missing() is empty  *)
(* (spec 8: the backoff stops "once no names remain missing").             *)
SearchStops ==
    \A p \in Procs :
        <>[](sockets[p] = {}) => <>[](loop[p] = "running" => ~timer[p])

(* network_topics holds what the adds and removes made of it, one at a   *)
(* time (spec 3: "network_topics[name][guid] always reflects the latest    *)
(* Topic seen from that guid for that name"; spec 6: the registry is only   *)
(* touched from the loop thread), also when Server.__init__ on the          *)
(* application's thread adds a topic while the loop handles datagrams.     *)
NetworkReflectsSeen ==
    \A p \in Procs : AppFree(p) => net[p] = linear[p]

(* A process that was stopped told the others: Node.stop ends with an "X"  *)
(* datagram on the wire (spec 4.2: Stopped "sends exit broadcast").        *)
ExitAnnounced ==
    \A p \in Procs : loop[p] = "halted" => p \in exitSent

=============================================================================

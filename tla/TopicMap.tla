------------------------------ MODULE TopicMap ------------------------------
(***************************************************************************)
(* The topic registry of one Directory (dispatch.py, class TopicMap).      *)
(*                                                                         *)
(* This module is the registry's operations as operators over its values; *)
(* the Directory, RequestClient and RpcRequestClient modules use them to   *)
(* merge announcements and to decide which observers a step calls, so the *)
(* registry is checked inside every step of theirs that changes it.  The  *)
(* guid of the owning Directory (TopicMap.my_guid) is the parameter "me".  *)
(*                                                                         *)
(* A dict that may lose keys is a total function here: a name absent from *)
(* network_topics is a name whose guid map is all NoTopic (the code        *)
(* deletes a name's entry as soon as its guid map is empty, lines         *)
(* 997-998 and 1008-1009, so "absent" and "empty" coincide).  observers   *)
(* keeps the code's dynamic key set, because the code never deletes a key *)
(* from it (lines 1029-1032) and missing() reads exactly that key set.    *)
(***************************************************************************)
EXTENDS Naturals, FiniteSets

CONSTANTS
    Names,      \* topic names
    Guids,      \* process-instance identifiers (Directory.my_guid of each node)
    Addrs,      \* bound socket addresses "tcp://ip:port"
    NoTopic,    \* model value: no entry
    MaxTs       \* bound on the number of Topic objects created (time.time() ticks)

(* A Topic (line 930).  socket_type and the input/output type ids are       *)
(* carried unchanged through every operation here and never compared, so   *)
(* they are abstracted away.  timestamp is the local time.time() at which  *)
(* the Topic object was created (lines 339 and 1179).                      *)
Topics == [name : Names, guid : Guids, address : Addrs, timestamp : 1..MaxTs]

GuidMap == [Guids -> Topics \cup {NoTopic}]

(* The Topics that may sit at network_topics[n][g] (or local_topics[n] of  *)
(* the process g): the dicts are keyed by the topic's own name and guid.   *)
Keyed(n, g) == {t \in Topics : t.name = n /\ t.guid = g} \cup {NoTopic}

NoEntry == [g \in Guids |-> NoTopic]

(* The guids that have an entry under name n of network_topics.            *)
Providers(net, n) == {g \in Guids : net[n][g] # NoTopic}

(* "topic_name in self.network_topics" (lines 970, 991, 1019, 1038).       *)
Known(net, n) == Providers(net, n) # {}

(* TopicMap.add, lines 970-981: a topic changes network_topics when its     *)
(* guid is new for the name or its address differs from the stored one.    *)
AddChanges(net, t) ==
    \/ net[t.name][t.guid] = NoTopic
    \/ net[t.name][t.guid].address # t.address

NetAdd(net, t) ==
    IF AddChanges(net, t) THEN [net EXCEPT ![t.name][t.guid] = t] ELSE net

(* The names whose observers TopicMap.add calls (lines 974, 977, 981).     *)
AddNotifies(net, t) == IF AddChanges(net, t) THEN {t.name} ELSE {}

(* TopicMap.add, lines 962-968: a topic of this process also goes into      *)
(* local_topics; a second one with the same name raises ValueError before  *)
(* anything is changed, which callers model as the guard LocalFree.         *)
LocalFree(me, loc, t) == t.guid = me => loc[t.name] = NoTopic

(* Fault variant: the "if topic.guid == self.my_guid" test of line 962     *)
(* dropped, so every topic lands in local_topics.                          *)
LocalAddAny(me, loc, t) == [loc EXCEPT ![t.name] = t]

LocalAdd(me, loc, t) ==
    IF t.guid = me THEN [loc EXCEPT ![t.name] = t] ELSE loc

(* TopicMap.remove, lines 985-1000.  Its result, "removed_local", is true   *)
(* when the guid is this process's and the name was in local_topics.       *)
RemovedLocal(me, loc, g, n) == g = me /\ loc[n] # NoTopic

LocalRemove(me, loc, g, n) ==
    IF RemovedLocal(me, loc, g, n) THEN [loc EXCEPT ![n] = NoTopic] ELSE loc

NetRemove(net, g, n) == [net EXCEPT ![n][g] = NoTopic]

RemoveNotifies(net, g, n) == IF net[n][g] # NoTopic THEN {n} ELSE {}

(* TopicMap.remove_all, lines 1002-1010: every name g has an entry under   *)
(* loses it, and the observers of each such name are called.               *)
NetRemoveAll(net, g) == [n \in Names |-> [net[n] EXCEPT ![g] = NoTopic]]

RemoveAllNotifies(net, g) == {n \in Names : net[n][g] # NoTopic}

(* TopicMap.missing, lines 1034-1041: every key of observers whose name has *)
(* no network entry.                                                        *)
Missing(obs, net) == {n \in DOMAIN obs : ~Known(net, n)}

(* TopicMap.observe, lines 1012-1017: the observers dict gains the name as  *)
(* a key (if new) and the handle under it.                                  *)
ObsAdd(obs, n, h) ==
    IF n \in DOMAIN obs
    THEN [obs EXCEPT ![n] = @ \cup {h}]
    ELSE [m \in DOMAIN obs \cup {n} |-> IF m = n THEN {h} ELSE obs[m]]

(* TopicMap.unobserve, lines 1029-1032: the handle goes, the key stays.     *)
ObsRemove(obs, n, h) ==
    IF n \in DOMAIN obs THEN [obs EXCEPT ![n] = @ \ {h}] ELSE obs

(* The handles TopicMap.call_observers invokes for the names in ns         *)
(* (lines 1024-1027).                                                       *)
Called(obs, ns) == UNION {obs[n] : n \in ns \cap DOMAIN obs}

=============================================================================

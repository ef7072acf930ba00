--------------------------- MODULE RpcRequestClient ---------------------------
(***************************************************************************)
(* RpcRequestClient (dispatch.py, lines 727-816): one execute() on the     *)
(* caller's thread, then the RequestClient it creates, its connect-settle  *)
(* timers, its request, the reply, the disconnects and the timeout, all on *)
(* the event loop.                                                          *)
(*                                                                         *)
(* The RequestClient's variables, its providers and its reaction to a new  *)
(* guid map are those of module RequestClient.  What this module adds is   *)
(* the owner's callbacks: on_disconnect runs inside close_stream, so a     *)
(* reconnect of the RequestClient runs the whole RPC cleanup in the middle *)
(* of _connect, and on_connect runs 100 ms after a connect.                *)
(***************************************************************************)
EXTENDS TopicMap, Sequences

CONSTANTS
    Name, None,
    HasTimeout,         \* execute() is given a timeout (timeout != 0)
    TimerBeforeReturn,  \* the timeout may expire before execute() returns
                        \*   (int(timeout * 1000) is 0, or the caller thread
                        \*   is descheduled for longer than the timeout)
    DecodeFails         \* the reply's payload does not decode as reply_type

VARIABLES
    serving, msgs, net, clock, queue, observing, connected, stream, streams, closed,
    pc,                 \* the caller thread in execute(): "idle", "construct",
                        \*   "assign", "returned"
    rcRef,              \* self._request_client: "unset" (no attribute yet),
                        \*   "client" or "none"
    future,             \* "none", "pending", "result", "timeout", "connerr"
    timeoutScheduled,   \* self._timeout_scheduled
    timerPending,       \* the add_timeout for _on_timeout is armed
    connectTimers,      \* armed on_connect timers (scheduleOnce(100, ...))
    handlerOn,          \* the current stream has the on_recv reply handler
    inflight,           \* the address the request went to on the current stream
    setCalls,           \* calls of set_result / set_exception
    cleanups,           \* runs of _cleanup
    assertFailed,       \* the assert in _on_timeout has failed
    lateSend            \* the request left after the client was released

RC == INSTANCE RequestClient

rcVars == <<connected, stream, streams>>
provVars == <<serving, msgs, net, clock>>
rpcVars == <<pc, rcRef, future, timeoutScheduled, timerPending, connectTimers,
             handlerOn, inflight, setCalls, cleanups, assertFailed, lateSend>>
vars == <<provVars, queue, observing, rcVars, closed, rpcVars>>

Closures == {"observe", "unobserve", "disconnect", "scheduleTimeout", "armConnect", "send"}

TypeOK ==
    /\ serving \in [Guids -> Addrs \cup {None}]
    /\ \A n \in Names, g \in Guids : net[n][g] \in Keyed(n, g)
    /\ queue \in Seq(Closures)
    /\ connected \in {t \in Topics : t.name = Name} \cup {NoTopic}
    /\ stream \in Addrs \cup {None}
    /\ streams \in Nat
    /\ pc \in {"idle", "construct", "assign", "returned"}
    /\ rcRef \in {"unset", "client", "none"}
    /\ future \in {"none", "pending", "result", "timeout", "connerr"}
    /\ {timeoutScheduled, timerPending, handlerOn, assertFailed, lateSend,
        observing, closed} \subseteq BOOLEAN
    /\ connectTimers \in Nat
    /\ inflight \in Addrs \cup {None}
    /\ setCalls \in Nat
    /\ cleanups \in Nat

(* RpcRequestClient.__init__ (lines 737-744): no RequestClient yet.        *)
Init ==
    /\ serving = [g \in Guids |-> None]
    /\ msgs = {}
    /\ net = [n \in Names |-> NoEntry]
    /\ clock = 0
    /\ queue = <<>>
    /\ observing = FALSE
    /\ connected = NoTopic
    /\ stream = None
    /\ streams = 0
    /\ closed = FALSE
    /\ pc = "idle"
    /\ rcRef = "unset"
    /\ future = "none"
    /\ timeoutScheduled = FALSE
    /\ timerPending = FALSE
    /\ connectTimers = 0
    /\ handlerOn = FALSE
    /\ inflight = None
    /\ setCalls = 0
    /\ cleanups = 0
    /\ assertFailed = FALSE
    /\ lateSend = FALSE

-----------------------------------------------------------------------------
(***************************************************************************)
(* execute(), lines 746-762, on the caller's thread.                       *)
(***************************************************************************)

(* _schedule_timeout (lines 764-773) sets _timeout_scheduled and posts     *)
(* __schedule_timeout; then the future is made and set running.            *)
ExecStart ==
    /\ pc = "idle"
    /\ pc' = "construct"
    /\ timeoutScheduled' = HasTimeout
    /\ queue' = IF HasTimeout THEN Append(queue, "scheduleTimeout") ELSE queue
    /\ future' = "pending"
    /\ UNCHANGED <<provVars, observing, rcVars, closed, rcRef, timerPending,
                   connectTimers, handlerOn, inflight, setCalls, cleanups,
                   assertFailed, lateSend>>

(* RequestClient(...) is constructed (lines 577-587): it posts             *)
(* _observe_topic ...                                                       *)
ExecConstruct ==
    /\ pc = "construct"
    /\ pc' = "assign"
    /\ queue' = Append(queue, "observe")
    /\ UNCHANGED <<provVars, observing, rcVars, closed, rcRef, future,
                   timeoutScheduled, timerPending, connectTimers, handlerOn,
                   inflight, setCalls, cleanups, assertFailed, lateSend>>

(* ... and only then is it assigned to self._request_client.               *)
ExecAssign ==
    /\ pc = "assign"
    /\ pc' = "returned"
    /\ rcRef' = "client"
    /\ UNCHANGED <<provVars, queue, observing, rcVars, closed, future,
                   timeoutScheduled, timerPending, connectTimers, handlerOn,
                   inflight, setCalls, cleanups, assertFailed, lateSend>>

-----------------------------------------------------------------------------
(***************************************************************************)
(* _cleanup, lines 810-816: _request_client is cleared first, then         *)
(* _cancel_timeout (lines 775-778) and RequestClient.close (lines 722-724: *)
(* _unobserve_topic is posted, close_stream runs).  The on_disconnect that *)
(* close_stream calls (lines 795-800) finds _request_client cleared and    *)
(* returns; with it still set it would clean up and fail the future again. *)
(***************************************************************************)
(* Fault variant: _request_client is not cleared before close.            *)
CleanupRefKept(r) == r

CleanupRef(r) == "none"

(* The cleanups the on_disconnect inside close runs (none, since it finds  *)
(* _request_client cleared).                                               *)
HookCleanups(r) == IF CleanupRef(r) = "client" THEN 1 ELSE 0

(* _cleanup on the loop; its close posts _unobserve_topic after the        *)
(* closures in q, and the code after the cleanup posts r.  The stream is   *)
(* closed by the caller of Cleanup.                                        *)
Cleanup(q, r) ==
    /\ rcRef' = CleanupRef(rcRef)
    /\ timeoutScheduled' = FALSE
    /\ timerPending' = FALSE
    /\ closed' = TRUE
    /\ cleanups' = cleanups + 1 + HookCleanups(rcRef)
    /\ queue' = Append(q, "unobserve") \o r

(* Fault variant: set_exception never reaches the future.                  *)
FailNever(f, e) == f

(* The future after a set_exception guarded by done() (lines 799, 807).    *)
Fail(f, e) == IF f = "pending" THEN e ELSE f

(* _cleanup, then set_exception(e) unless the future is done.              *)
CleanupAndFail(q, r, e) ==
    /\ Cleanup(q, r)
    /\ future' = Fail(future, e)
    /\ setCalls' = setCalls + (IF future = "pending" THEN 1 ELSE 0)

(* The state close_stream (lines 714-720) leaves: no stream, and so no     *)
(* reply handler and no reply that can still be received on it.            *)
StreamClosed ==
    /\ stream' = None
    /\ streams' = RC!CloseStream(stream, streams)[2]
    /\ handlerOn' = FALSE
    /\ inflight' = None

(* No RPC callback runs.                                                   *)
NoHook == UNCHANGED <<rcRef, timeoutScheduled, timerPending, closed, cleanups,
                      future, setCalls>>

-----------------------------------------------------------------------------
(***************************************************************************)
(* The RequestClient's handler with the RPC's callbacks (lines 616-654).   *)
(* A reconnect's disconnect calls on_disconnect: with the client assigned  *)
(* that is the whole RPC cleanup and a ConnectionError, and _connect then  *)
(* goes on to open the new stream; before the assignment the attribute     *)
(* lookup raises, which unwinds the rest of the handler.  A connect posts  *)
(* the scheduleOnce of on_connect (lines 646-649, 270-279).                *)
(***************************************************************************)
RpcUpdated(gm, q) ==
    LET c     == connected
        disc  == RC!Disconnects(gm, c)
        abort == disc /\ rcRef = "unset"
        hook  == disc /\ rcRef = "client"
        conn  == RC!Decision(gm, c) = "connect" /\ ~abort
        q1    == q \o RC!PostedAfter(gm, c)
        q2    == IF conn THEN q1 \o <<"armConnect">> ELSE q1
    IN  /\ connected' = IF abort THEN NoTopic ELSE RC!ConnectedAfter(gm, c)
        /\ stream' = IF abort THEN None ELSE RC!StreamAfter(gm, c, stream)
        /\ streams' = IF abort THEN RC!CloseStream(stream, streams)[2]
                      ELSE RC!StreamsAfter(gm, c, stream, streams)
        /\ handlerOn' = IF disc \/ conn THEN FALSE ELSE handlerOn
        /\ inflight' = IF disc \/ conn THEN None ELSE inflight
        /\ IF hook
           THEN CleanupAndFail(q, <<"armConnect">>, "connerr")
           ELSE /\ queue' = q2
                /\ NoHook

(* The handler is not called.                                              *)
Quiet(q) ==
    /\ queue' = q
    /\ UNCHANGED <<rcVars, handlerOn, inflight>>
    /\ NoHook

(* The Directory merges an "A" (RequestClient!ReceiveAnnounce).            *)
ReceiveAnnounce(m) ==
    LET t == [name |-> Name, guid |-> m.guid, address |-> m.address,
              timestamp |-> clock + 1]
    IN  /\ m \in msgs
        /\ m.ev = "A"
        /\ clock < MaxTs
        /\ msgs' = msgs \ {m}
        /\ clock' = clock + 1
        /\ net' = NetAdd(net, t)
        /\ IF AddChanges(net, t) /\ observing
           THEN RpcUpdated(net'[Name], queue) ELSE Quiet(queue)
        /\ UNCHANGED <<serving, observing, pc, connectTimers, assertFailed, lateSend>>

(* The Directory handles an "R" (RequestClient!ReceiveRemove).             *)
ReceiveRemove(m) ==
    /\ m \in msgs
    /\ m.ev = "R"
    /\ msgs' = msgs \ {m}
    /\ net' = NetRemove(net, m.guid, Name)
    /\ IF RemoveNotifies(net, m.guid, Name) # {} /\ observing
       THEN RpcUpdated(net'[Name], queue) ELSE Quiet(queue)
    /\ UNCHANGED <<serving, clock, observing, pc, connectTimers, assertFailed, lateSend>>

(* _observe_topic (RequestClient!RunObserve).                              *)
RunObserve ==
    /\ queue # <<>>
    /\ Head(queue) = "observe"
    /\ observing' = TRUE
    /\ IF Known(net, Name) THEN RpcUpdated(net[Name], Tail(queue)) ELSE Quiet(Tail(queue))
    /\ UNCHANGED <<provVars, pc, connectTimers, assertFailed, lateSend>>

(* _unobserve_topic (RequestClient!RunUnobserve).                          *)
RunUnobserve ==
    /\ RC!RunUnobserve
    /\ UNCHANGED rpcVars

(* _disconnect posted by an empty map (RequestClient!RunDisconnect), with  *)
(* the on_disconnect its close_stream calls.                               *)
RunDisconnect ==
    /\ queue # <<>>
    /\ Head(queue) = "disconnect"
    /\ connected' = NoTopic
    /\ IF connected # NoTopic
       THEN /\ StreamClosed
            /\ IF rcRef = "client"
               THEN CleanupAndFail(Tail(queue), <<>>, "connerr")
               ELSE queue' = Tail(queue) /\ NoHook
       ELSE queue' = Tail(queue) /\ UNCHANGED <<stream, streams, handlerOn, inflight>> /\ NoHook
    /\ UNCHANGED <<provVars, observing, pc, connectTimers, assertFailed, lateSend>>

(* __schedule_timeout (lines 766-770): arms the timeout unless a cleanup   *)
(* has cleared _timeout_scheduled first.                                   *)
RunScheduleTimeout ==
    /\ queue # <<>>
    /\ Head(queue) = "scheduleTimeout"
    /\ queue' = Tail(queue)
    /\ timerPending' = timeoutScheduled
    /\ UNCHANGED <<provVars, observing, rcVars, closed, pc, rcRef, future,
                   timeoutScheduled, connectTimers, handlerOn, inflight, setCalls,
                   cleanups, assertFailed, lateSend>>

(* _on_timeout (lines 802-808).  The assert fails when _request_client is  *)
(* None, or not yet assigned (AttributeError); nothing else happens then.  *)
TimeoutFire ==
    /\ timerPending
    /\ TimerBeforeReturn \/ pc = "returned"
    /\ IF rcRef = "client"
       THEN /\ CleanupAndFail(queue, <<>>, "timeout")
            /\ StreamClosed
            /\ UNCHANGED assertFailed
       ELSE /\ timerPending' = FALSE
            /\ assertFailed' = TRUE
            /\ UNCHANGED <<queue, rcVars, handlerOn, inflight, rcRef, timeoutScheduled,
                           closed, cleanups, future, setCalls>>
    /\ UNCHANGED <<provVars, observing, connected, pc, connectTimers, lateSend>>

(* scheduleOnceCallback (lines 277-278): the 100 ms timer of on_connect.   *)
RunArmConnect ==
    /\ queue # <<>>
    /\ Head(queue) = "armConnect"
    /\ queue' = Tail(queue)
    /\ connectTimers' = connectTimers + 1
    /\ UNCHANGED <<provVars, observing, rcVars, closed, pc, rcRef, future,
                   timeoutScheduled, timerPending, handlerOn, inflight, setCalls,
                   cleanups, assertFailed, lateSend>>

(* _on_connect (lines 788-793) returns when _request_client is cleared;    *)
(* otherwise request (lines 675-681) asserts a stream, installs the reply  *)
(* handler on it and posts _send (lines 589-602).                          *)
ConnectFire ==
    /\ connectTimers > 0
    /\ connectTimers' = connectTimers - 1
    /\ IF rcRef = "client" /\ stream # None
       THEN /\ handlerOn' = TRUE
            /\ queue' = Append(queue, "send")
       ELSE UNCHANGED <<handlerOn, queue>>
    /\ UNCHANGED <<provVars, observing, rcVars, closed, pc, rcRef, future,
                   timeoutScheduled, timerPending, inflight, setCalls, cleanups,
                   assertFailed, lateSend>>

(* _send (lines 595-597): the request goes out on whatever stream the      *)
(* client holds when the closure runs.                                     *)
RunSend ==
    /\ queue # <<>>
    /\ Head(queue) = "send"
    /\ queue' = Tail(queue)
    /\ IF stream # None
       THEN /\ inflight' = stream
            /\ lateSend' = (lateSend \/ rcRef # "client")
       ELSE UNCHANGED <<inflight, lateSend>>
    /\ UNCHANGED <<provVars, observing, rcVars, closed, pc, rcRef, future,
                   timeoutScheduled, timerPending, connectTimers, handlerOn,
                   setCalls, cleanups, assertFailed>>

(* A live provider at the address answers, and the stream's reply handler  *)
(* runs _on_reply (lines 780-786): cleanup, then set_result of the decoded *)
(* payload; a payload that does not decode raises before set_result and    *)
(* the exception is only logged.                                           *)
Reply ==
    /\ inflight # None
    /\ handlerOn
    /\ \E g \in Guids : serving[g] = inflight
    /\ Cleanup(queue, <<>>)
    /\ StreamClosed
    /\ future' = IF DecodeFails \/ future # "pending" THEN future ELSE "result"
    /\ setCalls' = IF DecodeFails THEN setCalls ELSE setCalls + 1
    /\ UNCHANGED <<provVars, observing, connected, pc, connectTimers, assertFailed,
                   lateSend>>

(* The providers (RequestClient!ServerStart and the rest).                 *)
Provider ==
    \/ \E g \in Guids, a \in Addrs : RC!ServerStart(g, a)
    \/ \E g \in Guids : RC!ServerAnswer(g) \/ RC!ServerStop(g) \/ RC!ServerCrash(g)

Loop ==
    \/ RunObserve
    \/ RunUnobserve
    \/ RunDisconnect
    \/ RunScheduleTimeout
    \/ TimeoutFire
    \/ RunArmConnect
    \/ ConnectFire
    \/ RunSend

Next ==
    \/ Provider /\ UNCHANGED rpcVars
    \/ ExecStart
    \/ ExecConstruct
    \/ ExecAssign
    \/ \E m \in msgs : ReceiveAnnounce(m)
    \/ \E m \in msgs : ReceiveRemove(m)
    \/ Loop
    \/ Reply

(* The loop runs every posted closure and every due timer; the caller's    *)
(* thread, once in execute(), finishes it.  Nothing forces a provider to   *)
(* answer, to stay up or to announce.                                      *)
Fairness ==
    /\ WF_vars(ExecConstruct) /\ WF_vars(ExecAssign)
    /\ WF_vars(RunObserve) /\ WF_vars(RunUnobserve) /\ WF_vars(RunDisconnect)
    /\ WF_vars(RunScheduleTimeout) /\ WF_vars(TimeoutFire)
    /\ WF_vars(RunArmConnect) /\ WF_vars(ConnectFire) /\ WF_vars(RunSend)

Spec == Init /\ [][Next]_vars /\ Fairness

-----------------------------------------------------------------------------
(***************************************************************************)
(* Properties.                                                             *)
(***************************************************************************)

(* _cleanup runs at most once, whichever of reply, disconnect and timeout  *)
(* comes first, and although close_stream calls back into _on_disconnect   *)
(* (spec 4.5).                                                             *)
CleanupOnce == cleanups <= 1

(* The assert in _on_timeout holds: the timeout never fires after a        *)
(* cleanup, nor before execute() has assigned _request_client (the code's  *)
(* comment: "This shouldn't be possible").                                 *)
TimeoutAssertHolds == ~assertFailed

(* The RpcOutcome state the future stands for.                            *)
FutureState ==
    CASE future = "none"    -> "idle"
      [] future = "pending" -> "pending"
      [] future = "result"  -> "replied"
      [] future = "timeout" -> "timedout"
      [] future = "connerr" -> "connfailed"

Outcome == INSTANCE RpcOutcome WITH state <- FutureState, released <- cleanups > 0

(* The client implements spec 4.5's completion state machine: the future   *)
(* leaves "pending" exactly once, in the same step as the first _cleanup   *)
(* (on_reply, on_disconnect or on_timeout, whichever comes first), no      *)
(* cleanup happens while it is still pending or before execute(), and     *)
(* with a timeout a pending future is eventually resolved.                 *)
ImplementsOutcome == Outcome!Spec

(* No request reaches a provider after the future was failed and the       *)
(* RequestClient released: the caller sees a ConnectionError for a request *)
(* that was then sent.                                                     *)
NoSendAfterRelease == ~lateSend

=============================================================================

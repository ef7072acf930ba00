--------------------------- MODULE RequestBlocking ---------------------------
(***************************************************************************)
(* RequestClient.request_blocking (dispatch.py, lines 675-712): the        *)
(* application's thread calls it again and again on one connected          *)
(* RequestClient, while the loop thread sends the requests and delivers   *)
(* the replies of the ReplyServer at the other end.                        *)
(*                                                                         *)
(* Each call makes its own Condition, reply and exited, so its lock is     *)
(* never contended by another call: the caller holds it from acquire to    *)
(* wait and from the wake-up to the return, and the reply_callback holds   *)
(* it for its whole body.  Each of these is therefore one step here.  The  *)
(* loop reads the stream's recv callback without the lock, either before   *)
(* or after the caller's on_recv, which the interleaving of steps covers.  *)
(*                                                                         *)
(* The transport is the one pyzmq gives a REQ socket under a ZMQStream:    *)
(* send_multipart queues the message in the stream, which writes it when  *)
(* the socket is writable, and a REQ socket is writable only when it is    *)
(* not waiting for a reply.  A reply is dispatched to the callback         *)
(* installed when it is read.                                              *)
(***************************************************************************)
EXTENDS Naturals, Sequences

CONSTANTS
    MaxCalls    \* request_blocking calls the application makes, one after another

Calls == 1..MaxCalls
NoCall == 0

VARIABLES
    pc,         \* the caller: "idle" between calls, "wait" inside wait(timeout)
    call,       \* the number of the current or last call
    handler,    \* the call whose reply_callback is the stream's recv callback
    exited,     \* exited[k]: call k set exited (it has returned)
    reply,      \* reply[k]: the request whose reply call k's reply holds, or NoCall
    returned,   \* returned[k]: the request whose reply call k returned, or NoCall
                \*   (not returned yet, or TimeoutError)
    queue,      \* _send closures posted to the loop, by call
    sendq,      \* the ZMQStream's queue of messages not yet written
    req,        \* the REQ socket: "ready" to send, or "await" a reply
    server,     \* the request the ReplyServer is handling, or NoCall
    wire        \* the request whose reply is on its way back, or NoCall

vars == <<pc, call, handler, exited, reply, returned, queue, sendq, req, server, wire>>

TypeOK ==
    /\ pc \in {"idle", "wait"}
    /\ call \in 0..MaxCalls
    /\ handler \in Calls \cup {NoCall}
    /\ exited \in [Calls -> BOOLEAN]
    /\ reply \in [Calls -> Calls \cup {NoCall}]
    /\ returned \in [Calls -> Calls \cup {NoCall}]
    /\ queue \in Seq(Calls)
    /\ sendq \in Seq(Calls)
    /\ req \in {"ready", "await"}
    /\ server \in Calls \cup {NoCall}
    /\ wire \in Calls \cup {NoCall}

(* A connected RequestClient whose stream has no recv callback yet.        *)
Init ==
    /\ pc = "idle"
    /\ call = 0
    /\ handler = NoCall
    /\ exited = [k \in Calls |-> FALSE]
    /\ reply = [k \in Calls |-> NoCall]
    /\ returned = [k \in Calls |-> NoCall]
    /\ queue = <<>>
    /\ sendq = <<>>
    /\ req = "ready"
    /\ server = NoCall
    /\ wire = NoCall

-----------------------------------------------------------------------------
(***************************************************************************)
(* The application's thread.                                               *)
(***************************************************************************)

(* request_blocking up to the wait (lines 703-706): request (lines         *)
(* 675-681) installs this call's reply_callback with on_recv and posts     *)
(* _send (lines 589-602); wait releases the lock.                          *)
Call ==
    /\ pc = "idle"
    /\ call < MaxCalls
    /\ pc' = "wait"
    /\ call' = call + 1
    /\ handler' = call + 1
    /\ queue' = Append(queue, call + 1)
    /\ UNCHANGED <<exited, reply, returned, sendq, req, server, wire>>

(* wait returns, on notify_all or when the timeout expires (which it may   *)
(* at any moment), with the lock re-acquired; exited is set and the call   *)
(* returns its reply, or raises TimeoutError when it has none (lines       *)
(* 707-712).                                                               *)
Return ==
    /\ pc = "wait"
    /\ pc' = "idle"
    /\ exited' = [exited EXCEPT ![call] = TRUE]
    /\ returned' = [returned EXCEPT ![call] = reply[call]]
    /\ UNCHANGED <<call, handler, reply, queue, sendq, req, server, wire>>

-----------------------------------------------------------------------------
(***************************************************************************)
(* The loop thread and the ReplyServer.                                    *)
(***************************************************************************)

(* _send (lines 595-597): ZMQStream.send_multipart queues the message.    *)
RunSend ==
    /\ queue # <<>>
    /\ queue' = Tail(queue)
    /\ sendq' = Append(sendq, Head(queue))
    /\ UNCHANGED <<pc, call, handler, exited, reply, returned, req, server, wire>>

(* The stream writes its oldest message once the REQ socket is writable.   *)
StreamWrite ==
    /\ sendq # <<>>
    /\ req = "ready"
    /\ sendq' = Tail(sendq)
    /\ req' = "await"
    /\ server' = Head(sendq)
    /\ UNCHANGED <<pc, call, handler, exited, reply, returned, queue, wire>>

(* The ReplyServer answers the request it received (ReplyServer.handler    *)
(* and router_send, lines 543-572).                                        *)
ServerReply ==
    /\ server # NoCall
    /\ wire' = server
    /\ server' = NoCall
    /\ UNCHANGED <<pc, call, handler, exited, reply, returned, queue, sendq, req>>

(* The reply is read, the REQ socket can send again, and the stream calls  *)
(* its recv callback, the reply_callback of call handler (lines 689-701):  *)
(* unless that call has exited, its reply becomes this one.                *)
StreamRecv ==
    /\ wire # NoCall
    /\ wire' = NoCall
    /\ req' = "ready"
    /\ reply' = IF exited[handler] THEN reply ELSE [reply EXCEPT ![handler] = wire]
    /\ UNCHANGED <<pc, call, handler, exited, returned, queue, sendq, server>>

Next ==
    \/ Call
    \/ Return
    \/ RunSend
    \/ StreamWrite
    \/ ServerReply
    \/ StreamRecv

Spec == Init /\ [][Next]_vars

-----------------------------------------------------------------------------
(***************************************************************************)
(* Properties.                                                             *)
(***************************************************************************)

(* A request_blocking call that returns a reply returns the reply to its  *)
(* own request: the reply to a call that already timed out is discarded   *)
(* (spec 4.4: "if the wait has already timed out when a reply later        *)
(* arrives, the reply is discarded"), not handed to the next call.         *)
RepliesCorrelated == \A k \in Calls : returned[k] \in {NoCall, k}

=============================================================================

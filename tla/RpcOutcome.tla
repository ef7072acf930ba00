----------------------------- MODULE RpcOutcome -----------------------------
(***************************************************************************)
(* What an RpcRequestClient promises (spec 4.5, "completion state          *)
(* machine"): execute() takes it from Idle to Pending, and then exactly    *)
(* one of reply, disconnect and timeout takes it to its terminal state.   *)
(* The resources are released in that same step, once, and every later    *)
(* event is a no-op.  Nothing here says how: RpcRequestClient.tla          *)
(* implements it under the mapping given there.                           *)
(***************************************************************************)

VARIABLES
    state,      \* "idle", "pending", "replied", "timedout", "connfailed"
    released    \* the RequestClient and the timer have been released

vars == <<state, released>>

Outcomes == {"replied", "timedout", "connfailed"}

Init ==
    /\ state = "idle"
    /\ released = FALSE

(* execute(): Idle -> Pending.                                             *)
Execute ==
    /\ state = "idle"
    /\ state' = "pending"
    /\ UNCHANGED released

(* The first of reply, disconnect and timeout fixes the outcome and        *)
(* releases everything.                                                    *)
Resolve(o) ==
    /\ state = "pending"
    /\ ~released
    /\ state' = o
    /\ released' = TRUE

Next == Execute \/ \E o \in Outcomes : Resolve(o)

(* A pending request does not stay pending: one of the three events comes. *)
Spec == Init /\ [][Next]_vars /\ WF_vars(\E o \in Outcomes : Resolve(o))

=============================================================================

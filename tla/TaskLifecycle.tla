--------------------------- MODULE TaskLifecycle ---------------------------
(***************************************************************************)
(* What a task run promises to everyone who looks at it: the in-memory     *)
(* TaskRunStateMachine of services/task_runtime/state_machine.py.  A run   *)
(* has one status, every change of it is an edge of the table, and a       *)
(* terminal status has no outgoing edge.                                   *)
(***************************************************************************)

VARIABLE status

Lifecycle == [queued     |-> {"running", "failed", "cancelled"},
              running    |-> {"succeeded", "failed", "cancelling"},
              cancelling |-> {"cancelled", "failed"},
              succeeded  |-> {},
              failed     |-> {},
              cancelled  |-> {}]

IsTerminal(s) == Lifecycle[s] = {}

Init == status = "queued"

Transition(new) == new \in Lifecycle[status] /\ status' = new

Next == \E new \in DOMAIN Lifecycle : Transition(new)

Spec == Init /\ [][Next]_status

=============================================================================

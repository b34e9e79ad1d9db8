---------------------------- MODULE McpPromise ----------------------------
(***************************************************************************)
(* What a caller of the Tableau MCP tools is promised: its request is      *)
(* executed some number of times, it is answered once, and an answer is    *)
(* one the tool computed for this very request.                            *)
(***************************************************************************)
EXTENDS Naturals

CONSTANT Calls  \* the callers' requests

VARIABLES ran,   \* how often the tool executed the request of a call
          reply  \* how the call ended: the call whose answer it got, or an error

promiseVars == <<ran, reply>>

Errors == {"error", "expired"}

Init == ran = [c \in Calls |-> 0] /\ reply = [c \in Calls |-> "none"]

\* Also after the caller has gone: a request is not withdrawn.
Execute(c) == ran' = [ran EXCEPT ![c] = @ + 1] /\ UNCHANGED reply

Reply(c) == /\ reply[c] = "none"
            /\ \/ ran[c] > 0 /\ reply' = [reply EXCEPT ![c] = c]
               \/ \E e \in Errors : reply' = [reply EXCEPT ![c] = e]
            /\ UNCHANGED ran

Next == \E c \in Calls : Execute(c) \/ Reply(c)

Spec == Init /\ [][Next]_promiseVars
============================================================================

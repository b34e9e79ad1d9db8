--------------------------- MODULE AgentPromise ---------------------------
(***************************************************************************)
(* What the caller of POST /api/agent/stream is promised for one question: *)
(* at most one assistant message is stored, at most one verdict is sent,   *)
(* nothing is stored after the verdict, and the verdict agrees with what   *)
(* is stored: "done" comes after the answer is in the conversation.        *)
(***************************************************************************)
VARIABLES told,   \* the verdict events of the stream
          saved,  \* the assistant message stored for the question
          over    \* nothing more will be sent

promiseVars == <<told, saved, over>>

Agrees(verdict, message) ==
    \/ verdict = "done" /\ message = "answer"
    \/ verdict = "unsaved" /\ message = "none"
    \/ verdict = "error" /\ message # "answer"

Init == told = <<>> /\ saved = "none" /\ over = FALSE

Store == told = <<>> /\ saved = "none" /\ saved' \in {"answer", "error"}

Tell == told = <<>> /\ \E v \in {"done", "unsaved", "error"} : told' = <<v>> /\ Agrees(v, saved')

Next == /\ ~over /\ over' \in BOOLEAN
        /\ Store \/ saved' = saved
        /\ Tell \/ told' = told

Spec == Init /\ [][Next]_promiseVars
============================================================================

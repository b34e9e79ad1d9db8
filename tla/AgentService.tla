--------------------------- MODULE AgentService ---------------------------
(***************************************************************************)
(* The Data Agent's stream with its real paths: AgentRun's bookkeeping over *)
(* the generators of AgentPaths, one question from the request to the end  *)
(* of its stream.                                                          *)
(***************************************************************************)
EXTENDS AgentRun, AgentPaths

serviceVars == <<vars, pathVars>>

ServiceInit == Init /\ PathInit

KindsOf(b) == IF b = "transform" THEN {"transform"} ELSE Kinds \ {"transform"}

PathStarts == /\ pc = "path" /\ path = "open"
              /\ \E k \in KindsOf(branch) : StartPath(k)
              /\ UNCHANGED vars

Pulled == pc = "path" /\ event = "none" /\ kind # "none"

PathWorks == Pulled /\ PathStep /\ UNCHANGED vars

\* `async for' takes the next event, whatever it is.
Delivers == /\ Pulled /\ Yields
            /\ event' = Head(out)
            /\ path' = IF Head(out) \in Verdicts THEN "spent" ELSE path
            /\ UNCHANGED <<branch, pc, dbVars, told, shown, sessionOk, client, faulty>>

Interrupted == Awaits /\ Cancel /\ UNCHANGED pathVars

Service == \/ PathStarts \/ PathWorks \/ Delivers
           \/ Bookkeeping /\ UNCHANGED pathVars

ServiceNext == \/ Service \/ Interrupted
               \/ Environment /\ UNCHANGED pathVars

\* The coroutine runs on: the model's and the tools' calls end in an answer, an
\* exception or their timeout, and the event loop resumes whoever awaited them.
ServiceSpec == ServiceInit /\ [][ServiceNext]_serviceVars /\ WF_serviceVars(Service)
----------------------------------------------------------------------------
\* The real paths keep the contract that AgentRun states: exactly one verdict, nothing
\* but the end after it, and no end before it.
KeepsContract == Spec

\* The proxy path gives no row to the client that the size check blocks.
ProxyHidesBlockedRows == kind = "proxy" => "blocked" \notin shown

\* A blocked result is never the answer, whatever fallback is configured.
BlockedIsNotAnswered == "blocked" \in shown => told # <<"done">>

\* What was blocked stays blocked: not shown by the one path, not answered by any.
BlockedStaysBlocked == ProxyHidesBlockedRows /\ BlockedIsNotAnswered

\* Every question that was asked comes to an end, with its client or without.
QuestionEnds == (pc = "start") ~> (pc \in Over)
============================================================================

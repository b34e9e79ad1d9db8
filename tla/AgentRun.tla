----------------------------- MODULE AgentRun -----------------------------
(***************************************************************************)
(* One question of the Data Agent: agent_stream (app/api/agent.py) and     *)
(* run_agent (services/data_agent/runner.py).                              *)
(*                                                                         *)
(* A question is answered in one of four ways (`branch'): a request for    *)
(* clarification, the list of data sources, a transformation of the last   *)
(* result, or a path that plans and calls tools.  The bookkeeping is the   *)
(* same everywhere: rows of bi_agent_runs and bi_agent_steps, the          *)
(* assistant's message, and the events of the stream, each committed on    *)
(* its own with the request's one Session, which a failed commit leaves    *)
(* unusable until somebody rolls it back.                                  *)
(*                                                                         *)
(* The path that produces the events is a contract here (PathEmits): data  *)
(* events, then one answer or error, then the end; or an exception before  *)
(* the verdict.  AgentPaths has the paths, AgentService puts the two       *)
(* together.  A client that leaves cancels the task, which is noticed at   *)
(* the next await: inside the path, or between the tokens of the answer.   *)
(***************************************************************************)
EXTENDS Sequences

VARIABLES branch,    \* how the question is answered
          pc,        \* where the request's coroutine is
          path,      \* the path's generator: "closed", "open", "spent" (verdict given)
          event,     \* the event it has yielded, if any
          run,       \* bi_agent_runs.status of the question's row
          saved,     \* the assistant message stored for it
          told,      \* the verdict events sent
          shown,     \* data events sent
          sessionOk, \* the Session needs no rollback
          client,    \* "here" or "gone"
          faulty     \* history: some commit failed

dbVars == <<run, saved>>
vars == <<branch, pc, path, event, run, saved, told, shown, sessionOk, client, faulty>>
----------------------------------------------------------------------------
Branches == {"clarify", "schema", "transform", "agent"}
DataEvents == {"step", "rows", "blocked"}
Verdicts == {"answer", "error"}
Over == {"end", "left", "dead"}
Places == {"idle", "start", "intent", "path", "save", "tokens", "saveError", "raise",
           "saveRaise", "cancel", "saveCancel", "route", "errorRun"} \cup Over

\* The run row's two ends.
Ended == {"completed", "failed"}

Init == /\ branch = "none" /\ pc = "idle" /\ path = "closed" /\ event = "none"
        /\ run = "none" /\ saved = "none" /\ told = <<>> /\ shown = {}
        /\ sessionOk = TRUE /\ client = "here" /\ faulty = FALSE

Goto(p) == pc' = p
Tell(v) == told' = Append(told, v)

\* A commit that nobody protects failed: the exception unwinds with the Session as it is.
Breaks == sessionOk' = FALSE /\ faulty' = TRUE
Holds == UNCHANGED <<sessionOk, faulty>>
\* A commit failed under an except clause that rolls back.
RolledBack == faulty' = TRUE /\ UNCHANGED sessionOk
----------------------------------------------------------------------------
(* agent_stream up to the choice of the branch; the user's message is stored. *)
Ask(b) ==
    /\ pc = "idle"
    /\ branch' = b /\ Goto("start")
    /\ UNCHANGED <<path, event, dbVars, told, shown, sessionOk, client, faulty>>

\* A disabled schema skill is an error at once; the query that looks it up is not
\* protected, and its exception ends the stream without a verdict.
Schema ==
    /\ pc = "start" /\ branch = "schema"
    /\ \/ Goto("route") /\ Holds
       \/ Goto("errorRun") /\ Holds
       \/ Goto("end") /\ Breaks
    /\ UNCHANGED <<branch, path, event, dbVars, told, shown, client>>

RouteFails ==
    /\ pc = "route"
    /\ Goto("errorRun")
    /\ Holds \/ Breaks
    /\ UNCHANGED <<branch, path, event, dbVars, told, shown, client>>

\* The failed run is written on whatever Session the route left; its own failure is
\* logged.  No assistant message is stored.
ErrorRun ==
    /\ pc = "errorRun"
    /\ \/ sessionOk /\ run' = "failed" /\ Holds
       \/ Breaks /\ UNCHANGED run
    /\ Tell("error") /\ Goto("end")
    /\ UNCHANGED <<branch, path, event, saved, shown, client>>

CreateRun ==
    /\ pc = "start" /\ branch \in {"agent", "transform"}
    /\ \/ run' = "running" /\ Goto("intent") /\ Holds
       \/ Goto("raise") /\ Breaks /\ UNCHANGED run
    /\ UNCHANGED <<branch, path, event, saved, told, shown, client>>

Intent ==
    /\ pc = "intent"
    /\ \/ Goto("path") /\ path' = "open" /\ Holds
       \/ Goto("raise") /\ Breaks /\ UNCHANGED path
    /\ UNCHANGED <<branch, event, dbVars, told, shown, client>>
----------------------------------------------------------------------------
(* The path's generator, as the runner relies on it. *)
PathEmits(e) ==
    /\ pc = "path" /\ event = "none"
    /\ \/ path = "open" /\ e \in DataEvents \cup Verdicts \cup {"raise"}
       \/ path = "spent" /\ e = "end"
    /\ event' = e
    /\ path' = IF e \in Verdicts THEN "spent" ELSE path
    /\ UNCHANGED <<branch, pc, dbVars, told, shown, sessionOk, client, faulty>>

\* A data event is recorded as a step, then passed on.
Step ==
    /\ pc = "path" /\ event \in DataEvents
    /\ event' = "none"
    /\ \/ shown' = shown \cup {event} /\ UNCHANGED pc /\ Holds
       \/ Goto("raise") /\ Breaks /\ UNCHANGED shown
    /\ UNCHANGED <<branch, path, dbVars, told, client>>

AnswerDue == \/ pc = "path" /\ event = "answer"
             \/ pc = "start" /\ branch = "clarify"
             \/ pc = "route"

\* The answer step and the run's completion; their failure is survived.
Telemetry ==
    /\ AnswerDue
    /\ event' = "none" /\ Goto("save")
    /\ \/ run' = "completed" /\ Holds
       \/ RolledBack /\ UNCHANGED run
    /\ UNCHANGED <<branch, path, saved, told, shown, client>>

\* Mutant: a message that could not be stored is only logged, like the telemetry.
SaveAnyway ==
    /\ pc = "save"
    /\ \/ saved' = "answer" /\ Holds
       \/ RolledBack /\ UNCHANGED saved
    /\ Goto("tokens") /\ UNCHANGED <<branch, path, event, run, told, shown, client>>

\* The assistant's message; the paths then send the answer token by token, the two
\* other branches at once.
Save ==
    /\ pc = "save"
    /\ \/ /\ saved' = "answer" /\ Holds
          /\ \/ branch \in {"agent", "transform"} /\ Goto("tokens") /\ UNCHANGED told
             \/ branch \in {"clarify", "schema"} /\ Goto("end") /\ Tell("done")
       \/ RolledBack /\ Tell("unsaved") /\ Goto("end") /\ UNCHANGED saved
    /\ UNCHANGED <<branch, path, event, run, shown, client>>

Done ==
    /\ pc = "tokens"
    /\ Tell("done") /\ Goto("path")
    /\ UNCHANGED <<branch, path, event, dbVars, shown, sessionOk, client, faulty>>

ErrorCommit ==
    /\ pc = "path" /\ event = "error"
    /\ event' = "none"
    /\ \/ run' = "failed" /\ Goto("saveError") /\ Holds
       \/ Goto("raise") /\ Breaks /\ UNCHANGED run
    /\ UNCHANGED <<branch, path, saved, told, shown, client>>

SaveError ==
    /\ pc = "saveError"
    /\ \/ saved' = "error" /\ Tell("error") /\ Goto("path") /\ Holds
       \/ Goto("raise") /\ Breaks /\ UNCHANGED <<saved, told>>
    /\ UNCHANGED <<branch, path, event, run, shown, client>>

\* Mutant: the end of the generator is taken for a failure.
PathEndRaises ==
    /\ pc = "path" /\ event = "end"
    /\ Goto("raise") /\ event' = "none"
    /\ UNCHANGED <<branch, path, dbVars, told, shown, sessionOk, client, faulty>>

\* Mutant: the end of the generator is not noticed.
PathEndIsMissed ==
    /\ pc = "path" /\ event = "end"
    /\ event' = "none"
    /\ UNCHANGED <<branch, pc, path, dbVars, told, shown, sessionOk, client, faulty>>

PathEnds ==
    /\ pc = "path" /\ event = "end"
    /\ Goto("end") /\ event' = "none"
    /\ UNCHANGED <<branch, path, dbVars, told, shown, sessionOk, client, faulty>>

PathRaises ==
    /\ pc = "path" /\ event = "raise"
    /\ Goto("raise") /\ event' = "none"
    /\ UNCHANGED <<branch, path, dbVars, told, shown, sessionOk, client, faulty>>
----------------------------------------------------------------------------
(* except Exception of run_agent: no rollback before the update. *)
\* Mutant: the exception is logged and nothing is sent.
RecoverSilently ==
    /\ pc = "raise"
    /\ run' = IF run # "none" /\ sessionOk THEN "failed" ELSE run
    /\ Goto("end") /\ Holds
    /\ UNCHANGED <<branch, path, event, saved, told, shown, client>>

Recover ==
    /\ pc = "raise"
    /\ \/ run # "none" /\ sessionOk /\ run' = "failed" /\ Goto("saveRaise") /\ Holds /\ UNCHANGED told
       \/ run # "none" /\ Breaks /\ Tell("error") /\ Goto("end") /\ UNCHANGED run
       \/ run = "none" /\ Holds /\ Tell("error") /\ Goto("end") /\ UNCHANGED run
    /\ UNCHANGED <<branch, path, event, saved, shown, client>>

SaveRaise ==
    /\ pc = "saveRaise"
    /\ \/ saved' = "error" /\ Holds
       \/ Breaks /\ UNCHANGED saved
    /\ Tell("error") /\ Goto("end")
    /\ UNCHANGED <<branch, path, event, run, shown, client>>

ClientLeaves ==
    /\ client = "here" /\ pc \notin Over \cup {"idle"}
    /\ client' = "gone"
    /\ UNCHANGED <<branch, pc, path, event, dbVars, told, shown, sessionOk, faulty>>

(* except CancelledError of run_agent: the await was inside the path. *)
Cancel ==
    /\ client = "gone" /\ branch = "agent"
    /\ pc = "path" /\ path = "open" /\ event = "none"
    /\ Goto("cancel")
    /\ UNCHANGED <<branch, path, event, dbVars, told, shown, sessionOk, client, faulty>>

\* Mutant: a cancelled run is left as it is.
CancelSilently ==
    /\ pc = "cancel"
    /\ Goto("left") /\ Holds
    /\ UNCHANGED <<branch, path, event, dbVars, told, shown, client>>

CancelRun ==
    /\ pc = "cancel"
    /\ \/ run' = "failed" /\ Goto("saveCancel") /\ Holds
       \/ Goto("left") /\ Breaks /\ UNCHANGED run
    /\ UNCHANGED <<branch, path, event, saved, told, shown, client>>

SaveCancel ==
    /\ pc = "saveCancel"
    /\ \/ saved' = "error" /\ Holds
       \/ Breaks /\ UNCHANGED saved
    /\ Goto("left")
    /\ UNCHANGED <<branch, path, event, run, told, shown, client>>

\* The other awaits: the schema route, and the pause after every token.  Nothing is
\* written: run_agent never hears of it.
Abandon ==
    /\ client = "gone" /\ pc \in {"route", "tokens"}
    /\ Goto("left")
    /\ UNCHANGED <<branch, path, event, dbVars, told, shown, sessionOk, client, faulty>>

Crash ==
    /\ pc \notin Over \cup {"idle"}
    /\ Goto("dead")
    /\ UNCHANGED <<branch, path, event, dbVars, told, shown, sessionOk, client, faulty>>
----------------------------------------------------------------------------
\* What the request does by itself once it has been asked.
Bookkeeping ==
    \/ Schema \/ RouteFails \/ ErrorRun \/ CreateRun \/ Intent
    \/ Step \/ Telemetry \/ Save \/ Done \/ ErrorCommit \/ SaveError
    \/ PathEnds \/ PathRaises \/ Recover \/ SaveRaise
    \/ CancelRun \/ SaveCancel

Environment == (\E b \in Branches : Ask(b)) \/ ClientLeaves \/ Abandon \/ Crash

PathSteps == (\E e \in DataEvents \cup Verdicts \cup {"raise", "end"} : PathEmits(e)) \/ Cancel

Next == Bookkeeping \/ Environment \/ PathSteps

Spec == Init /\ [][Next]_vars
----------------------------------------------------------------------------
TypeOK ==
    /\ branch \in Branches \cup {"none"} /\ pc \in Places
    /\ path \in {"closed", "open", "spent"}
    /\ event \in DataEvents \cup Verdicts \cup {"none", "raise", "end"}
    /\ run \in Ended \cup {"none", "running"}
    /\ saved \in {"none", "answer", "error"}
    /\ told \in Seq({"done", "error", "unsaved"})
    /\ shown \subseteq DataEvents
    /\ sessionOk \in BOOLEAN /\ faulty \in BOOLEAN /\ client \in {"here", "gone"}

\* "Yield a synthetic done event only after assistant history is durable"
\* (runner.py:808), the refinement of AgentPromise: a stream has at most one verdict,
\* and it agrees with the stored message whatever failed on the way.
Promise == INSTANCE AgentPromise WITH told <- told, saved <- saved, over <- (pc \in Over)
KeepsPromise == Promise!Spec

\* A verdict and the run row agree: no failed run was announced as done, and no
\* completed run as an error, except that its message could not be stored.
VerdictMatchesRun ==
    /\ told = <<"done">> => run # "failed"
    /\ told = <<"error">> => run # "completed"

\* A stream that came to its end has told its verdict; only the unprotected query of
\* the schema branch ends one in silence.
EndIsTold == pc = "end" => told # <<>> \/ (branch = "schema" /\ faulty)

\* No job ever ends the runs that are left "running": the request itself must, unless
\* a commit failed or the process died.
NoRunIsLeftRunning == pc \in {"end", "left"} /\ run = "running" => faulty

\* The stream, the row of the run and the end of the request agree, whatever commit
\* failed and wherever the client left (runner.py:744, :873).
RunAndStreamAgree == VerdictMatchesRun /\ EndIsTold /\ NoRunIsLeftRunning

\* A run that ended keeps its end: neither the exception handler nor the cancellation
\* overwrites a completed run.
EndedRunStays == [][run' = run \/ run \notin Ended]_vars
============================================================================

------------------------ MODULE AgentService_proofs ------------------------
(***************************************************************************)
(* Proofs about the Data Agent: the bookkeeping of one question (AgentRun), *)
(* the calls its paths make (AgentPaths), and the two together.            *)
(***************************************************************************)
EXTENDS AgentService, SequenceTheorems, TLAPS

Fresh == told = <<>> /\ saved = "none"

\* The verdict has been handed over and the generator has only its end to give.
Settled == path = "spent" /\ event \in {"none", "end"}

\* TypeOK, with its Boolean flags apart.
Shape == /\ branch \in Branches \cup {"none"} /\ pc \in Places
         /\ path \in {"closed", "open", "spent"}
         /\ event \in DataEvents \cup Verdicts \cup {"none", "raise", "end"}
         /\ run \in Ended \cup {"none", "running"}
         /\ saved \in {"none", "answer", "error"}
         /\ told \in Seq({"done", "error", "unsaved"})
         /\ shown \subseteq DataEvents /\ client \in {"here", "gone"}
Flags == sessionOk \in BOOLEAN /\ faulty \in BOOLEAN

\* Nothing is told or stored before its place.
BeforeVerdict ==
    /\ pc \in {"idle", "start", "intent", "save", "saveError", "raise", "saveRaise",
               "cancel", "saveCancel", "route", "errorRun"} => Fresh
    /\ pc = "tokens" => told = <<>> /\ saved = "answer"
    /\ pc = "left" => told = <<>>

\* Inside the path: what the verdict was, once the path is settled.
InPath ==
    pc = "path" =>
        /\ event \in DataEvents \cup {"raise"} => path = "open"
        /\ event \in Verdicts \cup {"end"} => path = "spent"
        /\ path # "closed"
        /\ ~Settled => Fresh /\ run = "running"
        /\ Settled => \/ told = <<"done">> /\ saved = "answer" /\ run # "failed"
                         /\ (run = "completed" \/ faulty)
                      \/ told = <<"error">> /\ saved = "error" /\ run = "failed"

\* The row of the run at each place.
RunAt ==
    /\ pc \in {"idle", "start", "route", "errorRun"} => run = "none"
    /\ pc \in {"intent", "cancel"} => run = "running"
    /\ pc \in {"saveError", "saveRaise", "saveCancel"} => run = "failed"
    /\ pc \in {"save", "tokens"} => run # "failed" /\ (run = "completed" \/ faulty)
    /\ pc = "raise" => run # "completed"
    /\ ~sessionOk => faulty

\* Which branch is where, and what the generator is then doing.
BranchAt ==
    /\ pc \in {"idle", "start", "intent"} => path = "closed" /\ event = "none"
    /\ pc \in {"intent", "path", "tokens", "saveError"} => branch \in {"agent", "transform"}
    /\ pc = "route" => branch = "schema"
    /\ pc \in {"save", "tokens", "saveError"} /\ branch \in {"agent", "transform"} =>
           path = "spent" /\ event = "none"
    /\ pc \notin {"idle"} => branch \in Branches

RunInv == /\ Shape /\ Flags /\ BeforeVerdict /\ InPath /\ RunAt /\ BranchAt
          /\ VerdictMatchesRun /\ EndIsTold /\ NoRunIsLeftRunning

LEMMA FirstVerdict == \A v : Append(<<>>, v) = <<v>>
  OBVIOUS

LEMMA InitRun == Init => RunInv
<1> SUFFICES ASSUME Init PROVE RunInv
  OBVIOUS
<1> USE DEF Init, Branches, DataEvents, Verdicts, Over, Places, Ended
<1>1. Shape
  BY DEF Shape
<1>2. Flags
  BY DEF Flags
<1>3. BeforeVerdict /\ InPath /\ RunAt /\ BranchAt
  BY DEF BeforeVerdict, InPath, RunAt, BranchAt, Fresh, Settled
<1>4. VerdictMatchesRun /\ EndIsTold /\ NoRunIsLeftRunning
  BY DEF VerdictMatchesRun, EndIsTold, NoRunIsLeftRunning
<1> QED BY <1>1, <1>2, <1>3, <1>4 DEF RunInv

\* Every step of the bookkeeping, of the path and of the environment keeps RunInv.
LEMMA StepRun == RunInv /\ [Next]_vars => RunInv'
<1> SUFFICES ASSUME RunInv, [Next]_vars PROVE RunInv'
  OBVIOUS
<1> USE DEF Branches, DataEvents, Verdicts, Over, Places, Ended, Goto, Tell, dbVars, Breaks, Holds, RolledBack
<1> DEFINE Rest == BeforeVerdict /\ InPath /\ RunAt /\ BranchAt
                   /\ VerdictMatchesRun /\ EndIsTold /\ NoRunIsLeftRunning
<1>1. CASE \E b \in Branches : Ask(b)
  <2>1. Shape'
    BY <1>1, FirstVerdict DEF RunInv, Ask, Shape
  <2>2. Flags'
    BY <1>1 DEF RunInv, Ask, Flags
  <2>3. Rest'
    BY <1>1, FirstVerdict DEF RunInv, Ask, BeforeVerdict, InPath, RunAt, BranchAt, VerdictMatchesRun, EndIsTold, NoRunIsLeftRunning, Fresh, Settled
  <2> QED BY <2>1, <2>2, <2>3 DEF RunInv
<1>2. CASE Schema
  <2>1. Shape'
    BY <1>2, FirstVerdict DEF RunInv, Schema, Shape
  <2>2. Flags'
    BY <1>2 DEF RunInv, Schema, Flags
  <2>3. Rest'
    BY <1>2, FirstVerdict DEF RunInv, Schema, BeforeVerdict, InPath, RunAt, BranchAt, VerdictMatchesRun, EndIsTold, NoRunIsLeftRunning, Fresh, Settled
  <2> QED BY <2>1, <2>2, <2>3 DEF RunInv
<1>3. CASE RouteFails
  <2>1. Shape'
    BY <1>3, FirstVerdict DEF RunInv, RouteFails, Shape
  <2>2. Flags'
    BY <1>3 DEF RunInv, RouteFails, Flags
  <2>3. Rest'
    BY <1>3, FirstVerdict DEF RunInv, RouteFails, BeforeVerdict, InPath, RunAt, BranchAt, VerdictMatchesRun, EndIsTold, NoRunIsLeftRunning, Fresh, Settled
  <2> QED BY <2>1, <2>2, <2>3 DEF RunInv
<1>4. CASE ErrorRun
  <2>1. Shape'
    BY <1>4, FirstVerdict DEF RunInv, ErrorRun, Shape
  <2>2. Flags'
    BY <1>4 DEF RunInv, ErrorRun, Flags
  <2>3. Rest'
    BY <1>4, FirstVerdict DEF RunInv, ErrorRun, BeforeVerdict, InPath, RunAt, BranchAt, VerdictMatchesRun, EndIsTold, NoRunIsLeftRunning, Fresh, Settled
  <2> QED BY <2>1, <2>2, <2>3 DEF RunInv
<1>5. CASE CreateRun
  <2>1. Shape'
    BY <1>5, FirstVerdict DEF RunInv, CreateRun, Shape
  <2>2. Flags'
    BY <1>5 DEF RunInv, CreateRun, Flags
  <2>3. Rest'
    BY <1>5, FirstVerdict DEF RunInv, CreateRun, BeforeVerdict, InPath, RunAt, BranchAt, VerdictMatchesRun, EndIsTold, NoRunIsLeftRunning, Fresh, Settled
  <2> QED BY <2>1, <2>2, <2>3 DEF RunInv
<1>6. CASE Intent
  <2>1. Shape'
    BY <1>6, FirstVerdict DEF RunInv, Intent, Shape
  <2>2. Flags'
    BY <1>6 DEF RunInv, Intent, Flags
  <2>3. Rest'
    BY <1>6, FirstVerdict DEF RunInv, Intent, BeforeVerdict, InPath, RunAt, BranchAt, VerdictMatchesRun, EndIsTold, NoRunIsLeftRunning, Fresh, Settled
  <2> QED BY <2>1, <2>2, <2>3 DEF RunInv
<1>7. CASE \E e \in DataEvents \cup Verdicts \cup {"raise", "end"} : PathEmits(e)
  <2>1. Shape'
    BY <1>7, FirstVerdict DEF RunInv, PathEmits, Shape
  <2>2. Flags'
    BY <1>7 DEF RunInv, PathEmits, Flags
  <2>3. Rest'
    BY <1>7, FirstVerdict DEF RunInv, PathEmits, BeforeVerdict, InPath, RunAt, BranchAt, VerdictMatchesRun, EndIsTold, NoRunIsLeftRunning, Fresh, Settled
  <2> QED BY <2>1, <2>2, <2>3 DEF RunInv
<1>8. CASE Step
  <2>1. Shape'
    BY <1>8, FirstVerdict DEF RunInv, Step, Shape
  <2>2. Flags'
    BY <1>8 DEF RunInv, Step, Flags
  <2>3. Rest'
    BY <1>8, FirstVerdict DEF RunInv, Step, BeforeVerdict, InPath, RunAt, BranchAt, VerdictMatchesRun, EndIsTold, NoRunIsLeftRunning, Fresh, Settled
  <2> QED BY <2>1, <2>2, <2>3 DEF RunInv
<1>9. CASE Telemetry
  <2>1. Shape'
    BY <1>9, FirstVerdict DEF RunInv, Telemetry, AnswerDue, Shape
  <2>2. Flags'
    BY <1>9 DEF RunInv, Telemetry, AnswerDue, Flags
  <2>3. Rest'
    BY <1>9, FirstVerdict DEF RunInv, Telemetry, AnswerDue, BeforeVerdict, InPath, RunAt, BranchAt, VerdictMatchesRun, EndIsTold, NoRunIsLeftRunning, Fresh, Settled
  <2> QED BY <2>1, <2>2, <2>3 DEF RunInv
<1>10. CASE Save
  <2>1. Shape'
    BY <1>10, FirstVerdict DEF RunInv, Save, Shape
  <2>2. Flags'
    BY <1>10 DEF RunInv, Save, Flags
  <2>3. Rest'
    BY <1>10, FirstVerdict DEF RunInv, Save, BeforeVerdict, InPath, RunAt, BranchAt, VerdictMatchesRun, EndIsTold, NoRunIsLeftRunning, Fresh, Settled
  <2> QED BY <2>1, <2>2, <2>3 DEF RunInv
<1>11. CASE Done
  <2>1. Shape'
    BY <1>11, FirstVerdict DEF RunInv, Done, Shape
  <2>2. Flags'
    BY <1>11 DEF RunInv, Done, Flags
  <2>3. Rest'
    BY <1>11, FirstVerdict DEF RunInv, Done, BeforeVerdict, InPath, RunAt, BranchAt, VerdictMatchesRun, EndIsTold, NoRunIsLeftRunning, Fresh, Settled
  <2> QED BY <2>1, <2>2, <2>3 DEF RunInv
<1>12. CASE ErrorCommit
  <2>1. Shape'
    BY <1>12, FirstVerdict DEF RunInv, ErrorCommit, Shape
  <2>2. Flags'
    BY <1>12 DEF RunInv, ErrorCommit, Flags
  <2>3. Rest'
    BY <1>12, FirstVerdict DEF RunInv, ErrorCommit, BeforeVerdict, InPath, RunAt, BranchAt, VerdictMatchesRun, EndIsTold, NoRunIsLeftRunning, Fresh, Settled
  <2> QED BY <2>1, <2>2, <2>3 DEF RunInv
<1>13. CASE SaveError
  <2>1. Shape'
    BY <1>13, FirstVerdict DEF RunInv, SaveError, Shape
  <2>2. Flags'
    BY <1>13 DEF RunInv, SaveError, Flags
  <2>3. Rest'
    BY <1>13, FirstVerdict DEF RunInv, SaveError, BeforeVerdict, InPath, RunAt, BranchAt, VerdictMatchesRun, EndIsTold, NoRunIsLeftRunning, Fresh, Settled
  <2> QED BY <2>1, <2>2, <2>3 DEF RunInv
<1>14. CASE PathEnds
  <2>1. Shape'
    BY <1>14, FirstVerdict DEF RunInv, PathEnds, Shape
  <2>2. Flags'
    BY <1>14 DEF RunInv, PathEnds, Flags
  <2>3. Rest'
    BY <1>14, FirstVerdict DEF RunInv, PathEnds, BeforeVerdict, InPath, RunAt, BranchAt, VerdictMatchesRun, EndIsTold, NoRunIsLeftRunning, Fresh, Settled
  <2> QED BY <2>1, <2>2, <2>3 DEF RunInv
<1>15. CASE PathRaises
  <2>1. Shape'
    BY <1>15, FirstVerdict DEF RunInv, PathRaises, Shape
  <2>2. Flags'
    BY <1>15 DEF RunInv, PathRaises, Flags
  <2>3. Rest'
    BY <1>15, FirstVerdict DEF RunInv, PathRaises, BeforeVerdict, InPath, RunAt, BranchAt, VerdictMatchesRun, EndIsTold, NoRunIsLeftRunning, Fresh, Settled
  <2> QED BY <2>1, <2>2, <2>3 DEF RunInv
<1>16. CASE Recover
  <2>1. Shape'
    BY <1>16, FirstVerdict DEF RunInv, Recover, Shape
  <2>2. Flags'
    BY <1>16 DEF RunInv, Recover, Flags
  <2>3. Rest'
    BY <1>16, FirstVerdict DEF RunInv, Recover, BeforeVerdict, InPath, RunAt, BranchAt, VerdictMatchesRun, EndIsTold, NoRunIsLeftRunning, Fresh, Settled
  <2> QED BY <2>1, <2>2, <2>3 DEF RunInv
<1>17. CASE SaveRaise
  <2>1. Shape'
    BY <1>17, FirstVerdict DEF RunInv, SaveRaise, Shape
  <2>2. Flags'
    BY <1>17 DEF RunInv, SaveRaise, Flags
  <2>3. Rest'
    BY <1>17, FirstVerdict DEF RunInv, SaveRaise, BeforeVerdict, InPath, RunAt, BranchAt, VerdictMatchesRun, EndIsTold, NoRunIsLeftRunning, Fresh, Settled
  <2> QED BY <2>1, <2>2, <2>3 DEF RunInv
<1>18. CASE ClientLeaves
  <2>1. Shape'
    BY <1>18, FirstVerdict DEF RunInv, ClientLeaves, Shape
  <2>2. Flags'
    BY <1>18 DEF RunInv, ClientLeaves, Flags
  <2>3. Rest'
    BY <1>18, FirstVerdict DEF RunInv, ClientLeaves, BeforeVerdict, InPath, RunAt, BranchAt, VerdictMatchesRun, EndIsTold, NoRunIsLeftRunning, Fresh, Settled
  <2> QED BY <2>1, <2>2, <2>3 DEF RunInv
<1>19. CASE Cancel
  <2>1. Shape'
    BY <1>19, FirstVerdict DEF RunInv, Cancel, Shape
  <2>2. Flags'
    BY <1>19 DEF RunInv, Cancel, Flags
  <2>3. Rest'
    BY <1>19, FirstVerdict DEF RunInv, Cancel, BeforeVerdict, InPath, RunAt, BranchAt, VerdictMatchesRun, EndIsTold, NoRunIsLeftRunning, Fresh, Settled
  <2> QED BY <2>1, <2>2, <2>3 DEF RunInv
<1>20. CASE CancelRun
  <2>1. Shape'
    BY <1>20, FirstVerdict DEF RunInv, CancelRun, Shape
  <2>2. Flags'
    BY <1>20 DEF RunInv, CancelRun, Flags
  <2>3. Rest'
    BY <1>20, FirstVerdict DEF RunInv, CancelRun, BeforeVerdict, InPath, RunAt, BranchAt, VerdictMatchesRun, EndIsTold, NoRunIsLeftRunning, Fresh, Settled
  <2> QED BY <2>1, <2>2, <2>3 DEF RunInv
<1>21. CASE SaveCancel
  <2>1. Shape'
    BY <1>21, FirstVerdict DEF RunInv, SaveCancel, Shape
  <2>2. Flags'
    BY <1>21 DEF RunInv, SaveCancel, Flags
  <2>3. Rest'
    BY <1>21, FirstVerdict DEF RunInv, SaveCancel, BeforeVerdict, InPath, RunAt, BranchAt, VerdictMatchesRun, EndIsTold, NoRunIsLeftRunning, Fresh, Settled
  <2> QED BY <2>1, <2>2, <2>3 DEF RunInv
<1>22. CASE Abandon
  <2>1. Shape'
    BY <1>22, FirstVerdict DEF RunInv, Abandon, Shape
  <2>2. Flags'
    BY <1>22 DEF RunInv, Abandon, Flags
  <2>3. Rest'
    BY <1>22, FirstVerdict DEF RunInv, Abandon, BeforeVerdict, InPath, RunAt, BranchAt, VerdictMatchesRun, EndIsTold, NoRunIsLeftRunning, Fresh, Settled
  <2> QED BY <2>1, <2>2, <2>3 DEF RunInv
<1>23. CASE Crash
  <2>1. Shape'
    BY <1>23, FirstVerdict DEF RunInv, Crash, Shape
  <2>2. Flags'
    BY <1>23 DEF RunInv, Crash, Flags
  <2>3. Rest'
    BY <1>23, FirstVerdict DEF RunInv, Crash, BeforeVerdict, InPath, RunAt, BranchAt, VerdictMatchesRun, EndIsTold, NoRunIsLeftRunning, Fresh, Settled
  <2> QED BY <2>1, <2>2, <2>3 DEF RunInv
<1>24. CASE UNCHANGED vars
  BY <1>24 DEF vars, RunInv, Shape, Flags, BeforeVerdict, InPath, RunAt, BranchAt, VerdictMatchesRun, EndIsTold, NoRunIsLeftRunning, Fresh, Settled
<1> QED BY <1>1, <1>2, <1>3, <1>4, <1>5, <1>6, <1>7, <1>8, <1>9, <1>10, <1>11, <1>12, <1>13, <1>14, <1>15, <1>16, <1>17, <1>18, <1>19, <1>20, <1>21, <1>22, <1>23, <1>24 DEF Next, Bookkeeping, Environment, PathSteps

LEMMA RunInvariant == Spec => []RunInv
<1>1. Init => RunInv
  BY InitRun
<1>2. RunInv /\ [Next]_vars => RunInv'
  BY StepRun
<1> QED BY <1>1, <1>2, PTL DEF Spec

LEMMA ShapeAndFlags == RunInv => TypeOK
  BY DEF RunInv, Shape, Flags, TypeOK

\* The state of one question keeps its type.
THEOREM RunTypeCorrect == Spec => []TypeOK
<1>1. RunInv => TypeOK
  BY ShapeAndFlags
<1> QED BY <1>1, RunInvariant, PTL

\* Failures of any commit, cancellations and crashes included, the verdict of the stream
\* and the row of the run agree.
THEOREM VerdictsMatch == Spec => []VerdictMatchesRun
<1>1. RunInv => VerdictMatchesRun
  BY DEF RunInv
<1> QED BY <1>1, RunInvariant, PTL

\* Only the schema branch's unprotected query can end a stream in silence.
THEOREM EndsAreTold == Spec => []EndIsTold
<1>1. RunInv => EndIsTold
  BY DEF RunInv
<1> QED BY <1>1, RunInvariant, PTL

\* A run stays "running" after its request only when a commit failed or the process died.
THEOREM RunsEnd == Spec => []NoRunIsLeftRunning
<1>1. RunInv => NoRunIsLeftRunning
  BY DEF RunInv
<1> QED BY <1>1, RunInvariant, PTL

\* At any end of a question its stream and its row agree.
THEOREM RunsAndStreamsAgree == Spec => []RunAndStreamAgree
<1>1. VerdictMatchesRun /\ EndIsTold /\ NoRunIsLeftRunning => RunAndStreamAgree
  BY DEF RunAndStreamAgree
<1> QED BY <1>1, VerdictsMatch, EndsAreTold, RunsEnd, PTL

\* A step leaves the row of an ended run alone.
LEMMA EndedStep == RunInv /\ [Next]_vars => (run' = run \/ run \notin Ended)
<1> SUFFICES ASSUME RunInv, [Next]_vars, run \in Ended PROVE run' = run
  OBVIOUS
<1> USE DEF RunInv, RunAt, InPath, Settled, Ended, Verdicts, DataEvents, dbVars
<1>1. CASE Telemetry
  <2>1. CASE pc = "path" /\ event = "answer"
    BY <2>1
  <2>2. CASE pc = "start" \/ pc = "route"
    BY <2>2
  <2> QED BY <1>1, <2>1, <2>2 DEF Telemetry, AnswerDue
<1>2. CASE ErrorCommit
  BY <1>2 DEF ErrorCommit
<1>3. CASE Recover
  BY <1>3 DEF Recover
<1>4. CASE CancelRun
  BY <1>4 DEF CancelRun
<1>5. CASE ErrorRun
  BY <1>5 DEF ErrorRun
<1>6. CASE CreateRun
  BY <1>6 DEF CreateRun
<1>7. CASE Schema \/ RouteFails \/ Intent \/ Step \/ Save \/ Done \/ SaveError \/ PathEnds
            \/ PathRaises \/ SaveRaise \/ SaveCancel
  BY <1>7 DEF Schema, RouteFails, Intent, Step, Save, Done, SaveError, PathEnds, PathRaises,
              SaveRaise, SaveCancel
<1>8. CASE Environment
  BY <1>8 DEF Environment, Ask, ClientLeaves, Abandon, Crash
<1>9. CASE PathSteps
  BY <1>9 DEF PathSteps, PathEmits, Cancel
<1>10. CASE UNCHANGED vars
  BY <1>10 DEF vars
<1> QED BY <1>1, <1>2, <1>3, <1>4, <1>5, <1>6, <1>7, <1>8, <1>9, <1>10 DEF Next, Bookkeeping

\* Neither an exception nor a cancellation overwrites a run that ended.
THEOREM EndedRunsStay == Spec => EndedRunStays
<1>1. RunInv /\ [Next]_vars => [run' = run \/ run \notin Ended]_vars
  BY EndedStep
<1> QED BY <1>1, RunInvariant, PTL DEF Spec, EndedRunStays

\* Init implements AgentPromise's.
LEMMA PromiseInit == Init => Promise!Init
  BY DEF Init, Promise!Init, Over

\* Every step implements one of AgentPromise, or changes nothing it speaks of.
LEMMA PromiseStep == RunInv /\ [Next]_vars => [Promise!Next]_(Promise!promiseVars)
<1> SUFFICES ASSUME RunInv, [Next]_vars
             PROVE  Promise!Next \/ UNCHANGED <<told, saved, (pc \in Over)>>
  BY DEF Promise!promiseVars
<1> USE DEF Promise!Next, Promise!Store, Promise!Tell, Promise!Agrees, Over, Goto, Tell, dbVars
<1>1. CASE ErrorRun
  BY <1>1, FirstVerdict DEF ErrorRun, RunInv, BeforeVerdict, Fresh
<1>2. CASE Save
  BY <1>2, FirstVerdict DEF Save, RunInv, BeforeVerdict, Fresh
<1>3. CASE Done
  BY <1>3, FirstVerdict DEF Done, RunInv, BeforeVerdict
<1>4. CASE SaveError
  BY <1>4, FirstVerdict DEF SaveError, RunInv, BeforeVerdict, Fresh
<1>5. CASE Recover
  BY <1>5, FirstVerdict DEF Recover, RunInv, BeforeVerdict, Fresh
<1>6. CASE SaveRaise
  BY <1>6, FirstVerdict DEF SaveRaise, RunInv, BeforeVerdict, Fresh
<1>7. CASE SaveCancel
  BY <1>7 DEF SaveCancel, RunInv, BeforeVerdict, Fresh
<1>8. CASE Schema \/ RouteFails \/ CreateRun \/ Intent \/ Step \/ Telemetry \/ ErrorCommit
            \/ PathEnds \/ PathRaises \/ CancelRun
  BY <1>8 DEF Schema, RouteFails, CreateRun, Intent, Step, Telemetry, AnswerDue, ErrorCommit,
              PathEnds, PathRaises, CancelRun
<1>9. CASE Environment
  BY <1>9 DEF Environment, Ask, ClientLeaves, Abandon, Crash
<1>10. CASE PathSteps
  BY <1>10 DEF PathSteps, PathEmits, Cancel
<1>11. CASE UNCHANGED vars
  BY <1>11 DEF vars
<1> QED BY <1>1, <1>2, <1>3, <1>4, <1>5, <1>6, <1>7, <1>8, <1>9, <1>10, <1>11
        DEF Next, Bookkeeping

\* The bookkeeping implements the promise made to the caller.
THEOREM RunKeepsPromise == Spec => KeepsPromise
<1>1. Init => Promise!Init
  BY PromiseInit
<1>2. RunInv /\ [Next]_vars => [Promise!Next]_(Promise!promiseVars)
  BY PromiseStep
<1> QED BY <1>1, <1>2, RunInvariant, PTL DEF Spec, KeepsPromise, Promise!Spec
-----------------------------------------------------------------------------
(* The calls of a path, by what its loops have used up so far. *)
PerTurn == MaxToolRetries + 1

EngineCalls ==
    /\ at \in {"head", "think", "tool", "forced", "over"} /\ step <= MaxSteps
    /\ at \in {"head", "think"} => calls <= step * PerTurn
    /\ at = "think" => step < MaxSteps /\ attempt = 0
    /\ at \in {"tool", "forced"} => /\ step < MaxSteps /\ attempt <= MaxToolRetries
                                    /\ calls <= step * PerTurn + attempt + 1
    /\ at = "over" => calls <= MaxSteps * PerTurn

ProxyCalls ==
    /\ at \in {"open", "assets", "compile", "plan", "over"} \cup AwaitsProxy
    /\ at \in {"open", "assets", "compile"} => calls = 0
    /\ at = "plan" => calls <= 2
    /\ calls <= 3

Repaired == RepairBudget - budget

\* What the lookups and the preflight may have asked before the host begins.
BeforeHost == 3 * PreflightSteps + 1

FirstCalls ==
    /\ at \in {"open", "over"} \cup AwaitsFirst
    /\ budget <= RepairBudget
    /\ at = "open" => calls = 0 /\ attempt = 0
    /\ at = "preflight" => /\ step < PreflightSteps /\ attempt <= 1
                           /\ calls <= 3 * step + 2 * attempt + 2
    /\ at = "components" => calls <= BeforeHost
    /\ at = "metaCall" => calls <= BeforeHost + 2
    /\ at \in {"open", "preflight", "components", "metaCall"} => budget = RepairBudget
    /\ at \in {"open", "components", "metaCall"} => step = 0
    /\ at = "planner" => step <= MaxToolCalls /\ calls <= BeforeHost + 2 + step + Repaired
    /\ at = "hostCall" => step < MaxToolCalls /\ calls <= BeforeHost + 3 + step + Repaired
    /\ at = "thin" => calls <= BeforeHost + 2 + MaxToolCalls + RepairBudget
    /\ calls <= BeforeHost + 3 + MaxToolCalls + RepairBudget

CallsInv ==
    /\ kind \in Kinds \cup {"none"}
    /\ step \in Nat /\ attempt \in Nat /\ budget \in Nat /\ calls \in Nat
    /\ kind = "none" => at = "over" /\ calls = 0 /\ step = 0 /\ attempt = 0 /\ budget = RepairBudget
    /\ kind = "transform" => at \in {"transform", "over"} /\ calls = 0
    /\ kind = "engine" => EngineCalls
    /\ kind = "proxy" => ProxyCalls
    /\ kind = "first" => FirstCalls

LEMMA OneMoreTurn ==
  ASSUME NEW n \in Nat, n < MaxSteps
  PROVE  n * PerTurn + PerTurn <= MaxSteps * PerTurn
<1>1. PerTurn \in Nat /\ MaxSteps \in Nat
  BY EngineAssumption DEF PerTurn
<1>2. \A a, b, w \in Nat : a < b => a * w + w <= b * w
  <2> SUFFICES ASSUME NEW a \in Nat, NEW b \in Nat, NEW w \in Nat, a < b
               PROVE  a * w + w <= b * w
    OBVIOUS
  <2>1. PICK k \in Nat : b = a + 1 + k
    <3>1. b - a - 1 \in Nat /\ b = a + 1 + (b - a - 1)
      OBVIOUS
    <3> QED BY <3>1
  <2>2. b * w = a * w + w + k * w
    BY <2>1
  <2>3. k * w \in Nat /\ a * w \in Nat
    OBVIOUS
  <2> QED BY <2>2, <2>3
<1> QED BY <1>1, <1>2

LEMMA CallsInit == PathInit => CallsInv
  BY HostAssumption DEF PathInit, CallsInv, Kinds

LEMMA CallsStart ==
  ASSUME CallsInv, NEW k \in Kinds, StartPath(k)
  PROVE  CallsInv'
<1>1. kind' = k /\ at' = Entry[k] /\ calls' = 0 /\ step' = 0 /\ budget' = RepairBudget
      /\ attempt' = 0
  BY DEF StartPath, CallsInv
<1>2. /\ 0 * PerTurn = 0 /\ 0 <= MaxSteps /\ 0 <= MaxToolCalls /\ 0 <= RepairBudget
      /\ BeforeHost \in Nat
  BY EngineAssumption, HostAssumption, PreflightAssumption DEF PerTurn, BeforeHost
<1>3. CASE k = "engine"
  BY <1>1, <1>2, <1>3, HostAssumption, EngineAssumption DEF CallsInv, EngineCalls, Entry, Kinds
<1>4. CASE k = "proxy"
  BY <1>1, <1>4, HostAssumption DEF CallsInv, ProxyCalls, Entry, Kinds
<1>5. CASE k = "first"
  BY <1>1, <1>2, <1>5, HostAssumption DEF CallsInv, FirstCalls, Entry, Repaired, AwaitsFirst, Kinds
<1>6. CASE k = "transform"
  BY <1>1, <1>6, HostAssumption DEF CallsInv, Entry, Kinds
<1> QED BY <1>3, <1>4, <1>5, <1>6 DEF Kinds

LEMMA CallsEngine ==
  ASSUME CallsInv, EngineStep
  PROVE  CallsInv'
<1> USE DEF Turn, Ends, Continues, Quietly, NoCall, OneCall
<1>1. kind = "engine" /\ kind' = "engine" /\ EngineCalls
  BY DEF CallsInv, EngineStep, LoopHead, Think, ToolAgain, ToolFails, ToolReturns, Kinds,
         ProxyCalls, FirstCalls, AwaitsProxy, AwaitsFirst
<1>2. /\ PerTurn = MaxToolRetries + 1 /\ MaxToolRetries \in Nat /\ MaxSteps \in Nat \ {0}
      /\ PerTurn \in Nat
  BY EngineAssumption DEF PerTurn
<1>3. /\ step * PerTurn \in Nat /\ MaxSteps * PerTurn \in Nat
      /\ (step + 1) * PerTurn = step * PerTurn + PerTurn
      /\ step < MaxSteps => step * PerTurn + PerTurn <= MaxSteps * PerTurn
      /\ step <= MaxSteps => step * PerTurn <= MaxSteps * PerTurn
  <2>1. step \in Nat
    BY DEF CallsInv
  <2>2. step < MaxSteps => step * PerTurn + PerTurn <= MaxSteps * PerTurn
    BY <2>1, OneMoreTurn
  <2>3. (step + 1) * PerTurn = step * PerTurn + PerTurn
    BY <2>1, <1>2
  <2>4. step * PerTurn \in Nat /\ MaxSteps * PerTurn \in Nat
    BY <2>1, <1>2
  <2>5. step <= MaxSteps => step < MaxSteps \/ step = MaxSteps
    BY <2>1, <1>2
  <2> QED BY <2>1, <2>2, <2>3, <2>4, <2>5, <1>2
<1>4. step \in Nat /\ attempt \in Nat /\ budget \in Nat /\ calls \in Nat
  BY DEF CallsInv
<1> HIDE DEF PerTurn
<1>5. CASE LoopHead
  BY <1>1, <1>2, <1>3, <1>4, <1>5 DEF LoopHead, CallsInv, EngineCalls
<1>6. CASE Think
  BY <1>1, <1>2, <1>3, <1>4, <1>6 DEF Think, CallsInv, EngineCalls
<1>7. CASE ToolAgain
  BY <1>1, <1>2, <1>3, <1>4, <1>7 DEF ToolAgain, MayRetry, CallsInv, EngineCalls
<1>8. CASE ToolFails
  BY <1>1, <1>2, <1>3, <1>4, <1>8 DEF ToolFails, CallsInv, EngineCalls
<1>9. CASE ToolReturns
  BY <1>1, <1>2, <1>3, <1>4, <1>9 DEF ToolReturns, CallsInv, EngineCalls
<1> QED BY <1>5, <1>6, <1>7, <1>8, <1>9 DEF EngineStep

LEMMA CallsProxy ==
  ASSUME CallsInv, ProxyStep
  PROVE  CallsInv'
<1> USE DEF Turn, Ends, Continues, Quietly, Raises, NoCall, OneCall, Calls
<1>1. kind = "proxy" /\ kind' = "proxy" /\ ProxyCalls
  BY DEF CallsInv, ProxyStep, OpenProxy, Assets, AssetCall, Compile, Plan, QueryCall, Kinds,
         EngineCalls, FirstCalls, AwaitsFirst
<1>2. step' = step /\ attempt' = attempt /\ budget' = budget
  BY DEF ProxyStep, OpenProxy, Assets, AssetCall, Compile, Plan, QueryCall
<1>3. calls \in Nat
  BY DEF CallsInv
<1> USE DEF ProxyCalls, AwaitsProxy
<1>4. CASE OpenProxy \/ AssetCall
  BY <1>1, <1>2, <1>3, <1>4 DEF OpenProxy, AssetCall, CallsInv
<1>5. CASE Assets
  BY <1>1, <1>2, <1>3, <1>5 DEF Assets, CallsInv
<1>6. CASE Compile
  BY <1>1, <1>2, <1>3, <1>6 DEF Compile, CallsInv
<1>7. CASE Plan
  BY <1>1, <1>2, <1>3, <1>7 DEF Plan, CallsInv
<1>8. CASE \E result \in Results : QueryCall(result)
  BY <1>1, <1>2, <1>3, <1>8 DEF QueryCall, CallsInv
<1> QED BY <1>4, <1>5, <1>6, <1>7, <1>8 DEF ProxyStep

LEMMA CallsFirst ==
  ASSUME CallsInv, FirstStep
  PROVE  CallsInv'
<1> USE DEF Turn, Ends, Continues, Quietly, NoCall, OneCall, Calls, GivesUp
<1>1. kind = "first" /\ kind' = "first" /\ FirstCalls
  BY DEF CallsInv, FirstStep, OpenFirst, PreflightReturns, PreflightDate, PreflightFails, Components,
         MetaCall, Planner, HostRetry, HostFails, HostReturns, Thin, ThinCall, Kinds, EngineCalls,
         ProxyCalls, AwaitsProxy
<1>2. /\ step \in Nat /\ attempt \in Nat /\ budget \in Nat /\ calls \in Nat
      /\ MaxToolCalls \in Nat \ {0} /\ RepairBudget \in Nat /\ PreflightSteps \in Nat \ {0}
      /\ BeforeHost = 3 * PreflightSteps + 1 /\ BeforeHost \in Nat
  BY HostAssumption, PreflightAssumption DEF CallsInv, BeforeHost
<1> SUFFICES /\ step' \in Nat /\ attempt' \in Nat /\ budget' \in Nat /\ calls' \in Nat
             /\ FirstCalls'
  BY <1>1 DEF CallsInv
<1> USE DEF FirstCalls, AwaitsFirst, Repaired, Repairs
<1>3. CASE OpenFirst \/ MetaCall
  BY <1>1, <1>2, <1>3 DEF OpenFirst, MetaCall
<1>9. CASE Components
  <2>1. /\ step = 0 /\ budget = RepairBudget /\ calls <= BeforeHost
        /\ step' = step /\ attempt' = attempt /\ budget' = budget
        /\ calls' \in Nat /\ calls' <= calls + 2
    BY <1>1, <1>2, <1>9 DEF Components
  <2>2. /\ at' = "planner" => calls' <= calls + 1
        /\ at' \in {"over", "thin", "metaCall", "planner"}
    BY <1>1, <1>2, <1>9 DEF Components
  <2> QED BY <1>1, <1>2, <2>1, <2>2
<1>8. CASE PreflightReturns \/ PreflightDate \/ PreflightFails
  BY <1>1, <1>2, <1>8 DEF PreflightReturns, PreflightDate, PreflightFails
<1>4. CASE Planner
  BY <1>1, <1>2, <1>4 DEF Planner
<1>5. CASE HostRetry \/ HostFails
  BY <1>1, <1>2, <1>5 DEF HostRetry, HostFails
<1>6. CASE \E result \in Results : HostReturns(result) \/ ThinCall(result)
  BY <1>1, <1>2, <1>6 DEF HostReturns, ThinCall
<1>7. CASE Thin
  BY <1>1, <1>2, <1>7 DEF Thin
<1> QED BY <1>3, <1>4, <1>5, <1>6, <1>7, <1>8, <1>9 DEF FirstStep

LEMMA CallsStep == CallsInv /\ [PathNext]_pathVars => CallsInv'
<1> SUFFICES ASSUME CallsInv, [PathNext]_pathVars PROVE CallsInv'
  OBVIOUS
<1>1. CASE \E k \in Kinds : StartPath(k)
  BY <1>1, CallsStart
<1>2. CASE EngineStep
  BY <1>2, CallsEngine
<1>3. CASE ProxyStep
  BY <1>3, CallsProxy
<1>4. CASE FirstStep
  BY <1>4, CallsFirst
<1>5. CASE Transform
  BY <1>5 DEF Transform, Turn, Ends, Raises, NoCall, CallsInv, Kinds, EngineCalls, ProxyCalls,
              FirstCalls, AwaitsProxy, AwaitsFirst
<1>6. CASE Yields \/ UNCHANGED pathVars
  BY <1>6 DEF Yields, pathVars, CallsInv, EngineCalls, ProxyCalls, FirstCalls, Repaired
<1> QED BY <1>1, <1>2, <1>3, <1>4, <1>5, <1>6 DEF PathNext, PathStep

LEMMA CallsBound == CallsInv => CallsAreBounded
<1> SUFFICES ASSUME CallsInv PROVE CallsAreBounded
  OBVIOUS
<1>1. calls \in Nat /\ MaxToolCalls \in Nat /\ RepairBudget \in Nat
  BY HostAssumption DEF CallsInv
<1>2. CASE kind = "engine"
  <2>1. EngineCalls /\ step \in Nat /\ attempt \in Nat
    BY <1>2 DEF CallsInv
  <2>2. step < MaxSteps => step * PerTurn + PerTurn <= MaxSteps * PerTurn
    BY <2>1, OneMoreTurn
  <2>3. PerTurn = MaxToolRetries + 1 /\ MaxToolRetries \in Nat /\ MaxSteps \in Nat
    BY EngineAssumption DEF PerTurn
  <2>4. step * PerTurn \in Nat /\ MaxSteps * PerTurn \in Nat
    BY <2>1, <2>3
  <2>5. step <= MaxSteps => step < MaxSteps \/ step * PerTurn = MaxSteps * PerTurn
    BY <2>1, <2>3
  <2> HIDE DEF PerTurn
  <2>6. calls <= MaxSteps * PerTurn
    BY <2>1, <2>2, <2>3, <2>4, <2>5, <1>1 DEF EngineCalls
  <2> QED BY <1>2, <2>6 DEF CallsAreBounded, CallLimit, PerTurn
<1>3. CASE kind = "first"
  <2>1. calls <= BeforeHost + 3 + MaxToolCalls + RepairBudget
    BY <1>3 DEF CallsInv, FirstCalls
  <2>2. CallLimit[kind] = MaxToolCalls + RepairBudget + 3 * PreflightSteps + 4
    BY <1>3 DEF CallLimit
  <2> QED BY <1>1, <2>1, <2>2, PreflightAssumption DEF CallsAreBounded, BeforeHost
<1>4. CASE kind = "proxy"
  <2>1. calls <= 3
    BY <1>4 DEF CallsInv, ProxyCalls
  <2> QED BY <2>1, <1>4 DEF CallsAreBounded, CallLimit
<1>5. CASE kind \in {"none", "transform"}
  <2>1. calls = 0
    BY <1>5 DEF CallsInv
  <2> QED BY <2>1, <1>5 DEF CallsAreBounded, CallLimit
<1> QED BY <1>2, <1>3, <1>4, <1>5 DEF CallsInv, Kinds

LEMMA PathsInvariant == PathSpec => []CallsInv
<1>1. PathInit => CallsInv
  BY CallsInit
<1>2. CallsInv /\ [PathNext]_pathVars => CallsInv'
  BY CallsStep
<1> QED BY <1>1, <1>2, PTL DEF PathSpec

\* Each step of the service is a step of the paths or leaves them alone.
LEMMA ServiceRunsPaths == [ServiceNext]_serviceVars => [PathNext]_pathVars
  BY DEF ServiceNext, serviceVars, Service, PathStarts, KindsOf, PathWorks, Delivers, Interrupted,
         PathNext, Kinds

\* Whatever the tools answer, one question makes a bounded number of calls.
THEOREM ServiceCallsAreBounded == ServiceSpec => []CallsAreBounded
<1>1. ServiceInit => PathInit
  BY DEF ServiceInit
<1>2. [ServiceNext]_serviceVars => [PathNext]_pathVars
  BY ServiceRunsPaths
<1>3. ServiceSpec => PathSpec
  BY <1>1, <1>2, PTL DEF ServiceSpec, PathSpec
<1>4. CallsInv => CallsAreBounded
  BY CallsBound
<1> QED BY <1>3, <1>4, PathsInvariant, PTL
-----------------------------------------------------------------------------
(* The two together.  A path has events to hand over: data as long as it     *)
(* goes on, and when it is over the rest of one closed list, or of an        *)
(* exception.                                                                *)
PlainData == {"step", "rows"}
Events == DataEvents \cup Verdicts \cup {"raise", "end"}

Has(s, e) == \E i \in DOMAIN s : s[i] = e

\* Data, one verdict, the end.
Closing(s) == /\ Len(s) >= 2 /\ s[Len(s)] = "end" /\ s[Len(s) - 1] \in Verdicts
              /\ \A i \in 1..(Len(s) - 2) : s[i] \in DataEvents

\* What is handed over, and what may follow it at each place of the run.
HandsOver ==
    /\ out \in Seq(Events)
    /\ kind = "none" => out = <<>>
    /\ pc \in {"idle", "start", "intent", "route", "errorRun"} => kind = "none"
    /\ pc = "path" /\ path = "open" /\ kind # "none" =>
          \/ at # "over" /\ out \in Seq(PlainData)
          \/ at = "over" /\ Closing(out)
          \/ at = "over" /\ out = <<"raise">>
          \/ at = "over" /\ out = <<>> /\ event = "raise"
    /\ pc \in {"path", "save", "tokens", "saveError"} /\ path = "spent" /\ kind # "none" =>
          at = "over" /\ (out = <<"end">> \/ (out = <<>> /\ event = "end"))

\* A blocked result, from the path to the client, is followed by no answer.
Blocked == "blocked" \in shown \/ event = "blocked" \/ Has(out, "blocked")
BlockedInv == Blocked => /\ kind = "first" /\ at = "over" /\ ~Has(out, "answer") /\ event # "answer"
                         /\ pc \notin {"save", "tokens"} /\ told # <<"done">>

ServiceInv == RunInv /\ CallsInv /\ HandsOver /\ BlockedInv

\* A list of events that a path may end with.
Conclusion(s) == s \in Seq(Events) /\ Closing(s) /\ (Has(s, "blocked") => ~Has(s, "answer"))

\* Lists of events, written out.
LEMMA ConcatOne ==
  ASSUME NEW S, NEW v \in S, NEW e \in S
  PROVE  <<v>> \o <<e>> = <<v, e>>
<1> DEFINE c == <<v>> \o <<e>>
           t == <<v, e>>
<1>1. <<v>> \in Seq(S) /\ <<e>> \in Seq(S) /\ t \in Seq(S)
  OBVIOUS
<1>2. Len(<<v>>) = 1 /\ Len(<<e>>) = 1 /\ Len(c) = 2 /\ Len(t) = 2
  BY <1>1
<1>3. c \in Seq(S) /\ c[1] = v /\ c[2] = e
  BY <1>1, <1>2
<1>4. t[1] = v /\ t[2] = e
  OBVIOUS
<1> HIDE DEF c, t
<1>5. \A i \in 1..Len(c) : c[i] = t[i]
  BY <1>2, <1>3, <1>4
<1>6. Len(c) = Len(t)
  BY <1>2
<1>7. c = t
  BY <1>1, <1>3, <1>5, <1>6, SeqEqual
<1> QED BY <1>7 DEF c, t

LEMMA ConcatTwo ==
  ASSUME NEW S, NEW d \in S, NEW v \in S, NEW e \in S
  PROVE  <<d, v>> \o <<e>> = <<d, v, e>>
<1> DEFINE c == <<d, v>> \o <<e>>
           t == <<d, v, e>>
<1>1. <<d, v>> \in Seq(S) /\ <<e>> \in Seq(S) /\ t \in Seq(S)
  OBVIOUS
<1>2. Len(<<d, v>>) = 2 /\ Len(<<e>>) = 1 /\ Len(c) = 3 /\ Len(t) = 3
  BY <1>1
<1>3. c \in Seq(S) /\ c[1] = d /\ c[2] = v /\ c[3] = e
  BY <1>1, <1>2
<1>4. t[1] = d /\ t[2] = v /\ t[3] = e
  OBVIOUS
<1> HIDE DEF c, t
<1>5. \A i \in 1..Len(c) : c[i] = t[i]
  BY <1>2, <1>3, <1>4
<1>6. Len(c) = Len(t)
  BY <1>2
<1>7. c = t
  BY <1>1, <1>3, <1>5, <1>6, SeqEqual
<1> QED BY <1>7 DEF c, t

LEMMA ConcatThree ==
  ASSUME NEW S, NEW d \in S, NEW a \in S, NEW v \in S, NEW e \in S
  PROVE  <<d, a, v>> \o <<e>> = <<d, a, v, e>>
<1> DEFINE c == <<d, a, v>> \o <<e>>
           t == <<d, a, v, e>>
<1>1. <<d, a, v>> \in Seq(S) /\ <<e>> \in Seq(S) /\ t \in Seq(S)
  OBVIOUS
<1>2. Len(<<d, a, v>>) = 3 /\ Len(<<e>>) = 1 /\ Len(c) = 4 /\ Len(t) = 4
  BY <1>1
<1>3. c \in Seq(S) /\ c[1] = d /\ c[2] = a /\ c[3] = v /\ c[4] = e
  BY <1>1, <1>2
<1>4. t[1] = d /\ t[2] = a /\ t[3] = v /\ t[4] = e
  OBVIOUS
<1> HIDE DEF c, t
<1>5. \A i \in 1..Len(c) : c[i] = t[i]
  BY <1>2, <1>3, <1>4
<1>6. Len(c) = Len(t)
  BY <1>2
<1>7. c = t
  BY <1>1, <1>3, <1>5, <1>6, SeqEqual
<1> QED BY <1>7 DEF c, t

LEMMA VerdictOnly ==
  ASSUME NEW v \in Verdicts
  PROVE  Conclusion(<<v>> \o <<"end">>) /\ ~Has(<<v>> \o <<"end">>, "blocked")
<1>e. v \in Events /\ "end" \in Events
  BY DEF Events, Verdicts, DataEvents, PlainData
<1>1. <<v>> \o <<"end">> = <<v, "end">>
  BY <1>e, ConcatOne
<1> QED BY <1>1 DEF Conclusion, Closing, Has, Events, Verdicts, DataEvents

LEMMA DataThenVerdict ==
  ASSUME NEW d \in PlainData, NEW v \in Verdicts
  PROVE  Conclusion(<<d, v>> \o <<"end">>) /\ ~Has(<<d, v>> \o <<"end">>, "blocked")
<1>e. v \in Events /\ "end" \in Events /\ d \in Events
  BY DEF Events, Verdicts, DataEvents, PlainData
<1>1. <<d, v>> \o <<"end">> = <<d, v, "end">>
  BY <1>e, ConcatTwo
<1> QED BY <1>1 DEF Conclusion, Closing, Has, Events, Verdicts, DataEvents, PlainData

LEMMA RowsThenVerdict ==
  ASSUME NEW d \in PlainData, NEW e \in DataEvents, NEW v \in Verdicts, e = "blocked" => v = "error"
  PROVE  Conclusion(<<d, e, v>> \o <<"end">>) /\ (Has(<<d, e, v>> \o <<"end">>, "blocked") => e = "blocked")
<1>e. v \in Events /\ "end" \in Events /\ d \in Events /\ e \in Events
  BY DEF Events, Verdicts, DataEvents, PlainData
<1>1. <<d, e, v>> \o <<"end">> = <<d, e, v, "end">>
  BY <1>e, ConcatThree
<1> QED BY <1>1 DEF Conclusion, Closing, Has, Events, Verdicts, DataEvents, PlainData

LEMMA PlainOnly ==
  /\ <<>> \in Seq(PlainData)
  /\ \A d \in PlainData : <<d>> \in Seq(PlainData)
  /\ \A s \in Seq(PlainData) : s \in Seq(Events) /\ ~Has(s, "blocked")
<1>1. ASSUME NEW s \in Seq(PlainData) PROVE s \in Seq(Events) /\ ~Has(s, "blocked")
  <2>1. \A i \in DOMAIN s : s[i] \in PlainData
    OBVIOUS
  <2>2. PlainData \subseteq Events /\ "blocked" \notin PlainData
    BY DEF PlainData, Events, DataEvents
  <2> QED BY <2>1, <2>2 DEF Has
<1>2. \A d \in PlainData : <<d>> \in Seq(PlainData)
  OBVIOUS
<1> QED BY <1>1, <1>2

\* What a path that works leaves to be handed over.
Left(blockable) ==
    \/ at' # "over" /\ out' \in Seq(PlainData)
    \/ at' = "over" /\ out' = <<"raise">>
    \/ at' = "over" /\ Conclusion(out') /\ (Has(out', "blocked") => blockable)

LEMMA EngineLeaves == ASSUME EngineStep PROVE Left(FALSE)
<1> USE DEF Turn, Ends, Continues, Quietly, Left
<1>1. "step" \in PlainData /\ "rows" \in PlainData /\ "answer" \in Verdicts /\ "error" \in Verdicts
      /\ "rows" \in DataEvents
  BY DEF PlainData, Verdicts, DataEvents
<1>2. CASE LoopHead
  BY <1>1, <1>2, VerdictOnly, PlainOnly DEF LoopHead
<1>3. CASE Think
  BY <1>1, <1>3, VerdictOnly, DataThenVerdict, PlainOnly DEF Think
<1>4. CASE ToolAgain
  BY <1>4, PlainOnly DEF ToolAgain
<1>5. CASE ToolFails
  BY <1>1, <1>5, VerdictOnly, DataThenVerdict DEF ToolFails
<1>6. CASE ToolReturns
  BY <1>1, <1>6, DataThenVerdict, RowsThenVerdict, PlainOnly DEF ToolReturns
<1> QED BY <1>2, <1>3, <1>4, <1>5, <1>6 DEF EngineStep

LEMMA ProxyLeaves == ASSUME ProxyStep PROVE Left(FALSE)
<1> USE DEF Turn, Ends, Continues, Quietly, Raises, Left
<1>1. "step" \in PlainData /\ "rows" \in PlainData /\ "answer" \in Verdicts /\ "error" \in Verdicts
      /\ "rows" \in DataEvents
  BY DEF PlainData, Verdicts, DataEvents
<1>2. CASE OpenProxy
  BY <1>1, <1>2, DataThenVerdict, PlainOnly DEF OpenProxy
<1>3. CASE Assets
  BY <1>1, <1>3, VerdictOnly, DataThenVerdict, PlainOnly DEF Assets
<1>4. CASE AssetCall
  BY <1>1, <1>4, DataThenVerdict DEF AssetCall
<1>5. CASE Compile
  BY <1>1, <1>5, DataThenVerdict, PlainOnly DEF Compile
<1>6. CASE Plan
  BY <1>1, <1>6, DataThenVerdict, PlainOnly DEF Plan
<1>7. ASSUME NEW result \in Results, QueryCall(result) PROVE Left(FALSE)
  <2>1. ~TooLarge(result) => Rows(result) = "rows"
    BY DEF TooLarge, Rows
  <2> QED BY <1>1, <1>7, <2>1, DataThenVerdict, RowsThenVerdict DEF QueryCall
<1> QED BY <1>2, <1>3, <1>4, <1>5, <1>6, <1>7 DEF ProxyStep

\* The host route ends with an error, unless the thin one takes over.
LEMMA GivesUpLeaves ==
  /\ \A reason : GivesUp(reason, <<"step">>) => Left(FALSE)
  /\ \A e \in DataEvents : GivesUp("blocked", <<"step", e>>) => Left(TRUE)
<1>1. "step" \in PlainData /\ "error" \in Verdicts /\ "step" \in Events /\ "error" \in Events
      /\ DataEvents \subseteq Events
  BY DEF PlainData, Verdicts, Events, DataEvents
<1>2. <<"step">> \o <<"error">> = <<"step", "error">>
  BY <1>1, ConcatOne
<1>3. \A e \in DataEvents : <<"step", e>> \o <<"error">> = <<"step", e, "error">>
  BY <1>1, ConcatTwo
<1>4. ASSUME NEW reason, GivesUp(reason, <<"step">>) PROVE Left(FALSE)
  <2>1. CASE Continues(<<"step">>, "thin")
    BY <1>1, <2>1, PlainOnly DEF Continues, Left
  <2>2. CASE Ends(<<"step">> \o <<"error">>)
    BY <1>1, <1>2, <2>2, DataThenVerdict DEF Ends, Left
  <2> QED BY <1>4, <2>1, <2>2 DEF GivesUp
<1>5. ASSUME NEW e \in DataEvents, GivesUp("blocked", <<"step", e>>) PROVE Left(TRUE)
  <2>1. Ends(<<"step", e>> \o <<"error">>)
    BY <1>5 DEF GivesUp, FallsBack
  <2> QED BY <1>1, <1>3, <2>1, RowsThenVerdict DEF Ends, Left
<1> QED BY <1>4, <1>5

LEMMA FirstLeaves == ASSUME FirstStep PROVE Left(TRUE)
<1>0. Left(FALSE) => Left(TRUE)
  BY DEF Left
<1>1. "step" \in PlainData /\ "rows" \in PlainData /\ "answer" \in Verdicts /\ "error" \in Verdicts
      /\ "rows" \in DataEvents /\ \A result \in Results : Rows(result) \in DataEvents
  BY DEF PlainData, Verdicts, DataEvents, Rows, Results
<1>2. \A next : next # "over" => (Quietly(next) => Left(TRUE)) /\ (Continues(<<"step">>, next) => Left(TRUE))
  BY <1>1, PlainOnly DEF Quietly, Continues, Left
<1>3. \A v \in Verdicts : Ends(<<"step", v>>) => Left(TRUE)
  BY DataThenVerdict, <1>1 DEF Ends, Left
<1>4. \A e \in DataEvents : Ends(<<"step", e, "error">>) => Left(TRUE)
  BY RowsThenVerdict, <1>1 DEF Ends, Left
<1>5. Ends(<<"step", "rows", "answer">>) => Left(TRUE)
  BY RowsThenVerdict, <1>1 DEF Ends, Left
<1>6. CASE OpenFirst
  BY <1>1, <1>2, <1>3, <1>6 DEF OpenFirst
<1>7. CASE PreflightReturns \/ PreflightDate \/ PreflightFails
  BY <1>1, <1>2, <1>5, <1>7 DEF PreflightReturns, PreflightDate, PreflightFails
<1>12. Ends(<<"error">>) => Left(TRUE)
  BY <1>1, VerdictOnly DEF Ends, Left
<1>8. CASE Components \/ MetaCall \/ Planner \/ HostRetry \/ HostFails
  BY <1>0, <1>2, <1>8, <1>12, GivesUpLeaves DEF Components, MetaCall, Planner, HostRetry, HostFails
<1>9. ASSUME NEW result \in Results, HostReturns(result) PROVE Left(TRUE)
  <2>1. result = "fits" => Rows(result) = "rows"
    BY DEF Rows
  <2> QED BY <1>1, <1>2, <1>5, <1>9, <2>1, GivesUpLeaves DEF HostReturns
<1>10. ASSUME NEW result \in Results, ThinCall(result) PROVE Left(TRUE)
  <2>1. result = "fits" => Rows(result) = "rows"
    BY DEF Rows
  <2> QED BY <1>1, <1>3, <1>4, <1>5, <1>10, <2>1 DEF ThinCall
<1>11. CASE Thin
  BY <1>1, <1>2, <1>3, <1>11 DEF Thin
<1> QED BY <1>6, <1>7, <1>8, <1>9, <1>10, <1>11 DEF FirstStep

LEMMA TransformLeaves == ASSUME Transform PROVE Left(FALSE)
<1>1. "step" \in PlainData /\ "rows" \in DataEvents /\ "answer" \in Verdicts
  BY DEF PlainData, Verdicts, DataEvents
<1> QED BY <1>1, RowsThenVerdict DEF Transform, Ends, Raises, Left

\* A path that works is not over, and only the MCP-first path leaves a blocked result.
LEMMA PathLeaves ==
  ASSUME CallsInv, PathStep
  PROVE  /\ at # "over" /\ kind # "none" /\ kind' = kind
         /\ Left(kind = "first")
<1>1. at # "over" /\ kind' = kind
  BY DEF PathStep, EngineStep, LoopHead, Think, ToolAgain, ToolFails, ToolReturns, ProxyStep, OpenProxy,
         Assets, AssetCall, Compile, Plan, QueryCall, FirstStep, OpenFirst, PreflightReturns,
         PreflightDate, PreflightFails, Components, MetaCall, Planner, HostRetry, HostFails, HostReturns, Thin, ThinCall, Transform, Turn
<1>2. kind # "none"
  BY <1>1 DEF CallsInv
<1>3. Left(FALSE) => Left(kind = "first")
  BY DEF Left
<1>4. CASE FirstStep
  <2>1. kind = "first"
    BY <1>4 DEF CallsInv, FirstStep, OpenFirst, PreflightReturns, PreflightDate, PreflightFails,
                Components, MetaCall, Planner, HostRetry, HostFails, HostReturns, Thin, ThinCall, Kinds, EngineCalls, ProxyCalls, AwaitsProxy
  <2>2. Left(TRUE) => Left(kind = "first")
    BY <2>1 DEF Left
  <2> QED BY <1>1, <1>2, <1>4, <2>2, FirstLeaves
<1> QED BY <1>1, <1>2, <1>3, <1>4, EngineLeaves, ProxyLeaves, TransformLeaves DEF PathStep

LEMMA ServiceInitInv == ServiceInit => ServiceInv
<1> SUFFICES ASSUME ServiceInit PROVE ServiceInv
  OBVIOUS
<1>1. RunInv /\ CallsInv
  BY InitRun, CallsInit DEF ServiceInit
<1>2. HandsOver
  BY DEF ServiceInit, Init, PathInit, HandsOver
<1>3. BlockedInv
  BY DEF ServiceInit, Init, PathInit, BlockedInv, Blocked, Has
<1> QED BY <1>1, <1>2, <1>3 DEF ServiceInv

\* What is delivered next, and what is then left.
LEMMA Handed ==
  ASSUME RunInv, HandsOver, Delivers
  PROVE  /\ pc = "path" /\ event = "none" /\ event' = Head(out) /\ event' \in Events
         /\ out' \in Seq(Events)
         /\ \A e : Has(out', e) => Has(out, e)
         /\ Has(out, event')
         /\ \/ /\ path = "open" /\ event' \in DataEvents
               /\ \/ at # "over" /\ out' \in Seq(PlainData)
                  \/ at = "over" /\ Closing(out')
            \/ path = "open" /\ event' \in Verdicts /\ at = "over" /\ out' = <<"end">>
            \/ path = "open" /\ event' = "raise" /\ at = "over" /\ out' = <<>>
            \/ path = "spent" /\ event' = "end" /\ at = "over" /\ out' = <<>>
<1>1. /\ pc = "path" /\ event = "none" /\ kind # "none" /\ out # <<>> /\ out' = Tail(out)
      /\ event' = Head(out) /\ out \in Seq(Events)
  BY DEF Delivers, Pulled, Yields, HandsOver
<1>2. /\ Head(out) \in Events /\ Tail(out) \in Seq(Events) /\ Len(Tail(out)) = Len(out) - 1
      /\ Head(out) = out[1] /\ \A i \in 1..Len(Tail(out)) : Tail(out)[i] = out[i + 1]
      /\ Len(out) \in Nat \ {0} /\ DOMAIN out = 1..Len(out) /\ DOMAIN Tail(out) = 1..Len(Tail(out))
  BY <1>1, HeadTailProperties
<1>3. \A e : Has(Tail(out), e) => Has(out, e)
  BY <1>2 DEF Has
<1>4. Has(out, Head(out))
  BY <1>2 DEF Has
<1>5. path \in {"open", "spent"}
  BY <1>1 DEF RunInv, Shape, InPath
<1>6. CASE path = "spent"
  <2>1. out = <<"end">>
    BY <1>1, <1>6 DEF HandsOver
  <2>2. Head(out) = "end" /\ Tail(out) = <<>> /\ at = "over"
    BY <1>1, <1>6, <2>1 DEF HandsOver
  <2> QED BY <1>1, <1>2, <1>3, <1>4, <1>6, <2>2
<1>7. CASE path = "open" /\ at # "over" /\ out \in Seq(PlainData)
  <2>1. Head(out) \in PlainData /\ Tail(out) \in Seq(PlainData)
    BY <1>1, <1>7
  <2> QED BY <1>1, <1>2, <1>3, <1>4, <1>7, <2>1 DEF PlainData, DataEvents
<1>8. CASE path = "open" /\ at = "over" /\ out = <<"raise">>
  <2>1. Head(out) = "raise" /\ Tail(out) = <<>>
    BY <1>8
  <2> QED BY <1>1, <1>2, <1>3, <1>4, <1>8, <2>1
<1>9. CASE path = "open" /\ at = "over" /\ Closing(out)
  <2>1. CASE Len(out) = 2
    <3>1. out[1] \in Verdicts /\ out[2] = "end"
      BY <1>9, <2>1 DEF Closing
    <3>2. Len(Tail(out)) = 1 /\ Tail(out)[1] = "end"
      BY <1>2, <2>1, <3>1
    <3>3. Tail(out) = <<"end">>
      <4> DEFINE t == Tail(out)
                 e == <<"end">>
      <4>1. e \in Seq(Events) /\ Len(e) = 1 /\ e[1] = "end"
        BY DEF Events
      <4>2. t \in Seq(Events) /\ Len(t) = 1 /\ t[1] = "end"
        BY <1>2, <3>2
      <4> HIDE DEF t, e
      <4>3. Len(t) = Len(e) /\ \A i \in 1..Len(t) : t[i] = e[i]
        BY <4>1, <4>2
      <4>4. t = e
        BY <4>1, <4>2, <4>3, SeqEqual
      <4> QED BY <4>4 DEF t, e
    <3> QED BY <1>1, <1>2, <1>3, <1>4, <1>9, <3>1, <3>3
  <2>2. CASE Len(out) > 2
    <3> DEFINE t == Tail(out)
               n == Len(out)
    <3>1. n \in Nat /\ n > 2 /\ Len(t) = n - 1 /\ \A i \in 1..(n - 1) : t[i] = out[i + 1]
      BY <1>2, <2>2
    <3>2. out[n] = "end" /\ out[n - 1] \in Verdicts /\ \A i \in 1..(n - 2) : out[i] \in DataEvents
      BY <1>9 DEF Closing
    <3>3. out[1] \in DataEvents
      BY <3>1, <3>2
    <3> HIDE DEF t, n
    <3>4. t[n - 1] = "end" /\ t[n - 2] \in Verdicts
      BY <3>1, <3>2
    <3>5. \A i \in 1..(n - 3) : t[i] \in DataEvents
      BY <3>1, <3>2
    <3>6. Closing(t)
      BY <3>1, <3>4, <3>5 DEF Closing
    <3>7. Closing(Tail(out))
      BY <3>6 DEF t
    <3> QED BY <1>1, <1>2, <1>3, <1>4, <1>9, <3>3, <3>7
  <2> QED BY <1>2, <1>9, <2>1, <2>2 DEF Closing
<1> QED BY <1>1, <1>5, <1>6, <1>7, <1>8, <1>9 DEF HandsOver

\* A step of the service is one of the run over any path, or changes nothing of it.
LEMMA ServiceRuns == ServiceInv /\ [ServiceNext]_serviceVars => [Next]_vars
<1> SUFFICES ASSUME ServiceInv, [ServiceNext]_serviceVars PROVE [Next]_vars
  OBVIOUS
<1>1. CASE Delivers
  <2>1. RunInv /\ HandsOver
    BY DEF ServiceInv
  <2>2. PathEmits(event')
    BY <1>1, <2>1, Handed DEF PathEmits, Delivers, Verdicts, DataEvents
  <2>3. event' \in DataEvents \cup Verdicts \cup {"raise", "end"}
    BY <1>1, <2>1, Handed DEF Events
  <2> QED BY <2>2, <2>3 DEF Next, PathSteps
<1>2. CASE PathStarts \/ PathWorks \/ UNCHANGED serviceVars
  BY <1>2 DEF PathStarts, PathWorks, serviceVars
<1>3. CASE Bookkeeping \/ Interrupted \/ Environment
  BY <1>3 DEF Next, PathSteps, Interrupted
<1> QED BY <1>1, <1>2, <1>3 DEF ServiceNext, Service

\* The run's own steps and those of its environment leave what is handed over alone.
LEMMA RunKeepsHandsOver ==
  ASSUME RunInv, HandsOver, UNCHANGED pathVars,
         Bookkeeping \/ Environment \/ Cancel \/ UNCHANGED vars
  PROVE  HandsOver'
<1> USE DEF Goto, Tell, dbVars, Breaks, Holds, RolledBack, Over, DataEvents, Verdicts
<1>1. out' = out /\ at' = at /\ kind' = kind
  BY DEF pathVars
<1>2. CASE Schema \/ RouteFails \/ ErrorRun \/ CreateRun \/ Intent
  BY <1>1, <1>2 DEF Schema, RouteFails, ErrorRun, CreateRun, Intent, HandsOver, RunInv, BranchAt
<1>3. CASE Telemetry
  <2>1. CASE pc = "path" /\ event = "answer"
    BY <1>1, <1>3, <2>1 DEF Telemetry, HandsOver, RunInv, InPath
  <2>2. CASE pc = "start" \/ pc = "route"
    BY <1>1, <1>3, <2>2 DEF Telemetry, HandsOver, RunInv, BranchAt, Shape
  <2> QED BY <1>3, <2>1, <2>2 DEF Telemetry, AnswerDue
<1>4. CASE Step \/ Save \/ Done
  BY <1>1, <1>4 DEF Step, Save, Done, HandsOver, RunInv, BranchAt, InPath
<1>5. CASE ErrorCommit \/ SaveError
  BY <1>1, <1>5 DEF ErrorCommit, SaveError, HandsOver, RunInv, BranchAt, InPath
<1>6. CASE PathEnds \/ PathRaises \/ Recover \/ SaveRaise \/ CancelRun \/ SaveCancel \/ Cancel
  BY <1>1, <1>6 DEF PathEnds, PathRaises, Recover, SaveRaise, CancelRun, SaveCancel, Cancel, HandsOver
<1>7. CASE Environment
  BY <1>1, <1>7 DEF Environment, Ask, ClientLeaves, Abandon, Crash, HandsOver
<1>8. CASE UNCHANGED vars
  BY <1>1, <1>8 DEF vars, HandsOver
<1> QED BY <1>2, <1>3, <1>4, <1>5, <1>6, <1>7, <1>8 DEF Bookkeeping

LEMMA RunKeepsBlocked ==
  ASSUME RunInv, HandsOver, BlockedInv, UNCHANGED pathVars,
         Bookkeeping \/ Environment \/ Cancel \/ UNCHANGED vars
  PROVE  BlockedInv'
<1> USE DEF Goto, Tell, dbVars, Breaks, Holds, RolledBack, Over, DataEvents, Verdicts
<1>1. out' = out /\ at' = at /\ kind' = kind
  BY DEF pathVars
<1>2. Blocked' => Blocked
  <2>1. "blocked" \in shown' \/ event' = "blocked" => "blocked" \in shown \/ event = "blocked"
    <3>1. CASE Step
      BY <3>1 DEF Step
    <3>2. CASE Schema \/ RouteFails \/ ErrorRun \/ CreateRun \/ Intent \/ Telemetry \/ Save \/ Done
               \/ ErrorCommit \/ SaveError \/ PathEnds \/ PathRaises \/ Recover \/ SaveRaise
               \/ CancelRun \/ SaveCancel \/ Cancel
      BY <3>2 DEF Schema, RouteFails, ErrorRun, CreateRun, Intent, Telemetry, Save, Done, ErrorCommit, SaveError,
                  PathEnds, PathRaises, Recover, SaveRaise, CancelRun, SaveCancel, Cancel
    <3>3. CASE Environment \/ UNCHANGED vars
      BY <3>3 DEF Environment, Ask, ClientLeaves, Abandon, Crash, vars
    <3> QED BY <3>1, <3>2, <3>3 DEF Bookkeeping
  <2> QED BY <1>1, <2>1 DEF Blocked, Has
<1> SUFFICES ASSUME Blocked PROVE /\ event' # "answer" /\ pc' \notin {"save", "tokens"} /\ told' # <<"done">>
  BY <1>1, <1>2 DEF BlockedInv, Has
<1>3. /\ kind = "first" /\ event # "answer" /\ pc \notin {"save", "tokens"} /\ told # <<"done">>
      /\ pc \notin {"idle", "start", "intent", "route", "errorRun"}
  BY DEF BlockedInv, HandsOver
<1>4. CASE ErrorRun \/ Save \/ Done \/ Telemetry \/ Schema \/ RouteFails \/ CreateRun \/ Intent
  BY <1>3, <1>4 DEF ErrorRun, Save, Done, Telemetry, AnswerDue, Schema, RouteFails, CreateRun, Intent
<1>5. CASE SaveError \/ Recover \/ SaveRaise
  <2>1. told = <<>>
    BY <1>5 DEF SaveError, Recover, SaveRaise, RunInv, BeforeVerdict, Fresh
  <2>2. told' = told \/ told' = <<"error">>
    BY <1>5, <2>1, FirstVerdict DEF SaveError, Recover, SaveRaise
  <2> QED BY <1>3, <1>5, <2>2 DEF SaveError, Recover, SaveRaise
<1>6. CASE Step \/ ErrorCommit \/ PathEnds \/ PathRaises \/ CancelRun \/ SaveCancel \/ Cancel
  BY <1>3, <1>6 DEF Step, ErrorCommit, PathEnds, PathRaises, CancelRun, SaveCancel, Cancel
<1>7. CASE Environment \/ UNCHANGED vars
  BY <1>3, <1>7 DEF Environment, Ask, ClientLeaves, Abandon, Crash, vars
<1> QED BY <1>4, <1>5, <1>6, <1>7 DEF Bookkeeping

LEMMA StartsHandOver ==
  ASSUME ServiceInv, PathStarts
  PROVE  HandsOver' /\ BlockedInv'
<1>1. PICK k \in Kinds : StartPath(k)
  BY DEF PathStarts, KindsOf, Kinds
<1>2. kind = "none" /\ out = <<>> /\ out' = out /\ at' = Entry[k] /\ k \in Kinds /\ UNCHANGED vars /\ pc = "path" /\ path = "open"
  BY <1>1 DEF StartPath, PathStarts, ServiceInv, HandsOver
<1>3. Entry[k] # "over"
  BY DEF Entry, Kinds
<1>4. HandsOver'
  BY <1>2, <1>3, PlainOnly DEF HandsOver, vars
<1>5. ~Blocked'
  BY <1>2 DEF ServiceInv, BlockedInv, Blocked, Has, vars
<1> QED BY <1>4, <1>5 DEF BlockedInv

LEMMA WorksHandOver ==
  ASSUME ServiceInv, PathWorks
  PROVE  HandsOver' /\ BlockedInv'
<1>1. /\ at # "over" /\ kind # "none" /\ kind' = kind /\ Left(kind = "first")
      /\ pc = "path" /\ event = "none" /\ UNCHANGED vars
  BY PathLeaves DEF PathWorks, Pulled, ServiceInv
<1>2. path # "spent" /\ path \in {"open", "spent"}
  BY <1>1 DEF ServiceInv, HandsOver, RunInv, Shape, InPath
<1>3. out' \in Seq(Events)
  <2>1. <<"raise">> \in Seq(Events)
    BY DEF Events
  <2> QED BY <1>1, <2>1, PlainOnly DEF Left, Conclusion
<1>4. \/ at' # "over" /\ out' \in Seq(PlainData)
      \/ at' = "over" /\ Closing(out')
      \/ at' = "over" /\ out' = <<"raise">>
  BY <1>1 DEF Left, Conclusion
<1>5. HandsOver'
  BY <1>1, <1>2, <1>3, <1>4 DEF HandsOver, vars
<1>6. ~Blocked
  BY <1>1 DEF ServiceInv, BlockedInv
<1>7. Has(out', "blocked") => kind = "first" /\ at' = "over" /\ ~Has(out', "answer")
  <2>1. out' = <<"raise">> => ~Has(out', "blocked")
    BY DEF Has
  <2> QED BY <1>1, <2>1, PlainOnly DEF Left, Conclusion
<1>8. BlockedInv'
  <2>1. Blocked' => Has(out', "blocked")
    BY <1>1, <1>6 DEF Blocked, vars
  <2>2. told = <<>>
    BY <1>1, <1>2 DEF ServiceInv, RunInv, InPath, Settled, Fresh
  <2>3. told' # <<"done">> /\ event' # "answer" /\ pc' \notin {"save", "tokens"}
    BY <1>1, <2>2 DEF vars
  <2> QED BY <1>1, <1>7, <2>1, <2>3 DEF BlockedInv, Has
<1> QED BY <1>5, <1>8

LEMMA DeliversHandsOver ==
  ASSUME ServiceInv, Delivers
  PROVE  HandsOver' /\ BlockedInv'
<1>1. RunInv /\ HandsOver /\ BlockedInv
  BY DEF ServiceInv
<1>2. /\ kind' = kind /\ at' = at /\ pc' = pc /\ shown' = shown /\ told' = told /\ kind # "none"
      /\ path' = IF event' \in Verdicts THEN "spent" ELSE path
  BY DEF Delivers, Pulled, Yields
<1>3. HandsOver'
  BY <1>1, <1>2, Handed DEF HandsOver, Verdicts, DataEvents
<1>4. Blocked' => Blocked
  BY <1>1, <1>2, Handed DEF Blocked
<1>5. Blocked => event' # "answer" /\ ~Has(out', "answer")
  BY <1>1, <1>2, Handed DEF BlockedInv
<1>6. Has(out, "answer")' = Has(out', "answer")
  BY DEF Has
<1> QED BY <1>1, <1>2, <1>3, <1>4, <1>5, <1>6 DEF BlockedInv

LEMMA ServiceStepInv == ServiceInv /\ [ServiceNext]_serviceVars => ServiceInv'
<1> SUFFICES ASSUME ServiceInv, [ServiceNext]_serviceVars PROVE ServiceInv'
  OBVIOUS
<1>1. RunInv'
  BY ServiceRuns, StepRun DEF ServiceInv
<1>2. CallsInv'
  BY ServiceRunsPaths, CallsStep DEF ServiceInv
<1>3. HandsOver' /\ BlockedInv'
  <2>1. CASE UNCHANGED pathVars /\ (Bookkeeping \/ Environment \/ Cancel \/ UNCHANGED vars)
    BY <2>1, RunKeepsHandsOver, RunKeepsBlocked DEF ServiceInv
  <2>2. CASE PathStarts \/ PathWorks \/ Delivers
    BY <2>2, StartsHandOver, WorksHandOver, DeliversHandsOver
  <2> QED BY <2>1, <2>2 DEF ServiceNext, Service, Interrupted, serviceVars
<1> QED BY <1>1, <1>2, <1>3 DEF ServiceInv

LEMMA ServiceInvariant == ServiceSpec => []ServiceInv
<1>1. ServiceInit => ServiceInv
  BY ServiceInitInv
<1>2. ServiceInv /\ [ServiceNext]_serviceVars => ServiceInv'
  BY ServiceStepInv
<1> QED BY <1>1, <1>2, PTL DEF ServiceSpec

\* The real paths keep the contract that the bookkeeping relies on (runner.py:349): data,
\* then one answer or error, then the end, or an exception before the verdict.
THEOREM PathsKeepContract == ServiceSpec => KeepsContract
<1>1. ServiceInit => Init
  BY DEF ServiceInit
<1>2. ServiceInv /\ [ServiceNext]_serviceVars => [Next]_vars
  BY ServiceRuns
<1> QED BY <1>1, <1>2, ServiceInvariant, PTL DEF ServiceSpec, KeepsContract, Spec

\* So all that is proved of the bookkeeping holds with the real paths; the promise made to
\* the caller (runner.py:808) comes first.
THEOREM ServiceKeepsPromise == ServiceSpec => KeepsPromise
<1>1. Spec <=> KeepsContract
  BY DEF KeepsContract
<1> QED BY <1>1, PathsKeepContract, RunKeepsPromise, PTL

\* What the size check blocks (result_guardrail.py) is not shown by the proxy path, and no
\* path or fallback turns it into an answer (mcp_first_main.py:2173).
THEOREM WhatIsBlockedStaysBlocked == ServiceSpec => []BlockedStaysBlocked
<1>1. ServiceInv => BlockedStaysBlocked
  BY DEF ServiceInv, BlockedInv, Blocked, BlockedStaysBlocked, ProxyHidesBlockedRows, BlockedIsNotAnswered
<1> QED BY <1>1, ServiceInvariant, PTL

\* With the real paths too, the stream and the row of a question agree at its end.
THEOREM ServiceStreamsAgree == ServiceSpec => []RunAndStreamAgree
<1>1. Spec <=> KeepsContract
  BY DEF KeepsContract
<1> QED BY <1>1, PathsKeepContract, RunsAndStreamsAgree, PTL
=============================================================================

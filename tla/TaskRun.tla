------------------------------ MODULE TaskRun ------------------------------
(***************************************************************************)
(* One row of bi_taskrun_runs and the callers of TaskRunService            *)
(* (services/task_runtime/service.py).                                     *)
(*                                                                         *)
(* Every method ends in `transition`, which reads the row, checks the      *)
(* table in Python, and commits an UPDATE by primary key; an               *)
(* OperationalError at the commit rolls back and starts the attempt again, *)
(* at most MaxRetries times.  Nothing in the UPDATE names the status (or   *)
(* the updated_at) that was read, and the engine of app/core/database.py   *)
(* leaves PostgreSQL's default isolation, read committed: a second writer  *)
(* in between is not noticed, and the later UPDATE wins.                   *)
(*                                                                         *)
(* A caller may call any method at any time: the service is checked under  *)
(* its most general client.  A call begins when the session loads the row; *)
(* the session holds on to the row object (expire_on_commit=False), so an  *)
(* attempt reads the database once however many times it calls get_run.    *)
(***************************************************************************)
EXTENDS Naturals, FiniteSets

CONSTANTS Callers,      \* sessions that use the service: workers, API requests
          MaxRetries    \* TaskRunService.MAX_RETRIES, 3 in the code

ASSUME CallersAssumption == Callers # {}
ASSUME RetriesAssumption == MaxRetries \in Nat \ {0}

VARIABLES status,     \* bi_taskrun_runs.status
          finished,   \* finished_at is set
          errored,    \* error_code is set
          call,       \* call[c]: what caller c is doing
          written,    \* history: every status the row ever had
          started     \* history: some to_running call returned

rowVars == <<status, finished, errored>>
vars == <<status, finished, errored, call, written, started>>

Status == {"queued", "running", "succeeded", "failed", "cancelling", "cancelled"}
Terminal == {"succeeded", "failed", "cancelled"}

ValidTransitions == [queued     |-> {"running", "failed"},
                     running    |-> {"succeeded", "failed", "cancelling"},
                     cancelling |-> {"cancelled", "failed"},
                     succeeded  |-> {},
                     failed     |-> {},
                     cancelled  |-> {}]

\* Mutant: only the terminal statuses are refused.
AnyUntilTerminal(from, to) == from \notin Terminal

CanTransition(from, to) == to \in ValidTransitions[from]

\* Mutant: a cancelled run is forgotten.
StampsUnlessCancelled(target) == target \in {"succeeded", "failed"}

StampsFinish(target) == target \in Terminal

(***************************************************************************)
(* The calls of `transition`: its target and its expected_from.  The last  *)
(* one is the direct cancellation of a queued run inside `cancel`.         *)
(***************************************************************************)
Steps == {"to_running", "to_succeeded", "to_failed", "to_cancelling",
          "to_cancelled", "cancel_queued"}

Target == [to_running    |-> "running",    to_succeeded |-> "succeeded",
           to_failed     |-> "failed",     to_cancelling |-> "cancelling",
           to_cancelled  |-> "cancelled",  cancel_queued |-> "cancelled"]

ExpectedFrom == [to_running    |-> {"queued"},  to_succeeded  |-> {"running"},
                 to_failed     |-> Status,      to_cancelling |-> {"running"},
                 to_cancelled  |-> {"cancelling"}, cancel_queued |-> Status]

Ops == (Steps \ {"cancel_queued"}) \cup {"cancel"}
Results == {"none", "ok", "noop", "unexpected", "illegal", "conflict"}

Calls == [pc : {"idle", "read", "commit", "done"}, op : Ops \cup {"none"},
          step : Steps \cup {"none"}, attempt : 1..MaxRetries, seen : Status,
          fresh : BOOLEAN,  \* history: nobody has written since `seen` was read
          late : BOOLEAN,   \* history: a start that began after `started`
          result : Results]

NoCall == [pc |-> "idle", op |-> "none", step |-> "none", attempt |-> 1,
           seen |-> "queued", fresh |-> FALSE, late |-> FALSE, result |-> "none"]

Init ==
    /\ status = "queued" /\ finished = FALSE /\ errored = FALSE
    /\ call = [c \in Callers |-> NoCall]
    /\ written = {"queued"} /\ started = FALSE

-----------------------------------------------------------------------------
Invoke(c, op) ==
    /\ call[c].pc \in {"idle", "done"}
    /\ call' = [call EXCEPT ![c] =
                  [NoCall EXCEPT !.pc = "read", !.op = op,
                                 !.step = IF op = "cancel" THEN "none" ELSE op,
                                 !.late = started /\ op = "to_running"]]
    /\ UNCHANGED <<rowVars, written, started>>

Ended(c, result) ==
    [NoCall EXCEPT !.pc = "done", !.op = call[c].op, !.step = call[c].step,
                   !.late = call[c].late, !.result = result]

Return(c, result) == call' = [call EXCEPT ![c] = Ended(c, result)]

Checked(c, step) ==
    [call[c] EXCEPT !.pc = "commit", !.step = step, !.seen = status, !.fresh = TRUE]

\* Mutant: a row that is already there counts as done, so that an attempt whose
\* acknowledgement was lost need not fail.
AlreadyThereIsOk(c, step) ==
    LET may == status \in ExpectedFrom[step] /\ CanTransition(status, Target[step])
    IN  \/ status = Target[step] /\ Return(c, "ok")
        \/ status # Target[step] /\ ~may /\ Return(c, "illegal")
        \/ may /\ call' = [call EXCEPT ![c] = Checked(c, step)]

(***************************************************************************)
(* The checks of one attempt, from get_run to the assignment of run.status *)
(***************************************************************************)
Attempt(c, step) ==
    \/ /\ status \notin ExpectedFrom[step]
       /\ Return(c, "unexpected")
    \/ /\ status \in ExpectedFrom[step]
       /\ ~CanTransition(status, Target[step])
       /\ Return(c, "illegal")
    \/ /\ status \in ExpectedFrom[step]
       /\ CanTransition(status, Target[step])
       /\ call' = [call EXCEPT ![c] = Checked(c, step)]

Read(c) ==
    /\ call[c].pc = "read" /\ call[c].step # "none"
    /\ Attempt(c, call[c].step)
    /\ UNCHANGED <<rowVars, written, started>>

Cancel(c) ==
    /\ call[c].pc = "read" /\ call[c].op = "cancel" /\ call[c].step = "none"
    /\ \/ status \in Terminal /\ Return(c, "noop")
       \/ status = "queued" /\ Attempt(c, "cancel_queued")
       \/ status = "running" /\ Attempt(c, "to_cancelling")
       \/ status = "cancelling" /\ Return(c, "unexpected")
    /\ UNCHANGED <<rowVars, written, started>>

(***************************************************************************)
(* The UPDATE takes effect.  What every other caller has read is now older *)
(* than the row, and nothing tells it so.                                  *)
(***************************************************************************)
Apply(c, next) ==
    LET new == Target[call[c].step]
    IN  /\ status' = new
        /\ finished' = (finished \/ StampsFinish(new))
        /\ errored' = (errored \/ call[c].step = "to_failed")
        /\ written' = written \cup {new}
        /\ call' = [d \in Callers |-> IF d = c THEN next
                                      ELSE [call[d] EXCEPT !.fresh = FALSE]]

Committed(c) ==
    /\ call[c].pc = "commit"
    /\ Apply(c, Ended(c, "ok"))
    /\ started' = (started \/ call[c].op = "to_running")

\* Mutant: the last attempt is not recognised.
AlwaysAgain(c) ==
    [NoCall EXCEPT !.pc = "read", !.op = call[c].op, !.step = call[c].step,
                   !.late = call[c].late]

\* Mutant: the row is read and checked once, before the loop.
CommitAgain(c) ==
    IF call[c].attempt < MaxRetries
    THEN [call[c] EXCEPT !.attempt = @ + 1, !.fresh = TRUE]
    ELSE Ended(c, "conflict")

\* What the caller is after an OperationalError: the next attempt, or TR_010.
AfterError(c) ==
    IF call[c].attempt < MaxRetries
    THEN [NoCall EXCEPT !.pc = "read", !.op = call[c].op, !.step = call[c].step,
                        !.late = call[c].late, !.attempt = call[c].attempt + 1]
    ELSE Ended(c, "conflict")

\* The transaction was aborted: a deadlock, a lost connection.
CommitFailed(c) ==
    /\ call[c].pc = "commit"
    /\ call' = [call EXCEPT ![c] = AfterError(c)]
    /\ UNCHANGED <<rowVars, written, started>>

\* The transaction committed and the connection died before the answer.
CommitAckLost(c) ==
    /\ call[c].pc = "commit"
    /\ Apply(c, AfterError(c))
    /\ UNCHANGED started

Step(c) == Read(c) \/ Cancel(c) \/ Committed(c) \/ CommitFailed(c) \/ CommitAckLost(c)

Next == \E c \in Callers : (\E op \in Ops : Invoke(c, op)) \/ Step(c)

Fairness == \A c \in Callers : WF_vars(Step(c))

Spec == Init /\ [][Next]_vars
FairSpec == Spec /\ Fairness

-----------------------------------------------------------------------------
TypeOK ==
    /\ status \in Status /\ finished \in BOOLEAN /\ errored \in BOOLEAN
    /\ call \in [Callers -> Calls]
    /\ written \in SUBSET Status /\ started \in BOOLEAN

(***************************************************************************)
(* However calls interleave, a status appears in the row only after one    *)
(* the table allows it to follow has been there: a run cannot be succeeded *)
(* without having run, nor cancelled without having been cancelling, even  *)
(* when a stale writer overwrites a newer status (service.py transition).  *)
(***************************************************************************)
WrittenHasLegalHistory ==
    \A s \in written \ {"queued"} : \E p \in written : s \in ValidTransitions[p]

(***************************************************************************)
(* A run that shows an end has its end recorded: finished_at with every    *)
(* terminal status, error_code with "failed", whoever wrote last.          *)
(***************************************************************************)
OutcomeRecorded ==
    /\ status \in Terminal => finished
    /\ status = "failed" => errored

(***************************************************************************)
(* What is left of a row's integrity when writers may be stale: its        *)
(* history and the stamps of its end (service.py:112-163).                 *)
(***************************************************************************)
RowIsSound == WrittenHasLegalHistory /\ OutcomeRecorded

(***************************************************************************)
(* Every call of the service returns or raises: the OCC loop is bounded,   *)
(* however often the commit fails (service.py:112-163).                    *)
(***************************************************************************)
CallReturns == \A c \in Callers : call[c].pc = "read" ~> call[c].pc = "done"

(***************************************************************************)
(* What the optimistic lock that `transition` names (expected_from, the    *)
(* retries after a conflict) is for: the row is a lifecycle of the state   *)
(* machine, only legal edges, terminal statuses final (service.py:93-98,   *)
(* state_machine.py).                                                      *)
(***************************************************************************)
Promise == INSTANCE TaskLifecycle WITH status <- status

(***************************************************************************)
(* Only writes that cross stray from the lifecycle: an attempt that read   *)
(* the row after everybody else's last write takes an edge of the table.   *)
(* In particular a commit that failed, or one whose acknowledgement was    *)
(* lost, does not make its own retry stray (service.py:112-163).           *)
(***************************************************************************)
Writes(c) == Committed(c) \/ CommitAckLost(c)

OnlyCrossedWritesStray ==
    [][\A c \in Callers :
         (Writes(c) /\ call[c].fresh) => Promise!Transition(Target[call[c].step])]_vars

(***************************************************************************)
(* Who is told that it started the run had read the row before anybody     *)
(* else was told so: a run may be started twice by calls that crossed, but *)
(* never by one that began after a start was confirmed, whatever stale     *)
(* writers did to the row since (to_running, service.py:165-167).          *)
(***************************************************************************)
LateStartersRefused == \A c \in Callers : call[c].late => call[c].result # "ok"

(***************************************************************************)
(* What the comment in `cancel` says of a queued run, that it is cancelled *)
(* directly: a cancel call never ends in an illegal transition.            *)
(***************************************************************************)
QueuedRunIsCancelled ==
    \A c \in Callers : call[c].op = "cancel" => call[c].result # "illegal"

(***************************************************************************)
(* What the interface promises of a repeated cancel: it answers with the   *)
(* current status and raises no error while the run is cancelling.         *)
(***************************************************************************)
RepeatedCancelAnswers ==
    \A c \in Callers :
        (call[c].op = "cancel" /\ call[c].step = "none") => call[c].result # "unexpected"

=============================================================================

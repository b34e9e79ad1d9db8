----------------------------- MODULE SyncRequests -----------------------------
(***************************************************************************)
(* Who asks for a synchronisation of the connection, and who looks at it   *)
(* afterwards: POST .../sync with its fallback inside the API process, the *)
(* twice-a-day beat, the plans (BiSyncSchedule) with rows made in advance, *)
(* and the two views that repair rows they find.  The workers are those of *)
(* TableauSync; the plan has several firings, which its own lock keeps     *)
(* apart.                                                                  *)
(***************************************************************************)
EXTENDS TableauSync

CONSTANT Firings      \* workers that execute sync_by_schedule, over and over

ASSUME NoFiringAssumption == None \notin Firings

VARIABLES sender,    \* sender[r]: how far the producer of request r is
          copy,      \* copy[r]: status of the row backfilled for the log of r
          firing,    \* firing[f]: how far the execution is and the rows it took
          planLock,  \* the lock of the plan: a firing or None
          view       \* what a view has read and is about to write

requestVars == <<sender, copy, firing, planLock, view>>
vars == <<syncVars, requestVars>>

NoView == [of |-> "nothing", rows |-> {}, status |-> "none"]

Init == /\ SyncInit
        /\ sender = [r \in Requests |-> "none"]
        /\ copy = [r \in Requests |-> "none"]
        /\ firing = [f \in Firings |-> [pc |-> "due", rows |-> {}]]
        /\ planLock = None
        /\ view = NoView

Sends(r, label) == sender' = [sender EXCEPT ![r] = label]

-----------------------------------------------------------------------------
(* POST .../sync.                                                          *)

\* The next request: which of those that nobody made yet makes no difference.
New(r) == sender[r] = "none" /\ r = CHOOSE q \in Requests : sender[q] = "none"

\* Refused while the connection says running.
Ask(r) ==
    /\ New(r)
    /\ syncStatus # "running"
    /\ Sends(r, "asking")
    /\ UNCHANGED <<syncVars, copy, firing, planLock, view>>

\* Up to a second later, when the workers were asked for a sign of life.
Accept(r) ==
    /\ sender[r] = "asking"
    /\ syncStatus' = "running"
    /\ task' = [task EXCEPT ![r] = "pending"]
    /\ Sends(r, "accepted")
    /\ UNCHANGED <<exec, lock, log, newest, linked, unsaid, faults, copy, firing, planLock, view>>

\* No worker answered: the API process synchronises itself, without the lock.
InlineBegin(r) ==
    /\ sender[r] = "accepted"
    /\ LogOpened(r)
    /\ Sends(r, "inline")
    /\ UNCHANGED <<exec, lock, rowVars, faults, copy, firing, planLock, view>>

InlineEnd(r) ==
    /\ sender[r] = "inline"
    /\ Synced(r)
    /\ Sends(r, "synced")
    /\ UNCHANGED <<exec, lock, newest, rowVars, faults, copy, firing, planLock, view>>

\* The log has ended, and then the count of failures cannot be reset.
InlineFails(r) ==
    /\ sender[r] = "synced"
    /\ Rarely
    /\ log' = LogFailed(r)
    /\ syncStatus' = "resting"
    /\ Sends(r, "unsynced")
    /\ UNCHANGED <<exec, lock, newest, rowVars, lapses, copy, firing, planLock, view>>

\* Only an exception makes the row failed; it may have come with no log id.
InlineReport(r) ==
    /\ sender[r] \in {"synced", "unsynced"}
    /\ \E status \in {"completed", "failed"}, named \in BOOLEAN :
          /\ status = "completed" => named /\ sender[r] = "synced"
          /\ status = "failed" => log[r] = "failed"
          /\ task' = [task EXCEPT ![r] = status]
          /\ linked' = [linked EXCEPT ![r] = named]
    /\ Sends(r, "over")
    /\ UNCHANGED <<exec, lock, syncStatus, log, newest, unsaid, faults, copy, firing, planLock, view>>

-----------------------------------------------------------------------------
(* The beat and the plans.                                                 *)

\* scheduled_sync_all does not look at the status.
Beat(r) ==
    /\ New(r)
    /\ task' = [task EXCEPT ![r] = "pending"]
    /\ Sends(r, "due")
    /\ UNCHANGED <<exec, lock, syncStatus, log, newest, linked, unsaid, faults, copy, firing, planLock, view>>

\* apply_async or delay, after the row was committed.
Submit(r) ==
    /\ sender[r] \in {"accepted", "due"}
    /\ Queued(r)
    /\ Sends(r, "over")
    /\ UNCHANGED <<lock, syncStatus, log, newest, rowVars, faults, copy, firing, planLock, view>>

\* plan_daily_sync_tasks makes a row for each firing to come; here it appears when it
\* is due, for nobody looks at it earlier.
Plan(r) ==
    /\ New(r)
    /\ task' = [task EXCEPT ![r] = "pending"]
    /\ Sends(r, "planned")
    /\ UNCHANGED <<exec, lock, syncStatus, log, newest, linked, unsaid, faults, copy, firing, planLock, view>>

Firing(f, label, rows) == firing' = [firing EXCEPT ![f] = [pc |-> label, rows |-> rows]]

\* Mutant: the plan is not locked.
PlanLockAnyway == TRUE

PlanLockIsFree == planLock = None

Waiting == {r \in Requests : sender[r] = "planned" /\ task[r] = "pending"}

\* All pending rows whose time is near; rows made on the spot are Plan and then
\* this.  A firing that finds the lock taken does nothing.  Which of the idle
\* workers executes it makes no difference: the first one does.
Fire(f) ==
    /\ firing[f].pc = "due" /\ f = CHOOSE g \in Firings : firing[g].pc = "due"
    /\ PlanLockIsFree
    /\ planLock' = f
    /\ Waiting # {} /\ Firing(f, "read", Waiting)
    /\ UNCHANGED <<syncVars, sender, copy, view>>

\* The rows are running, all in one commit, before the first message is sent.
TakeRows(f) ==
    /\ firing[f].pc = "read"
    /\ task' = [r \in Requests |-> IF r \in firing[f].rows THEN "running" ELSE task[r]]
    /\ Firing(f, "sending", firing[f].rows)
    /\ UNCHANGED <<exec, lock, syncStatus, log, newest, linked, unsaid, faults, sender, copy, planLock, view>>

Dispatch(f, r) ==
    /\ firing[f].pc = "sending" /\ r \in firing[f].rows
    /\ Queued(r)
    /\ Firing(f, "sending", firing[f].rows \ {r})
    /\ Sends(r, "over")
    /\ UNCHANGED <<lock, syncStatus, log, newest, rowVars, faults, copy, planLock, view>>

FiringEnds(f) ==
    /\ firing[f] = [pc |-> "sending", rows |-> {}]
    /\ planLock' = None
    /\ Firing(f, "due", {})
    /\ UNCHANGED <<syncVars, sender, copy, view>>

-----------------------------------------------------------------------------
(* What goes wrong.                                                        *)

\* The connection says running, and the row of the request cannot be written.
AcceptFails(r) ==
    /\ sender[r] = "asking"
    /\ Rarely
    /\ syncStatus' = "running"
    /\ Sends(r, "lost")
    /\ UNCHANGED <<exec, lock, log, newest, rowVars, lapses, copy, firing, planLock, view>>

\* The broker refuses the message: the API and the beat leave the row pending.
SubmitFails(r) ==
    /\ sender[r] \in {"accepted", "due"}
    /\ Rarely
    /\ Sends(r, "lost")
    /\ UNCHANGED <<exec, lock, syncStatus, log, newest, rowVars, lapses, copy, firing,
                   planLock, view>>

\* The plan notices, reports it in the row and goes on with the others.
DispatchFails(f, r) ==
    /\ firing[f].pc = "sending" /\ r \in firing[f].rows
    /\ Rarely
    /\ \/ task' = [task EXCEPT ![r] = "failed"] /\ unsaid' = unsaid \ {r}
       \/ unsaid' = unsaid \cup {r} /\ UNCHANGED task
    /\ Firing(f, "sending", firing[f].rows \ {r})
    /\ Sends(r, "over")
    /\ UNCHANGED <<exec, lock, syncStatus, log, newest, linked, lapses, copy, planLock, view>>

\* The API process stops with the request in its hands, or waits for ever.
ApiDies(r) ==
    /\ sender[r] \in {"accepted", "inline", "synced", "unsynced"}
    /\ Rarely
    /\ Sends(r, "lost")
    /\ UNCHANGED <<exec, lock, syncStatus, log, newest, rowVars, lapses, copy, firing,
                   planLock, view>>

\* The worker of the plan is killed: its lock stays for its hour.
FiringDies(f) ==
    /\ firing[f].pc \in {"read", "sending"}
    /\ Rarely
    /\ Firing(f, "dead", firing[f].rows)
    /\ UNCHANGED <<exec, lock, syncStatus, log, newest, rowVars, lapses, sender, copy,
                   planLock, view>>

PlanLockExpires ==
    /\ planLock # None
    /\ firing[planLock].pc = "dead"
    /\ planLock' = None
    /\ UNCHANGED <<syncVars, sender, copy, firing, view>>

-----------------------------------------------------------------------------
(* The views.  Each reads, and writes later by primary key what it then    *)
(* made of it; one view at a time has read and not yet written.            *)

Reads(of, rows, status) ==
    /\ view = NoView
    /\ view' = [of |-> of, rows |-> rows, status |-> status]

Writes(of) == view.of = of /\ view' = NoView

NewestEnded == newest # None /\ log[newest] # "running"

\* GET /connections aligns a running connection with its newest log.
Reconcile ==
    /\ syncStatus = "running"
    /\ NewestEnded
    /\ syncStatus' = "resting"
    /\ UNCHANGED <<exec, lock, log, newest, rowVars, faults, requestVars>>

\* The same when others get in between.
LookAtConnection ==
    /\ syncStatus = "running"
    /\ NewestEnded
    /\ Rarely
    /\ Reads("connection", {}, "resting")
    /\ UNCHANGED <<exec, lock, syncStatus, log, newest, rowVars, lapses, sender, copy, firing,
                   planLock>>

AlignConnection ==
    /\ Writes("connection")
    /\ syncStatus' = view.status
    /\ UNCHANGED <<exec, lock, log, newest, rowVars, faults, sender, copy, firing, planLock>>

\* A firing has not yet sent the message of r, or is in the middle of it.
InFlight(r) == \E f \in Firings : firing[f].pc \in {"read", "sending"} /\ r \in firing[f].rows
Opening(r) == RunsAt(r, {"acquired", "logged"})

\* Running for an hour without a log.  A message may wait that long for a worker, the
\* steps around it do not.
Stale == {r \in Requests : task[r] = "running" /\ ~linked[r] /\ ~InFlight(r) /\ ~Opening(r)}

\* GET /sync-overview and /sync-tasks: the stale rows are failed, whatever became of
\* them since they were read; one that names a log by now had its report overwritten.
LookAtTasks ==
    /\ Rarely
    /\ Stale # {}
    /\ Reads("tasks", Stale, "failed")
    /\ UNCHANGED <<exec, lock, syncStatus, log, newest, rowVars, lapses, sender, copy, firing,
                   planLock>>

FailTasks ==
    /\ Writes("tasks")
    /\ task' = [r \in Requests |-> IF r \in view.rows THEN view.status ELSE task[r]]
    /\ unsaid' = unsaid \cup {r \in view.rows : linked[r]}
    /\ UNCHANGED <<exec, lock, syncStatus, log, newest, linked, faults, sender, copy, firing,
                   planLock>>

\* Mutant: a row counts as completed unless its log failed.
CompletedUnlessFailed(status) == IF status = "failed" THEN "failed" ELSE "completed"

StatusOfLog(status) == IF status = "success" THEN "completed" ELSE status

HasNoRow(r) == log[r] # "none" /\ ~linked[r]

\* GET /sync-tasks: a row for a log that no row names.
LookAtLog(r) ==
    /\ HasNoRow(r) /\ copy[r] = "none"
    /\ Rarely
    /\ Reads("log", {r}, StatusOfLog(log[r]))
    /\ UNCHANGED <<exec, lock, syncStatus, log, newest, rowVars, lapses, sender, copy, firing,
                   planLock>>

Backfill ==
    /\ Writes("log")
    /\ copy' = [r \in Requests |-> IF r \in view.rows THEN view.status ELSE copy[r]]
    /\ UNCHANGED <<syncVars, sender, firing, planLock>>

-----------------------------------------------------------------------------
Worker(e) == (Work(e) \/ WorkerStops(e) \/ WorkerBreaks(e)) /\ UNCHANGED requestVars

Send(r) == InlineBegin(r) \/ InlineEnd(r) \/ InlineReport(r) \/ Submit(r)
PlanStep(f) == \/ TakeRows(f) \/ FiringEnds(f)
               \/ \E r \in Requests : Dispatch(f, r)

Looks == \/ Reconcile \/ LookAtConnection \/ AlignConnection \/ LookAtTasks \/ FailTasks \/ Backfill
         \/ \E r \in Requests : LookAtLog(r)

Next == \/ \E e \in Execs : Worker(e)
        \/ Expire /\ UNCHANGED requestVars
        \/ \E r \in Requests : \/ Ask(r) \/ Accept(r) \/ Beat(r) \/ Plan(r) \/ Send(r)
                               \/ InlineFails(r) \/ AcceptFails(r) \/ SubmitFails(r) \/ ApiDies(r)
        \/ \E f \in Firings : \/ Fire(f) \/ PlanStep(f) \/ FiringDies(f)
                              \/ \E r \in Requests : DispatchFails(f, r)
        \/ PlanLockExpires
        \/ Looks

Spec == Init /\ [][Next]_vars

\* What is not stopped goes on, and a worker takes every message: that a process is
\* killed or waits for ever is a step of its own.
Progress == \/ \E e \in Execs : Work(e) /\ UNCHANGED requestVars
            \/ \E r \in Requests : Send(r)
            \/ \E f \in Firings : PlanStep(f)
FairSpec == Spec /\ WF_vars(Progress)

-----------------------------------------------------------------------------
TypeOK ==
    /\ SyncTypeOK
    /\ sender \in [Requests -> {"none", "asking", "accepted", "inline", "synced",
                                "unsynced", "due", "planned", "lost", "over"}]
    /\ copy \in [Requests -> {"none", "running", "completed", "failed"}]
    /\ firing \in [Firings -> [pc : {"due", "read", "sending", "dead"}, rows : SUBSET Requests]]
    /\ planLock \in Firings \cup {None}
    /\ view \in [of : {"nothing", "connection", "tasks", "log"}, rows : SUBSET Requests,
                 status : {"none", "resting", "running", "completed", "failed"}]

\* A row of the plan is dispatched once, however its firings overlap: a request
\* has one first message.
DispatchedOnce ==
    \A r \in Requests : Cardinality({i \in DOMAIN exec[r] : exec[r][i].retries = 0}) <= 1

\* A process that was killed or stuck, an exception that nothing handles, or a broker
\* that refused the message, had request r.
Lost(r) == \/ sender[r] = "lost"
           \/ RunsAt(r, {"dead"})
           \/ \E f \in Firings : firing[f].pc = "dead" /\ r \in firing[f].rows

\* A retry of r found the lock taken, and nobody comes after it.
RetrySkipped(r) ==
    \E i \in DOMAIN exec[r] : exec[r][i].pc = "skipped" /\ exec[r][i].retries > 0

Alive(r) ==
    \/ sender[r] \in {"accepted", "inline"}
    \/ RunsAt(r, {"queued", "acquired", "logged", "syncing"})

\* "log=running: the connection stays running (in normal progress)"
\* (app/api/tableau.py, the reconciliation in the list of connections): a log
\* that says running has an execution that will end it, unless it was lost or a retry
\* was skipped because somebody else held the lock.
RunningLogIsExplained ==
    \A r \in Requests : log[r] = "running" => Alive(r) \/ Lost(r) \/ RetrySkipped(r)

\* A connection that says running, and so refuses the user's requests, is being
\* synchronised or about to be, or the next look at the list of connections frees
\* it, unless a request was lost or its retry skipped.
RunningConnectionIsExplained ==
    syncStatus = "running" =>
        \/ NewestEnded
        \/ \E r \in Requests : Alive(r) \/ Lost(r) \/ (log[r] = "running" /\ RetrySkipped(r))

\* Whatever says running, the log or the connection, is explained.
RunningIsExplained == RunningLogIsExplained /\ RunningConnectionIsExplained

\* No row runs ahead of its log.  A row that says completed, the one made with the
\* request or one that a view made for the log, has a log that ended, and so has a row
\* that says failed and names its log, unless a report did not get into it or a view
\* overwrote it.  Row, log and connection are written by commits of their own, in
\* executions that may overlap, fail and be overruled by views that read them before.
Ended(status) == status \in {"success", "failed"}

RowsTellTheEnd ==
    \A r \in Requests :
        /\ task[r] = "completed" => Ended(log[r])
        /\ task[r] = "failed" /\ linked[r] /\ r \notin unsaid => Ended(log[r])
        /\ copy[r] \in {"completed", "failed"} => Ended(log[r])

\* Every request that has a row ends, and stays ended, in that row, through every
\* chain of retries and however its executions collide with others, unless it was
\* lost, its last report did not get into the row, or it still waits for its plan
\* (_update_sync_task swallows what goes wrong, tableau_tasks.py:35).
Settled(r) == \/ task[r] \in {"none", "completed", "failed", "skipped"}
              \/ Lost(r) \/ r \in unsaid \/ sender[r] = "planned"
RequestsSettle == <>[](\A r \in Requests : Settled(r))

\* A row that a view fails because it "never created an execution log" (the docstring
\* of _reconcile_stale_sync_tasks) names no log.
FailedRowsNeverLogged == [][FailTasks => \A r \in view.rows : ~linked[r]]_vars

\* The state machine of a bi_sync_tasks row (spec 43, 3.2).
TaskMoves == {<<"none", "pending">>, <<"pending", "running">>, <<"pending", "skipped">>,
              <<"running", "completed">>, <<"running", "failed">>}

TaskFollowsDiagram ==
    [][\A r \in Requests : task'[r] # task[r] => <<task[r], task'[r]>> \in TaskMoves]_vars
=============================================================================

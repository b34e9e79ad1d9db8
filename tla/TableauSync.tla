----------------------------- MODULE TableauSync -----------------------------
(***************************************************************************)
(* The executions of sync_connection_task by Celery workers for one        *)
(* Tableau connection (services/tasks/tableau_tasks.py), the Redis lock    *)
(* they share, and the rows they report in: the connection's sync_status,  *)
(* a sync log and a bi_sync_tasks row for each request.                    *)
(*                                                                         *)
(* An execution is a Celery message and the run of it; a retry is a new    *)
(* message with retries + 1 and the same log and task row.  Executions are *)
(* numbered within their request.  The requests that queue the first       *)
(* message are in SyncRequests.                                            *)
(***************************************************************************)
EXTENDS Naturals, Sequences, FiniteSets

CONSTANTS Requests,     \* requests to synchronise the connection
          MaxRetries,   \* max_retries of the task, 2 in the code
          MaxRare,      \* bound on what seldom happens: the steps that say Rarely
          None

ASSUME RetriesAssumption == MaxRetries \in Nat
ASSUME RareAssumption == MaxRare \in Nat
ASSUME NoneAssumption == None \notin Requests /\ None \notin Requests \X Nat

VARIABLES exec,        \* exec[r]: the executions of request r, in the order they were queued
          lock,        \* the lock key: the execution that set it, or None
          syncStatus,  \* tableau_connections.sync_status: running, or resting for the others
          log,         \* log[r]: status of the request's tableau_sync_logs row, partial as success
          newest,      \* the request whose log has the highest id
          task,        \* task[r]: status of the request's bi_sync_tasks row
          linked,      \* linked[r]: the task row has its sync_log_id
          unsaid,      \* history: the requests whose row does not show their last report
          lapses,      \* history: how often the key expired under an execution at work
          rare         \* history: how much has happened that seldom does

rowVars == <<task, linked, unsaid>>
faults == <<lapses, rare>>
syncVars == <<exec, lock, syncStatus, log, newest, rowVars, faults>>

Execs == UNION {{r} \X DOMAIN exec[r] : r \in Requests}
Row(e) == e[1]
Run(e) == exec[e[1]][e[2]]

Pcs == {"queued", "acquired", "logged", "syncing", "synced", "failed", "releasing",
        "over", "skipped", "dead"}
Messages == [pc : Pcs, retries : 0..MaxRetries, locked : BOOLEAN]
Message(n) == [pc |-> "queued", retries |-> n, locked |-> FALSE]
Queued(r) == exec' = [exec EXCEPT ![r] = Append(@, Message(0))]

SyncInit == /\ exec = [r \in Requests |-> <<>>]
            /\ lock = None
            /\ syncStatus = "resting"
            /\ log = [r \in Requests |-> "none"]
            /\ newest = None
            /\ task = [r \in Requests |-> "none"]
            /\ linked = [r \in Requests |-> FALSE]
            /\ unsaid = {}
            /\ lapses = 0 /\ rare = 0

Rarely == rare < MaxRare /\ rare' = rare + 1

At(e, label) == Run(e).pc = label

\* Some execution of r is in one of these places.
RunsAt(r, labels) == \E i \in DOMAIN exec[r] : exec[r][i].pc \in labels
Moved(e, label) == [exec EXCEPT ![e[1]][e[2]].pc = label]
Left(e, label) == [exec EXCEPT ![e[1]][e[2]].pc = label, ![e[1]][e[2]].locked = FALSE]

-----------------------------------------------------------------------------
\* _update_sync_task, in a session of its own: every exception is swallowed, so the
\* task goes on whether the row was written or not.
Report(r, status, named) ==
    \/ /\ task' = [task EXCEPT ![r] = status]
       /\ linked' = [linked EXCEPT ![r] = @ \/ named]
       /\ unsaid' = unsaid \ {r}
       /\ UNCHANGED faults
    \/ /\ unsaid' = unsaid \cup {r}
       /\ Rarely
       /\ UNCHANGED <<task, linked, lapses>>

-----------------------------------------------------------------------------
\* A retry comes long after its predecessor let go (default_retry_delay); of two
\* messages alike, which one is taken first makes no difference.
Due(e) ==
    /\ At(e, "queued")
    /\ \A i \in DOMAIN exec[Row(e)] : LET d == exec[Row(e)][i]
                                      IN  /\ d.retries < Run(e).retries => d.pc # "releasing"
                                          /\ i < e[2] => d # Run(e)

LockIsFree == lock = None

\* Mutant: the skip returns from inside the block that deletes the key.
SkipFreesLock == lock' = None

SkipLeavesLock == lock' = lock

\* SET NX EX 300.
Acquire(e) ==
    /\ Due(e)
    /\ LockIsFree
    /\ lock' = e
    /\ exec' = [exec EXCEPT ![e[1]][e[2]].pc = "acquired", ![e[1]][e[2]].locked = TRUE]
    /\ UNCHANGED <<syncStatus, log, newest, rowVars, faults>>

Skip(e) ==
    /\ Due(e)
    /\ ~LockIsFree
    /\ SkipLeavesLock
    /\ Report(Row(e), "skipped", FALSE)
    /\ exec' = Moved(e, "skipped")
    /\ UNCHANGED <<syncStatus, log, newest>>

\* Redis raised: the task goes on without the lock, and will not delete it.  The
\* key may have been set all the same, if only the answer was lost.
GoWithoutLock(e) ==
    /\ Due(e)
    /\ Rarely
    /\ \/ UNCHANGED lock
       \/ LockIsFree /\ lock' = e
    /\ exec' = Moved(e, "acquired")
    /\ UNCHANGED <<syncStatus, log, newest, rowVars, lapses>>

\* A running log for a request that has none; a retry uses the one it finds, which
\* nothing sets to running again.
LogOpened(r) == /\ log' = [log EXCEPT ![r] = IF @ = "none" THEN "running" ELSE @]
                /\ newest' = IF log[r] = "none" THEN r ELSE newest
                /\ syncStatus' = "running"

Begin(e) ==
    /\ At(e, "acquired")
    /\ LogOpened(Row(e))
    /\ exec' = Moved(e, "logged")
    /\ UNCHANGED <<lock, rowVars, faults>>

Link(e) ==
    /\ At(e, "logged")
    /\ Report(Row(e), "running", TRUE)
    /\ exec' = Moved(e, "syncing")
    /\ UNCHANGED <<lock, syncStatus, log, newest>>

\* sync_all_assets to its end: the log, then the connection.
Synced(r) == /\ \E result \in {"success", "failed"} : log' = [log EXCEPT ![r] = result]
             /\ syncStatus' = "resting"

Finish(e) ==
    /\ At(e, "syncing")
    /\ Synced(Row(e))
    /\ exec' = Moved(e, "synced")
    /\ UNCHANGED <<lock, newest, rowVars, faults>>

\* Mutant: success is not reported.
StillRunning == "running"

Completed == "completed"

Complete(e) ==
    /\ At(e, "synced")
    /\ Report(Row(e), Completed, TRUE)
    /\ exec' = Moved(e, "releasing")
    /\ UNCHANGED <<lock, syncStatus, log, newest>>

MayRetry(e) == Run(e).retries < MaxRetries

Retried(e, n) ==
    [exec EXCEPT ![e[1]] = [@ EXCEPT ![e[2]].pc = "releasing"]
                             \o [i \in 1..n |-> Message(Run(e).retries + 1)]]

\* An exception in the synchronisation, or after it when the count of failures is
\* reset and the log has ended already: one retry.
RetryAfterError(e) ==
    /\ At(e, "syncing") \/ At(e, "synced")
    /\ MayRetry(e)
    /\ exec' = Retried(e, 1)
    /\ UNCHANGED <<lock, syncStatus, log, newest, rowVars, faults>>

\* A failed connect calls self.retry, which queues a message and raises Retry;
\* the except clause takes that for an error and calls self.retry again.
RetryAfterConnect(e) ==
    /\ At(e, "syncing")
    /\ MayRetry(e)
    /\ exec' = Retried(e, 2)
    /\ UNCHANGED <<lock, syncStatus, log, newest, rowVars, faults>>

\* Mutant: the last failure is not written to the log.
LogLeftRunning(r) == log

LogFailed(r) == [log EXCEPT ![r] = "failed"]

\* The last attempt failed, or the token of the connection cannot be decrypted.
Fail(e) ==
    /\ At(e, "syncing") \/ (At(e, "synced") /\ ~MayRetry(e))
    /\ log' = LogFailed(Row(e))
    /\ syncStatus' = "resting"
    /\ exec' = Moved(e, "failed")
    /\ UNCHANGED <<lock, newest, rowVars, faults>>

ReportFailure(e) ==
    /\ At(e, "failed")
    /\ Report(Row(e), "failed", TRUE)
    /\ exec' = Moved(e, "releasing")
    /\ UNCHANGED <<lock, syncStatus, log, newest>>

\* Who has locked deletes the key, whoever set it, unless Redis fails.
Release(e) ==
    /\ At(e, "releasing")
    /\ exec' = Left(e, "over")
    /\ \/ Run(e).locked /\ lock' = None /\ UNCHANGED rare
       \/ Run(e).locked /\ UNCHANGED lock /\ Rarely
       \/ ~Run(e).locked /\ UNCHANGED <<lock, rare>>
    /\ UNCHANGED <<syncStatus, log, newest, rowVars, lapses>>

AtWork == {"acquired", "logged", "syncing", "synced", "failed", "releasing"}

\* It believes in the key that it set, and will delete it.
Holds(e) == Run(e).locked /\ Run(e).pc \in AtWork

\* Nothing bounds a synchronisation: the key may expire under it.
Expire ==
    /\ lock # None
    /\ lock' = None
    /\ \/ Holds(lock) /\ Rarely /\ lapses' = lapses + 1
       \/ ~Holds(lock) /\ UNCHANGED faults
    /\ UNCHANGED <<exec, syncStatus, log, newest, rowVars>>

\* The process is killed or a call never returns (the clients of Tableau and Redis
\* have no time-outs).  The message was acknowledged when the worker took it: it
\* does not come back.
WorkerStops(e) ==
    /\ Run(e).pc \in AtWork \/ Due(e)
    /\ Rarely
    /\ exec' = Left(e, "dead")
    /\ UNCHANGED <<lock, syncStatus, log, newest, rowVars, lapses>>

\* An exception where nothing handles it, as of the database when the log is opened
\* or a failure is written, or of the broker in self.retry: the key is deleted, no more.
WorkerBreaks(e) ==
    /\ Run(e).pc \in AtWork \ {"releasing"}
    /\ Rarely
    /\ exec' = Left(e, "dead")
    /\ lock' = IF Run(e).locked THEN None ELSE lock
    /\ UNCHANGED <<syncStatus, log, newest, rowVars, lapses>>

Work(e) == \/ Acquire(e) \/ Skip(e) \/ Begin(e) \/ Link(e) \/ Finish(e) \/ Complete(e)
           \/ RetryAfterError(e) \/ RetryAfterConnect(e) \/ Fail(e) \/ ReportFailure(e)
           \/ GoWithoutLock(e) \/ Release(e)

-----------------------------------------------------------------------------
SyncTypeOK ==
    /\ exec \in [Requests -> Seq(Messages)]
    /\ lock \in Execs \cup {None}
    /\ syncStatus \in {"resting", "running"}
    /\ log \in [Requests -> {"none", "running", "success", "failed"}]
    /\ newest \in Requests \cup {None}
    /\ task \in [Requests -> {"none", "pending", "running", "completed", "failed", "skipped"}]
    /\ linked \in [Requests -> BOOLEAN]
    /\ unsaid \in SUBSET Requests
    /\ lapses \in 0..MaxRare /\ rare \in 0..MaxRare

Working(e) == Run(e).pc \in {"acquired", "logged", "syncing", "synced", "failed"}

\* What the lock is for (the task's docstring: a connection is not synchronised twice
\* at a time), as far as it goes: apart from the owner of the key, as many executions
\* believe that they hold it as there were expiries under an execution at work.  One
\* expiry puts one more execution beside the others, and no chain of them, although
\* each deletes the key of the next; and without expiry the lock excludes.
LapsesBoundOverlaps == Cardinality({e \in Execs : Holds(e) /\ lock # e}) <= lapses

\* The docstring itself: no two executions work at once.
OneSyncAtATime == \A d, e \in Execs : Working(d) /\ Working(e) => d = e

\* "sync_connection_task retries at most 2 times" (spec 07, 4.2.3): a request
\* is executed at most MaxRetries + 1 times.
RetriesAreBounded ==
    \A r \in Requests : Cardinality({e \in Execs : Row(e) = r}) <= MaxRetries + 1

=============================================================================

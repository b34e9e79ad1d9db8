-------------------------- MODULE SemanticPublish --------------------------
(***************************************************************************)
(* The life of a data source's semantics: written or generated, reviewed,   *)
(* approved, put to Tableau through its REST API, retried and rolled back   *)
(* (services/semantic_maintenance).                                         *)
(*                                                                          *)
(* Every endpoint is an async function that calls blocking code, so one     *)
(* request holds the event loop of the only API process until it returns:   *)
(* `handler' is that request.  What can happen between two of its steps is  *)
(* the asset synchronisation of a Celery worker (Archive), an unclear answer *)
(* of Tableau, and the death of the process.                                *)
(***************************************************************************)
EXTENDS Naturals, FiniteSets

CONSTANTS Datasources,   \* the data sources of one Tableau connection
          Written,       \* texts a person writes
          Generated,     \* texts the language model writes
          Original,      \* the text Tableau has before the first publish
          NoText,        \* an empty description
          Sensitive,     \* the values of "sensitivity is high or confidential"
          MaxLogs,       \* bound: publish logs
          MaxEdits,      \* bound: manual and generated updates
          MaxRestores,   \* bound: restored versions
          MayCrash       \* whether the API process may die

ASSUME BoundsAssumption == MaxLogs \in Nat /\ MaxEdits \in Nat /\ MaxRestores \in Nat
ASSUME SwitchAssumption == Sensitive \subseteq BOOLEAN /\ FALSE \in Sensitive /\ MayCrash \in BOOLEAN
ASSUME TextAssumption == /\ Original \notin Generated /\ NoText \notin Generated
                         /\ Written \cap Generated = {}

VARIABLES semantics,  \* the row of each data source
          versions,   \* the snapshots taken of it
          tableau,    \* the description each one has in Tableau
          logs,       \* tableau_publish_logs
          used,       \* how many of them exist
          handler,    \* the request that holds the event loop
          edits,      \* bound counters
          restores,
          approved,   \* history: the texts a reviewer approved
          crashed     \* history: the process died inside a request

vars == <<semantics, versions, tableau, logs, used, handler, edits, restores, approved, crashed>>
----------------------------------------------------------------------------
Texts == Written \cup Generated \cup {Original, NoText}
LogIds == 1..MaxLogs
Status == {"draft", "ai_generated", "reviewed", "approved", "rejected", "archived"}
Row == [status: Status, text: Texts, sensitive: BOOLEAN, published: BOOLEAN]
Snapshot == [status: Status, text: Texts, sensitive: BOOLEAN]

\* A log of kind "publish" has a diff {description: {tableau, mulan}}: `before' is
\* its tableau side, NoText when there is nothing to restore.  A log of kind
\* "undo" has {rollback: {description: before}}.
Log == [ds: Datasources, kind: {"publish", "undo"}, before: Texts, text: Texts,
        status: {"pending", "success", "failed", "rolled_back"}]
NoLog == [status |-> "none"]
NoSnapshot == [status |-> "none"]

Steps == {"put", "answered", "logged", "retry", "close", "mark", "restore", "copy"}
Handler == [step: Steps, ds: Datasources, log: 0..MaxLogs, ok: BOOLEAN,
            retries: 0..MaxLogs, attempt: 0..3, undoes: 0..MaxLogs,
            to: Snapshot \cup {NoSnapshot}]
Idle == [step |-> "idle"]

Base(step, d) == [step |-> step, ds |-> d, log |-> 0, ok |-> FALSE, retries |-> 0,
                  attempt |-> 0, undoes |-> 0, to |-> NoSnapshot]

SnapshotOf(d) == [status |-> semantics[d].status, text |-> semantics[d].text,
                  sensitive |-> semantics[d].sensitive]
TakeSnapshot(d) == versions' = [versions EXCEPT ![d] = @ \cup {SnapshotOf(d)}]
SetStatus(l, s) == [logs EXCEPT ![l].status = s]
----------------------------------------------------------------------------
Init == /\ semantics = [d \in Datasources |-> [status |-> "draft", text |-> NoText,
                                               sensitive |-> FALSE, published |-> FALSE]]
        /\ versions = [d \in Datasources |-> {}]
        /\ tableau = [d \in Datasources |-> Original]
        /\ logs = [l \in LogIds |-> NoLog]
        /\ used = 0 /\ handler = Idle /\ edits = 0 /\ restores = 0
        /\ approved = {} /\ crashed = FALSE

\* The row changes, in its text or elsewhere, and the one before is kept; the manual
\* update leaves the status alone, the generated one sets it whatever it was.
Edit(d, t, s) ==
    /\ handler = Idle /\ edits < MaxEdits
    /\ TakeSnapshot(d)
    /\ semantics' = [semantics EXCEPT ![d].text = t, ![d].sensitive = s]
    /\ edits' = edits + 1
    /\ UNCHANGED <<tableau, logs, used, handler, restores, approved, crashed>>

Generate(d, t, s) ==
    /\ handler = Idle /\ edits < MaxEdits
    /\ ~semantics[d].sensitive
    /\ TakeSnapshot(d)
    /\ semantics' = [semantics EXCEPT ![d].text = t, ![d].sensitive = s, ![d].status = "ai_generated"]
    /\ edits' = edits + 1
    /\ UNCHANGED <<tableau, logs, used, handler, restores, approved, crashed>>

Allowed(from, to) ==
    \/ from \in {"draft", "ai_generated", "approved"} /\ to = "reviewed"
    \/ from = "reviewed" /\ to \in {"approved", "rejected"}

Review(d, to) ==
    /\ handler = Idle
    /\ Allowed(semantics[d].status, to)
    /\ semantics' = [semantics EXCEPT ![d].status = to]
    /\ approved' = IF to = "approved" THEN approved \cup {<<d, semantics[d].text>>} ELSE approved
    /\ UNCHANGED <<versions, tableau, logs, used, handler, edits, restores, crashed>>

\* The data source is gone from Tableau's list at the end of a synchronisation.
Archive(d) ==
    /\ semantics[d].status # "archived"
    /\ semantics' = [semantics EXCEPT ![d].status = "archived"]
    /\ UNCHANGED <<versions, tableau, logs, used, handler, edits, restores, approved, crashed>>
----------------------------------------------------------------------------
(* Publishing: check, read Tableau, log, PUT, log, flag. *)

\* Mutant: a review is enough.
MayPublishReviewed(d) == semantics[d].status \in {"reviewed", "approved"} /\ ~semantics[d].sensitive

MayPublish(d) == semantics[d].status = "approved" /\ ~semantics[d].sensitive

\* What the diff says Tableau had; `seen' is NoText when the GET failed.
Before(d, seen) == IF semantics[d].text = seen THEN NoText ELSE seen

NewLog(rec, h) == /\ used < MaxLogs
                  /\ logs' = [logs EXCEPT ![used + 1] = rec]
                  /\ used' = used + 1
                  /\ handler' = [h EXCEPT !.step = "put", !.log = used + 1]

OpenPublish(d, seen, h) ==
    /\ seen \in {tableau[d], NoText}
    /\ NewLog([ds |-> d, kind |-> "publish", before |-> Before(d, seen),
               text |-> semantics[d].text, status |-> "pending"], h)

Publish(d, seen) ==
    /\ handler = Idle
    /\ MayPublish(d)
    /\ OpenPublish(d, seen, Base("put", d))
    /\ UNCHANGED <<semantics, versions, tableau, edits, restores, approved, crashed>>

\* The PUT of a publish or of a rollback: done and confirmed, done without an
\* answer, or not done.
Put(done, ok) ==
    /\ handler.step = "put"
    /\ ok => done
    /\ tableau' = IF done THEN [tableau EXCEPT ![handler.ds] = logs[handler.log].text] ELSE tableau
    /\ handler' = [handler EXCEPT !.step = "answered", !.ok = ok]
    /\ UNCHANGED <<semantics, versions, logs, used, edits, restores, approved, crashed>>

OutcomeUnknown(ok) == IF ok THEN "success" ELSE "error"
Outcome(ok) == IF ok THEN "success" ELSE "failed"

ForgetRetry == Idle
\* What follows a publish that failed: the next attempt of a retry, or the answer.
AfterFailure == IF handler.retries = 0 THEN Idle
                ELSE [handler EXCEPT !.step = "retry", !.attempt = @ + 1]

RecordPublish ==
    /\ handler.step = "answered" /\ handler.undoes = 0
    /\ logs' = SetStatus(handler.log, Outcome(handler.ok))
    /\ handler' = IF handler.ok THEN [handler EXCEPT !.step = "logged"] ELSE AfterFailure
    /\ UNCHANGED <<semantics, versions, tableau, used, edits, restores, approved, crashed>>

\* published_to_tableau; the status stays what it is, and a retried log keeps the
\* status the retry gave it.
Flag ==
    /\ handler.step = "logged"
    /\ TakeSnapshot(handler.ds)
    /\ semantics' = [semantics EXCEPT ![handler.ds].published = TRUE]
    /\ handler' = Idle
    /\ UNCHANGED <<tableau, logs, used, edits, restores, approved, crashed>>

\* The database refuses the flag: the except clause calls the publish a failure.
FlagFails ==
    /\ handler.step = "logged"
    /\ logs' = SetStatus(handler.log, "failed")
    /\ handler' = AfterFailure
    /\ UNCHANGED <<semantics, versions, tableau, used, edits, restores, approved, crashed>>
----------------------------------------------------------------------------
(* Retrying a failed log: up to three new publishes of its data source. *)

Retry(l) ==
    /\ handler = Idle
    /\ logs[l].status = "failed"
    /\ logs' = SetStatus(l, "pending")
    /\ handler' = [Base("retry", logs[l].ds) EXCEPT !.retries = l]
    /\ UNCHANGED <<semantics, versions, tableau, used, edits, restores, approved, crashed>>

Attempt(seen) ==
    /\ handler.step = "retry" /\ handler.attempt < 3
    /\ MayPublish(handler.ds)
    /\ OpenPublish(handler.ds, seen, handler)
    /\ UNCHANGED <<semantics, versions, tableau, edits, restores, approved, crashed>>

AttemptRefused ==
    /\ handler.step = "retry" /\ handler.attempt < 3
    /\ ~MayPublish(handler.ds)
    /\ handler' = [handler EXCEPT !.attempt = @ + 1]
    /\ UNCHANGED <<semantics, versions, tableau, logs, used, edits, restores, approved, crashed>>

GiveUp ==
    /\ handler.step = "retry" /\ handler.attempt = 3
    /\ logs' = SetStatus(handler.retries, "failed")
    /\ handler' = Idle
    /\ UNCHANGED <<semantics, versions, tableau, used, edits, restores, approved, crashed>>
----------------------------------------------------------------------------
(* rollback_publish: PUT what the diff says Tableau had. *)

CanUndoAny(l) == logs[l].kind = "publish" /\ logs[l].before # NoText
CanUndo(l) == logs[l].status = "success" /\ logs[l].kind = "publish" /\ logs[l].before # NoText

OpenUndo(l, to) ==
    NewLog([ds |-> logs[l].ds, kind |-> "undo", before |-> logs[l].before,
            text |-> logs[l].before, status |-> "pending"],
           [Base("put", logs[l].ds) EXCEPT !.undoes = l, !.to = to])

Undo(l) ==
    /\ handler = Idle
    /\ CanUndo(l)
    /\ OpenUndo(l, NoSnapshot)
    /\ UNCHANGED <<semantics, versions, tableau, edits, restores, approved, crashed>>

RecordUndo ==
    /\ handler.step = "answered" /\ handler.undoes # 0
    /\ logs' = SetStatus(handler.log, Outcome(handler.ok))
    /\ handler' = IF handler.ok THEN [handler EXCEPT !.step = "mark"] ELSE Idle
    /\ UNCHANGED <<semantics, versions, tableau, used, edits, restores, approved, crashed>>

MarkRolledBack ==
    /\ handler.step = "mark"
    /\ logs' = SetStatus(handler.undoes, "rolled_back")
    /\ handler' = IF handler.to = NoSnapshot THEN Idle ELSE [handler EXCEPT !.step = "restore"]
    /\ UNCHANGED <<semantics, versions, tableau, used, edits, restores, approved, crashed>>
----------------------------------------------------------------------------
(* rollback_datasource_semantic: Tableau first, if it was published, then the row. *)

Successes == {l \in 1..used : logs[l].status = "success"}
Latest(l) == l \in Successes /\ \A m \in Successes : m <= l

\* The newest success of the connection, when it belongs to this data source.
Published(d) == {l \in Successes : Latest(l) /\ logs[l].ds = d}
MustUndo(d) == semantics[d].published /\ Published(d) # {}

Restored(d, v) == [semantics EXCEPT ![d].status = v.status, ![d].text = v.text,
                                    ![d].sensitive = v.sensitive]

\* Nothing to undo in Tableau.
RestoreLocal(d, v) ==
    /\ handler = Idle /\ restores < MaxRestores
    /\ ~MustUndo(d)
    /\ v \in versions[d]
    /\ TakeSnapshot(d)
    /\ semantics' = Restored(d, v)
    /\ restores' = restores + 1
    /\ UNCHANGED <<tableau, logs, used, handler, edits, approved, crashed>>

RestoreBoth(d, v) ==
    /\ handler = Idle /\ restores < MaxRestores
    /\ semantics[d].published
    /\ v \in versions[d]
    /\ \E l \in Published(d) : CanUndo(l) /\ OpenUndo(l, v)
    /\ UNCHANGED <<semantics, versions, tableau, edits, restores, approved, crashed>>

Restore ==
    /\ handler.step = "restore"
    /\ TakeSnapshot(handler.ds)
    /\ semantics' = Restored(handler.ds, handler.to)
    /\ restores' = restores + 1
    /\ handler' = Idle
    /\ UNCHANGED <<tableau, logs, used, edits, approved, crashed>>
----------------------------------------------------------------------------
(* RollbackService.execute_rollback, behind /publish-logs/{id}/rollback: the diff
   of a publish has no "rollback" key and restores nothing; that of a rollback
   has one, and its value becomes the local text. *)

RollbackLog(l) ==
    /\ handler = Idle /\ used < MaxLogs
    /\ logs[l].status = "success"
    /\ semantics' = IF logs[l].kind = "undo"
                    THEN [semantics EXCEPT ![logs[l].ds].text = logs[l].before]
                    ELSE semantics
    /\ handler' = [Base("copy", logs[l].ds) EXCEPT !.log = l]
    /\ UNCHANGED <<versions, tableau, logs, used, edits, restores, approved, crashed>>

CopyLog ==
    /\ handler.step = "copy"
    /\ logs' = [logs EXCEPT ![used + 1] = logs[handler.log], ![handler.log].status = "rolled_back"]
    /\ used' = used + 1
    /\ handler' = Idle
    /\ UNCHANGED <<semantics, versions, tableau, edits, restores, approved, crashed>>
----------------------------------------------------------------------------
\* The process dies inside a request.
Crash ==
    /\ MayCrash /\ handler # Idle
    /\ handler' = Idle /\ crashed' = TRUE
    /\ UNCHANGED <<semantics, versions, tableau, logs, used, edits, restores, approved>>

Next == \/ \E d \in Datasources :
             \/ \E s \in Sensitive :
                   \/ \E t \in Written \cup {semantics[d].text} : Edit(d, t, s)
                   \/ \E t \in Generated \cup {semantics[d].text} : Generate(d, t, s)
             \/ \E to \in {"reviewed", "approved", "rejected"} : Review(d, to)
             \/ Archive(d)
             \/ \E seen \in Texts : Publish(d, seen)
             \/ \E v \in versions[d] : RestoreLocal(d, v) \/ RestoreBoth(d, v)
        \/ \E l \in 1..used : Retry(l) \/ Undo(l) \/ RollbackLog(l)
        \/ \E done, ok \in BOOLEAN : Put(done, ok)
        \/ \E seen \in Texts : Attempt(seen)
        \/ RecordPublish \/ Flag \/ FlagFails \/ AttemptRefused \/ GiveUp
        \/ RecordUndo \/ MarkRolledBack \/ Restore \/ CopyLog \/ Crash

Spec == Init /\ [][Next]_vars
----------------------------------------------------------------------------
TypeOK == /\ semantics \in [Datasources -> Row]
          /\ versions \in [Datasources -> SUBSET Snapshot]
          /\ tableau \in [Datasources -> Texts]
          /\ used \in 0..MaxLogs /\ edits \in Nat /\ restores \in Nat
          /\ logs \in [LogIds -> Log \cup {NoLog}]
          /\ \A l \in 1..used : logs[l] \in Log
          /\ handler \in Handler \cup {Idle}
          /\ approved \subseteq Datasources \X Texts
          /\ crashed \in BOOLEAN

\* A generated text that is in Tableau was approved by a reviewer, whatever
\* retries, rollbacks and restored versions brought it there (spec 09:452, "AI
\* semantics are not published automatically").
GeneratedWasApproved == \A d \in Datasources :
    tableau[d] \in Generated => <<d, tableau[d]>> \in approved

\* A log that stays pending after its request was retried with success or lost its
\* process: no other way leaves a publish open (publish_service.py 292-336).
Open(l) == handler # Idle /\ l \in {handler.log, handler.retries}
OpenLogsAreExplained == \A l \in 1..used :
    logs[l].status = "pending" /\ ~Open(l) =>
        \/ crashed
        \/ \E m \in (l + 1)..used : logs[m].ds = logs[l].ds /\ logs[m].status \in {"success", "rolled_back"}

\* A log never leaves "rolled_back", and only a success or a retry enters the states
\* behind it (spec 19, 4.2).
LogMove(from, to) == <<from, to>> \in {<<"pending", "success">>, <<"pending", "failed">>,
    <<"success", "failed">>, <<"failed", "pending">>, <<"success", "rolled_back">>}
LogsFollowLifecycle == [][\A l \in 1..used : logs'[l].status # logs[l].status =>
                                LogMove(logs[l].status, logs'[l].status)]_vars

\* What the code or a document says and a run refutes:

\* "approved semantics are written back to Tableau" (publish_service.py:3).
PublishedWasApproved == \A d \in Datasources :
    tableau[d] = Original \/ <<d, tableau[d]>> \in approved

\* "pending: publishing" (spec 19:256).
PendingMeansPublishing == \A l \in 1..used : logs[l].status = "pending" => Open(l)

\* A failed rollback log is there "to be retried by hand" (spec 09:213): a retry of
\* it puts back what it was to put back.
RetriedUndoRestores == [][handler # Idle /\ tableau' # tableau /\ handler.retries # 0
        /\ logs[handler.retries].kind = "undo"
    => tableau'[handler.ds] = logs[handler.retries].before]_vars

\* Rolling a publish log back "restores the state before the publish" (publish.py:384).
RolledBackIsRestored == [][\A l \in 1..used :
    logs[l].kind = "publish" /\ logs[l].status # "rolled_back" /\ logs'[l].status = "rolled_back"
        => tableau'[logs[l].ds] = logs[l].before]_vars

\* Restoring a version of a published data source undoes what Tableau was given
\* (service.py:129): the text it was published with does not stay there.
RestoreReachesTableau == [][\A d \in Datasources :
    restores' # restores /\ semantics[d].published /\ semantics'[d].text # semantics[d].text
    => tableau[d] # semantics[d].text]_vars
=============================================================================

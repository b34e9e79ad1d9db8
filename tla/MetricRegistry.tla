--------------------------- MODULE MetricRegistry ---------------------------
(***************************************************************************)
(* The registry of metric definitions (services/metrics_agent/registry.py, *)
(* lineage.py) under concurrent requests.  A row of bi_metric_definitions  *)
(* has no status column: what a metric is follows from is_active,          *)
(* published_at and reviewed_at.  Its dependencies are rows of a table of  *)
(* their own.                                                              *)
(*                                                                         *)
(* The three steps of a review lock the row before they read it, so each   *)
(* is one action.  Every other handler reads the row without a lock,       *)
(* decides in Python and flushes later; the flush names the columns whose  *)
(* value differs from the one that was loaded, and waits for whoever holds *)
(* the row.  Between load and commit the other requests run: the endpoints *)
(* are served by a thread pool, the lineage endpoint awaits the language   *)
(* model.                                                                  *)
(*                                                                         *)
(* Left out: the log of versions, bindings (an invalid one is a request    *)
(* that fails), sensitivity levels, and columns that no decision reads.    *)
(***************************************************************************)
EXTENDS Naturals

CONSTANTS Metrics, Users, Texts,
          Creator,        \* created_by of each metric, never written again
          Requests,       \* sessions of concurrent requests
          MaxChanges,     \* bound on the edits and take-downs of a behaviour
          Nobody, NoText, \* NULL in reviewed_by and in formula
          None            \* no request, no lock

ASSUME NobodyAssumption == Nobody \notin Users
ASSUME CreatorAssumption == Creator \in [Metrics -> Users]
ASSUME NoneAssumption == None \notin Requests
ASSUME ChangesAssumption == MaxChanges \in Nat

VARIABLES rows,       \* rows[m]: the committed row of bi_metric_definitions
          created,    \* the metrics that have a row
          deps,       \* deps[m]: bi_metric_dependencies, what m is computed from
          lock,       \* lock[m]: the request whose flushed UPDATE holds the row
          request,    \* request[q]: the open transaction of request q
          decided,    \* history: the review state the last reviewer was told
          raced,      \* history: metrics a request changed while a rival was open
          changes     \* edits and take-downs begun so far, at most MaxChanges

vars == <<rows, created, deps, lock, request, decided, raced, changes>>
history == <<decided, raced>>

Reviews == {"no", "pending", "done"}  \* reviewed_at: NULL, the sentinel, a time

Rows == [active : BOOLEAN, published : BOOLEAN, reviewed : Reviews,
         reviewer : Users \cup {Nobody}, lineage : BOOLEAN,
         text : Texts \cup {NoText}, derived : BOOLEAN]

\* A new definition; lineage is "not unknown": resolved or manual.
Blank == [active |-> FALSE, published |-> FALSE, reviewed |-> "no",
          reviewer |-> Nobody, lineage |-> FALSE, text |-> NoText,
          derived |-> FALSE]

-----------------------------------------------------------------------------
Published(row) == row.active /\ row.published
Pending(row) == ~Published(row) /\ row.reviewed = "pending"

\* Mutant: a metric that was taken down counts as approved.
ApprovedOnce(row) == ~Published(row) /\ row.reviewed = "done"

Approved(row) == ~Published(row) /\ row.reviewed = "done" /\ ~row.published
Archived(row) == row.published /\ ~row.active /\ row.reviewed # "pending"
Draft(row) == row.reviewed = "no" /\ ~row.published

\* Mutant: the flush writes every column of the loaded object.
WholeRow(now, seen, wanted) == wanted

\* The row after a flush: only what the request changed since it loaded it.
Flushed(now, seen, wanted) ==
    LET Pick(n, s, w) == IF w = s THEN n ELSE w
    IN  [active    |-> Pick(now.active, seen.active, wanted.active),
         published |-> Pick(now.published, seen.published, wanted.published),
         reviewed  |-> Pick(now.reviewed, seen.reviewed, wanted.reviewed),
         reviewer  |-> Pick(now.reviewer, seen.reviewer, wanted.reviewer),
         lineage   |-> Pick(now.lineage, seen.lineage, wanted.lineage),
         text      |-> Pick(now.text, seen.text, wanted.text),
         derived   |-> Pick(now.derived, seen.derived, wanted.derived)]

\* Mutant: only the metric itself is looked for.
DependsOnItself(D, m) == m \in D

\* The walk along the committed dependencies from D meets m: every set that holds D and what
\* its members depend on holds m.  (The code reads one metric's dependencies at a time; here
\* the graph is read at once.)
WouldCycle(D, m) ==
    \A seen \in SUBSET Metrics : D \subseteq seen /\ (\A d \in seen : deps[d] \subseteq seen) => m \in seen

AllPublished(D) == \A d \in D : Published(rows[d])

Ops == {"create", "edit", "relate", "archive", "publish", "resolve"}

Idle == [pc |-> "idle"]
Working == [pc : {"open", "valid", "flushed"}, op : Ops, metric : Metrics,
            seen : Rows, wanted : Rows, on : SUBSET Metrics]

Init ==
    /\ rows = [m \in Metrics |-> Blank] /\ created = {}
    /\ deps = [m \in Metrics |-> {}] /\ lock = [m \in Metrics |-> None]
    /\ request = [q \in Requests |-> Idle]
    /\ decided = [m \in Metrics |-> [reviewed |-> "no", reviewer |-> Nobody]]
    /\ raced = {} /\ changes = 0

-----------------------------------------------------------------------------
\* The requests that are under way.
Open == {q \in Requests : request[q] # Idle}

(***************************************************************************)
(* Load: the row is read, and what the handler would like it to be.        *)
(***************************************************************************)
Load(q, op, m, wanted, D) ==
    /\ request[q] = Idle
    /\ request' = [request EXCEPT ![q] =
                     [pc |-> "open", op |-> op, metric |-> m, seen |-> rows[m],
                      wanted |-> wanted, on |-> D]]
    /\ UNCHANGED <<rows, created, deps, lock, history>>

Counted == changes < MaxChanges /\ changes' = changes + 1

New(x, D) == [Blank EXCEPT !.text = x, !.derived = (D # {})]

Create(q, m, x, D) ==
    /\ m \notin created
    /\ \A p \in Open : request[p].metric # m
    /\ AllPublished(D)
    /\ Load(q, "create", m, New(x, D), D)
    /\ UNCHANGED changes

\* Mutant: an edited metric stays where it is.
StaysPublished(row) == row

\* A published metric that is changed is taken offline.
TakenOffline(row) ==
    IF Published(row) THEN [row EXCEPT !.active = FALSE, !.published = FALSE] ELSE row

\* A new formula forgets the lineage.
Reworded(row, x) ==
    [row EXCEPT !.text = x, !.lineage = (row.lineage /\ x = row.text)]

Edit(q, m, x) ==
    /\ m \in created /\ x # rows[m].text
    /\ Load(q, "edit", m, TakenOffline(Reworded(rows[m], x)), {})
    /\ Counted

Related(row, x, D) == [Reworded(row, x) EXCEPT !.derived = (D # {})]

Relate(q, m, x, D) ==
    /\ m \in created
    /\ Load(q, "relate", m, TakenOffline(Related(rows[m], x, D)), D)
    /\ Counted

Archive(q, m) ==
    /\ m \in created /\ ~Archived(rows[m])
    /\ Load(q, "archive", m, [rows[m] EXCEPT !.active = FALSE], {})
    /\ Counted

Publish(q, m) ==
    /\ m \in created /\ Approved(rows[m]) /\ rows[m].lineage
    /\ Load(q, "publish", m,
            [rows[m] EXCEPT !.active = TRUE, !.published = TRUE], {})
    /\ UNCHANGED changes

\* The answer of the language model, or the records entered by hand.  An
\* answer that agrees with the loaded status flushes nothing.
Resolve(q, m, known) ==
    /\ m \in created /\ known # rows[m].lineage
    /\ Load(q, "resolve", m, [rows[m] EXCEPT !.lineage = known], {})
    /\ UNCHANGED changes

(***************************************************************************)
(* Validate: the dependencies named in the edit, or for a publication the  *)
(* ones in the table.  (A creation reads nothing before them.)             *)
(***************************************************************************)
ContractHolds(r) ==
    LET D == deps[r.metric]
    IN  /\ r.seen.derived <=> D # {}
        /\ AllPublished(D)
        /\ ~WouldCycle(D, r.metric)

Validate(q) ==
    /\ request[q].pc = "open"
    /\ \/ request[q].op = "relate" /\ AllPublished(request[q].on)
       \/ request[q].op = "publish" /\ ContractHolds(request[q])
    /\ request' = [request EXCEPT ![q].pc = "valid"]
    /\ UNCHANGED <<rows, created, deps, lock, history, changes>>

(***************************************************************************)
(* Flush: the UPDATE of a dependency edit, and the search for a cycle.     *)
(***************************************************************************)
Flush(q) ==
    /\ request[q].pc = "valid" /\ request[q].op = "relate"
    /\ lock[request[q].metric] = None
    /\ ~WouldCycle(request[q].on, request[q].metric)
    /\ lock' = [lock EXCEPT ![request[q].metric] = q]
    /\ request' = [request EXCEPT ![q].pc = "flushed"]
    /\ UNCHANGED <<rows, created, deps, history, changes>>

\* Where the commit of each handler stands.
Ready(r) ==
    \/ r.pc = "open" /\ r.op \in {"create", "edit", "archive", "resolve"}
    \/ r.pc = "valid" /\ r.op = "publish"
    \/ r.pc = "flushed"

\* Two requests that move one metric, or two edits of dependencies.
Rivals(r, s) ==
    \/ r.metric = s.metric /\ "resolve" \notin {r.op, s.op}
    \/ {r.op, s.op} = {"relate"}

Commit(q) ==
    LET r == request[q]
        m == r.metric
    IN  /\ Ready(r)
        /\ lock[m] \in {None, q}
        /\ rows' = [rows EXCEPT ![m] = Flushed(rows[m], r.seen, r.wanted)]
        /\ created' = created \cup {m}
        /\ deps' = IF r.op \in {"create", "relate"} THEN [deps EXCEPT ![m] = r.on] ELSE deps
        /\ lock' = [lock EXCEPT ![m] = None]
        /\ request' = [request EXCEPT ![q] = Idle]
        /\ raced' = IF \E p \in Open \ {q} : Rivals(request[p], r) THEN raced \cup {m} ELSE raced
        /\ UNCHANGED <<decided, changes>>

\* A check that fails, an invalid binding, a taken name, the language model
\* or the database out of reach: the transaction is rolled back.
Fail(q) ==
    /\ request[q] # Idle
    /\ lock' = [m \in Metrics |-> IF lock[m] = q THEN None ELSE lock[m]]
    /\ request' = [request EXCEPT ![q] = Idle]
    /\ UNCHANGED <<rows, created, deps, history, changes>>

-----------------------------------------------------------------------------
(***************************************************************************)
(* The review, each step under the row's lock (SELECT ... FOR UPDATE).     *)
(***************************************************************************)
Decide(m, reviewed, reviewer) ==
    /\ lock[m] = None
    /\ rows' = [rows EXCEPT ![m].reviewed = reviewed, ![m].reviewer = reviewer]
    /\ decided' = [decided EXCEPT ![m] = [reviewed |-> reviewed, reviewer |-> reviewer]]
    /\ UNCHANGED <<created, deps, lock, request, raced, changes>>

SubmitReview(m) ==
    /\ m \in created /\ Draft(rows[m])
    /\ Decide(m, "pending", rows[m].reviewer)

\* Mutant: creators may review their own metrics.
AnyReviewer(m, u) == u \in Users

MayReview(m, u) == u # Creator[m]

Approve(m, u) ==
    /\ m \in created /\ Pending(rows[m]) /\ MayReview(m, u)
    /\ Decide(m, "done", u)

Reject(m) ==
    /\ m \in created /\ Pending(rows[m])
    /\ Decide(m, "no", Nobody)

Next ==
    \/ \E q \in Requests, m \in Metrics :
          \/ \E x \in Texts, D \in SUBSET Metrics : Create(q, m, x, D)
          \/ \E x \in Texts : Edit(q, m, x)
          \/ \E x \in Texts, D \in SUBSET Metrics : Relate(q, m, x, D)
          \/ Archive(q, m)
          \/ Publish(q, m)
          \/ \E known \in BOOLEAN : Resolve(q, m, known)
    \/ \E q \in Requests : Validate(q) \/ Flush(q) \/ Commit(q) \/ Fail(q)
    \/ \E m \in Metrics : SubmitReview(m) \/ Reject(m) \/ \E u \in Users : Approve(m, u)

Spec == Init /\ [][Next]_vars

-----------------------------------------------------------------------------
\* is_active is never set without published_at.
TypeOK ==
    /\ rows \in [Metrics -> Rows] /\ \A m \in Metrics : rows[m].active => rows[m].published
    /\ created \subseteq Metrics
    /\ deps \in [Metrics -> SUBSET Metrics]
    /\ lock \in [Metrics -> Requests \cup {None}]
    /\ request \in [Requests -> Working \cup {Idle}]
    /\ decided \in [Metrics -> [reviewed : Reviews, reviewer : Users \cup {Nobody}]]
    /\ raced \subseteq Metrics /\ changes \in 0..MaxChanges

(***************************************************************************)
(* A metric that answers questions has been approved, by somebody else     *)
(* than its creator, however edits, publications and take-downs of it      *)
(* interleave (registry.py approve_metric, publish_metric).                *)
(***************************************************************************)
LiveWasReviewed ==
    \A m \in Metrics : Published(rows[m]) =>
        /\ rows[m].reviewed = "done"
        /\ rows[m].reviewer \in Users \ {Creator[m]}

(***************************************************************************)
(* What a submitter or a reviewer was told about the review stays in the   *)
(* row: no request that loaded the row before the decision and commits     *)
(* after it takes the decision back (the flush of update_metric, publish,  *)
(* archive and resolve_lineage against the locked steps of the review).    *)
(***************************************************************************)
ReviewIsKept ==
    \A m \in Metrics :
        decided[m] = [reviewed |-> rows[m].reviewed, reviewer |-> rows[m].reviewer]

(***************************************************************************)
(* The review of a metric holds: no stale flush takes a decision back, and *)
(* nothing is in service without one (registry.py:998).                    *)
(***************************************************************************)
ReviewHolds == ReviewIsKept /\ LiveWasReviewed

(***************************************************************************)
(* The dependencies have a cycle only if two edits of dependencies were    *)
(* under way at once: the search at registry.py:990 reads what has been    *)
(* committed, and nothing orders two such edits of different metrics.      *)
(***************************************************************************)
CyclesNeedARace ==
    \A S \in (SUBSET Metrics) \ {{}} :
        (\A m \in S : deps[m] \cap S # {}) => S \cap raced # {}

(***************************************************************************)
(* A request that changes the formula of a metric leaves it out of         *)
(* service, unless two requests that move it have overlapped               *)
(* (update_metric's 'published' branch).                                   *)
(***************************************************************************)
NewFormulaIsOffline ==
    [][\A m \in Metrics \ raced' :
          rows'[m].text # rows[m].text => ~Published(rows'[m])]_vars

(***************************************************************************)
(* A metric that was taken down stays down: no sequence of edits, reviews  *)
(* and publications brings it back, unless two requests that move it have  *)
(* overlapped (archive_metric; _get_metric_status).                        *)
(***************************************************************************)
ArchivedIsFinal ==
    [][\A m \in Metrics \ raced' : Archived(rows[m]) => Archived(rows'[m])]_vars

(***************************************************************************)
(* Edits and take-downs leave service and stay out of it, unless they race *)
(* (registry.py:916, :973).                                                *)
(***************************************************************************)
ChangesTakeEffect == NewFormulaIsOffline /\ ArchivedIsFinal

(***************************************************************************)
(* What the docstring of update_metric and the comment in its 'published'  *)
(* branch say: a published metric that is changed is a draft again.        *)
(***************************************************************************)
EditedIsDraft ==
    [][\A m \in Metrics :
          (Published(rows[m]) /\ rows'[m].text # rows[m].text) => Draft(rows'[m])]_vars

=============================================================================

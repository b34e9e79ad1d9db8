----------------------- MODULE SemanticPublish_proofs -----------------------
(***************************************************************************)
(* For any data sources, texts and bounds: what the model wrote and Tableau *)
(* shows was approved, and a publish log moves only along its lifecycle.    *)
(*                                                                          *)
(* The inductive invariant follows a text on every way to Tableau: the row, *)
(* its snapshots and the logs hold no approved generated text a reviewer    *)
(* did not see (AllCleared).  Linked says which logs the request in         *)
(* progress works on and the status it left them in.                        *)
(***************************************************************************)
EXTENDS SemanticPublish, TLAPS

Cleared(d, t) == t \in Generated => <<d, t>> \in approved

RowsCleared == \A d \in Datasources :
    semantics[d].status = "approved" => Cleared(d, semantics[d].text)
SnapshotsCleared == \A d \in Datasources : \A v \in versions[d] :
    v.status = "approved" => Cleared(d, v.text)
TableauCleared == \A d \in Datasources : Cleared(d, tableau[d])
LogsCleared == \A l \in 1..used : /\ Cleared(logs[l].ds, logs[l].text)
                                  /\ Cleared(logs[l].ds, logs[l].before)
AllCleared == RowsCleared /\ SnapshotsCleared /\ TableauCleared /\ LogsCleared

Works(h) == h.step \in {"put", "answered", "logged", "mark", "copy"}

\* The log being written, and what it is written for.
LinkedLog(h) == Works(h) => /\ h.log \in 1..used
                            /\ logs[h.log].ds = h.ds
                            /\ h.step \in {"put", "answered"} => logs[h.log].status = "pending"
                            /\ h.step \in {"logged", "copy"} => logs[h.log].status = "success"
LinkedRetry(h) == /\ h.retries # 0 => /\ h.retries \in 1..used
                                      /\ logs[h.retries].status = "pending"
                                      /\ h.step \in {"put", "answered", "logged", "retry"}
                                      /\ h.undoes = 0
                                      /\ h.step # "retry" => h.log # h.retries /\ h.attempt < 3
                  /\ h.step = "retry" => h.retries # 0
LinkedUndo(h) == /\ h.undoes # 0 => /\ h.undoes \in 1..used
                                    /\ h.step # "restore" => logs[h.undoes].status = "success"
                                    /\ h.step \in {"put", "answered", "mark", "restore"}
                                    /\ h.step # "restore" => h.log # h.undoes
                 /\ h.step = "mark" => h.undoes # 0
LinkedRest(h) == /\ h.step = "copy" => used < MaxLogs
                 /\ h.to # NoSnapshot => h.to \in versions[h.ds]
                 /\ h.step = "restore" => h.to # NoSnapshot
Linked == handler # Idle =>
    LinkedLog(handler) /\ LinkedRetry(handler) /\ LinkedUndo(handler) /\ LinkedRest(handler)

IInv == TypeOK /\ AllCleared /\ Linked
----------------------------------------------------------------------------
LEMMA InitInv == Init => IInv
<1> SUFFICES ASSUME Init PROVE IInv
  OBVIOUS
<1>1. TypeOK
  <2>1. semantics \in [Datasources -> Row] /\ tableau \in [Datasources -> Texts]
    BY DEF Init, Row, Texts, Status
  <2>2. used \in 0..MaxLogs /\ edits \in Nat /\ restores \in Nat /\ 1..used = {}
    BY BoundsAssumption DEF Init
  <2> QED BY <2>1, <2>2 DEF Init, TypeOK
<1>2. AllCleared
  BY <1>1, TextAssumption DEF Init, AllCleared, RowsCleared, SnapshotsCleared, TableauCleared, LogsCleared, Cleared
<1>3. Linked
  BY DEF Init, Linked
<1> QED BY <1>1, <1>2, <1>3 DEF IInv

\* What a request starts from.
LEMMA BaseType ==
  ASSUME NEW step \in Steps, NEW d \in Datasources
  PROVE  /\ Base(step, d) \in Handler
         /\ Base(step, d).step = step /\ Base(step, d).ds = d /\ Base(step, d).log = 0
         /\ Base(step, d).retries = 0 /\ Base(step, d).undoes = 0
         /\ Base(step, d).to = NoSnapshot
  BY BoundsAssumption DEF Base, Handler, Steps, NoSnapshot

LEMMA SnapshotType ==
  ASSUME TypeOK, NEW d \in Datasources
  PROVE  SnapshotOf(d) \in Snapshot
  BY DEF TypeOK, SnapshotOf, Snapshot, Row

LEMMA StepsApart == \A h \in Handler : h # Idle
  BY DEF Handler, Idle, Steps

\* A snapshot of a row keeps approved texts cleared.
LEMMA SnapshotCleared ==
  ASSUME TypeOK, RowsCleared, SnapshotsCleared, NEW d \in Datasources,
         TakeSnapshot(d), approved' = approved
  PROVE  versions' \in [Datasources -> SUBSET Snapshot] /\ SnapshotsCleared'
<1>1. versions' \in [Datasources -> SUBSET Snapshot]
  BY SnapshotType DEF TypeOK, TakeSnapshot
<1>2. ASSUME NEW e \in Datasources, NEW v \in versions'[e], v.status = "approved"
      PROVE  Cleared(e, v.text)'
  <2>1. CASE v \in versions[e]
    BY <1>2, <2>1 DEF SnapshotsCleared, Cleared
  <2>2. CASE v \notin versions[e]
    <3>1. e = d /\ v = SnapshotOf(d)
      BY <1>2, <2>2 DEF TypeOK, TakeSnapshot
    <3>2. semantics[d].status = "approved" /\ v.text = semantics[d].text
      BY <1>2, <3>1 DEF SnapshotOf
    <3> QED BY <3>1, <3>2 DEF RowsCleared, Cleared
  <2> QED BY <2>1, <2>2
<1> QED BY <1>1, <1>2 DEF SnapshotsCleared

\* A log that changes its status keeps its type and its texts.
LEMMA StatusKept ==
  ASSUME TypeOK, LogsCleared, NEW l \in 1..used,
         NEW s \in {"pending", "success", "failed", "rolled_back"},
         logs' = SetStatus(l, s), used' = used, approved' = approved
  PROVE  /\ logs' \in [LogIds -> Log \cup {NoLog}]
         /\ \A m \in 1..used : /\ logs'[m] \in Log
                               /\ logs'[m].ds = logs[m].ds
                               /\ logs'[m].kind = logs[m].kind
                               /\ logs'[m].text = logs[m].text
                               /\ logs'[m].before = logs[m].before
                               /\ logs'[m].status = IF m = l THEN s ELSE logs[m].status
         /\ LogsCleared'
<1>1. l \in LogIds /\ 1..used \subseteq LogIds
  BY BoundsAssumption DEF TypeOK, LogIds
<1>2. logs[l] \in Log
  BY DEF TypeOK
<1>3. [logs[l] EXCEPT !.status = s] \in Log
  BY <1>2 DEF Log
<1>4. /\ logs' \in [LogIds -> Log \cup {NoLog}]
      /\ logs'[l] = [logs[l] EXCEPT !.status = s]
      /\ \A m \in LogIds \ {l} : logs'[m] = logs[m]
  BY <1>1, <1>3 DEF TypeOK, SetStatus
<1>5. ASSUME NEW m \in 1..used
      PROVE  /\ logs'[m] \in Log
             /\ logs'[m].ds = logs[m].ds
             /\ logs'[m].kind = logs[m].kind
             /\ logs'[m].text = logs[m].text
             /\ logs'[m].before = logs[m].before
             /\ logs'[m].status = IF m = l THEN s ELSE logs[m].status
  BY <1>1, <1>2, <1>3, <1>4 DEF TypeOK, Log
<1>6. LogsCleared'
  BY <1>5 DEF LogsCleared, Cleared
<1> QED BY <1>4, <1>5, <1>6

\* A new log is pending and the one its request works on.
LEMMA NewLogKept ==
  ASSUME IInv, NEW rec \in Log, rec.status = "pending", NEW h \in Handler, h.ds = rec.ds,
         h.step \in {"put", "retry"},
         Cleared(rec.ds, rec.text), Cleared(rec.ds, rec.before),
         LinkedRetry(h), LinkedRest(h), h.retries # 0 => h.attempt < 3,
         h.undoes # 0 => h.undoes \in 1..used /\ logs[h.undoes].status = "success",
         NewLog(rec, h),
         UNCHANGED <<semantics, versions, tableau, edits, restores, approved, crashed>>
  PROVE  /\ IInv'
         /\ \A l \in 1..used : logs'[l] = logs[l]
<1> DEFINE n == used + 1
           k == [h EXCEPT !.step = "put", !.log = n]
<1>1. n \in LogIds /\ used \in Nat /\ used' = n /\ n \in 0..MaxLogs /\ n \notin 1..used
      /\ 1..n = (1..used) \cup {n} /\ 1..used \subseteq LogIds /\ n # 0
  BY BoundsAssumption DEF NewLog, IInv, TypeOK, LogIds
<1>2. logs' = [logs EXCEPT ![n] = rec] /\ handler' = k
  BY DEF NewLog
<1>3. k \in Handler /\ k.step = "put" /\ k.log = n /\ k.ds = h.ds /\ k.retries = h.retries
      /\ k.undoes = h.undoes /\ k.to = h.to /\ k.attempt = h.attempt
  <2>1. h.attempt \in 0..3 /\ h.ok \in BOOLEAN /\ h.ds \in Datasources /\ h.retries \in 0..MaxLogs
        /\ h.undoes \in 0..MaxLogs /\ h.to \in Snapshot \cup {NoSnapshot}
    BY DEF Handler
  <2> QED BY <1>1, <2>1 DEF Handler, Steps
<1>4. logs'[n] = rec /\ \A l \in 1..used : logs'[l] = logs[l]
  BY <1>1, <1>2 DEF IInv, TypeOK
<1>5. TypeOK'
  <2>1. logs' \in [LogIds -> Log \cup {NoLog}]
    BY <1>1, <1>2 DEF IInv, TypeOK
  <2>2. \A l \in 1..n : logs'[l] \in Log
    BY <1>1, <1>4 DEF IInv, TypeOK
  <2> QED BY <1>1, <1>2, <1>3, <2>1, <2>2 DEF IInv, TypeOK
<1>6. AllCleared'
  <2>1. LogsCleared'
    BY <1>1, <1>4 DEF IInv, AllCleared, LogsCleared, Cleared
  <2> QED BY <2>1 DEF IInv, AllCleared, RowsCleared, SnapshotsCleared, TableauCleared, Cleared
<1>7. LinkedLog(handler)'
  BY <1>1, <1>2, <1>3, <1>4 DEF LinkedLog, Works
<1>8. LinkedRetry(handler)'
  BY <1>1, <1>2, <1>3, <1>4 DEF LinkedRetry
<1>9. LinkedUndo(handler)'
  BY <1>1, <1>2, <1>3, <1>4 DEF LinkedUndo
<1>10. LinkedRest(handler)'
  BY <1>2, <1>3 DEF LinkedRest
<1> QED BY <1>4, <1>5, <1>6, <1>7, <1>8, <1>9, <1>10 DEF IInv, Linked
----------------------------------------------------------------------------
LEMMA IdleLinked == handler' = Idle => Linked'
  BY DEF Linked

LEMMA EditInv ==
  ASSUME IInv, NEW d \in Datasources, NEW t \in Written \cup {semantics[d].text}, NEW s \in Sensitive, Edit(d, t, s)
  PROVE  IInv'
<1>1. versions' \in [Datasources -> SUBSET Snapshot] /\ SnapshotsCleared'
  BY SnapshotCleared DEF Edit, IInv, AllCleared
<1>2. /\ semantics' \in [Datasources -> Row] /\ semantics'[d].text = t
      /\ semantics'[d].status = semantics[d].status
      /\ \A e \in Datasources \ {d} : semantics'[e] = semantics[e]
  <2>1. semantics[d] \in Row /\ t \in Texts /\ s \in BOOLEAN
    BY SwitchAssumption DEF IInv, TypeOK, Texts, Row
  <2> QED BY <2>1 DEF Edit, IInv, TypeOK, Row
<1>3. TypeOK'
  BY <1>1, <1>2 DEF Edit, IInv, TypeOK
<1>4. RowsCleared'
  BY <1>2, TextAssumption DEF Edit, IInv, AllCleared, RowsCleared, Cleared
<1>5. TableauCleared' /\ LogsCleared'
  BY DEF Edit, IInv, AllCleared, TableauCleared, LogsCleared, Cleared
<1> QED BY <1>1, <1>3, <1>4, <1>5, IdleLinked DEF Edit, IInv, AllCleared

LEMMA GenerateInv ==
  ASSUME IInv, NEW d \in Datasources, NEW t \in Generated \cup {semantics[d].text}, NEW s \in Sensitive, Generate(d, t, s)
  PROVE  IInv'
<1>1. versions' \in [Datasources -> SUBSET Snapshot] /\ SnapshotsCleared'
  BY SnapshotCleared DEF Generate, IInv, AllCleared
<1>2. /\ semantics' \in [Datasources -> Row] /\ semantics'[d].status = "ai_generated"
      /\ \A e \in Datasources \ {d} : semantics'[e] = semantics[e]
  <2>1. semantics[d] \in Row /\ t \in Texts /\ s \in BOOLEAN
    BY SwitchAssumption DEF IInv, TypeOK, Texts, Row
  <2>2. [semantics[d] EXCEPT !.text = t, !.sensitive = s, !.status = "ai_generated"] \in Row
    BY <2>1 DEF Row, Status
  <2>3. semantics' = [semantics EXCEPT ![d] = [semantics[d] EXCEPT !.text = t, !.sensitive = s,
                                                                  !.status = "ai_generated"]]
    BY <2>1 DEF Generate, IInv, TypeOK
  <2> QED BY <2>1, <2>2, <2>3 DEF IInv, TypeOK, Row
<1>3. TypeOK'
  BY <1>1, <1>2 DEF Generate, IInv, TypeOK
<1>4. RowsCleared'
  BY <1>2 DEF Generate, IInv, AllCleared, RowsCleared, Cleared
<1>5. TableauCleared' /\ LogsCleared'
  BY DEF Generate, IInv, AllCleared, TableauCleared, LogsCleared, Cleared
<1> QED BY <1>1, <1>3, <1>4, <1>5, IdleLinked DEF Generate, IInv, AllCleared

LEMMA ReviewInv ==
  ASSUME IInv, NEW d \in Datasources, NEW to \in {"reviewed", "approved", "rejected"}, Review(d, to)
  PROVE  IInv'
<1>1. /\ semantics' \in [Datasources -> Row] /\ semantics'[d].status = to
      /\ semantics'[d].text = semantics[d].text
      /\ \A e \in Datasources \ {d} : semantics'[e] = semantics[e]
  BY DEF Review, IInv, TypeOK, Row, Status
<1>2. approved \subseteq approved' /\ approved' \subseteq Datasources \X Texts
  BY DEF Review, IInv, TypeOK, Row
<1>3. to = "approved" => <<d, semantics[d].text>> \in approved'
  BY DEF Review
<1>4. TypeOK'
  BY <1>1, <1>2 DEF Review, IInv, TypeOK
<1>5. RowsCleared'
  BY <1>1, <1>2, <1>3 DEF IInv, AllCleared, RowsCleared, Cleared
<1>6. SnapshotsCleared' /\ TableauCleared' /\ LogsCleared'
  BY <1>2 DEF Review, IInv, AllCleared, SnapshotsCleared, TableauCleared, LogsCleared, Cleared
<1> QED BY <1>4, <1>5, <1>6, IdleLinked DEF Review, IInv, AllCleared

LEMMA ArchiveInv ==
  ASSUME IInv, NEW d \in Datasources, Archive(d)
  PROVE  IInv'
<1>1. /\ semantics' \in [Datasources -> Row] /\ semantics'[d].status = "archived"
      /\ \A e \in Datasources \ {d} : semantics'[e] = semantics[e]
  BY DEF Archive, IInv, TypeOK, Row, Status
<1>2. TypeOK'
  BY <1>1 DEF Archive, IInv, TypeOK
<1>3. AllCleared'
  BY <1>1 DEF Archive, IInv, AllCleared, RowsCleared, SnapshotsCleared, TableauCleared, LogsCleared, Cleared
<1>4. Linked'
  BY DEF Archive, IInv, Linked, LinkedLog, LinkedRetry, LinkedUndo, LinkedRest, Works
<1> QED BY <1>2, <1>3, <1>4 DEF IInv

\* The log of a publish holds what the approved row and Tableau held.
LEMMA PublishLog ==
  ASSUME IInv, NEW d \in Datasources, NEW seen \in {tableau[d], NoText}, MayPublish(d)
  PROVE  LET rec == [ds |-> d, kind |-> "publish", before |-> Before(d, seen),
                     text |-> semantics[d].text, status |-> "pending"]
         IN rec \in Log /\ Cleared(d, rec.text) /\ Cleared(d, rec.before)
<1>1. semantics[d].text \in Texts /\ seen \in Texts /\ Before(d, seen) \in {seen, NoText}
  BY DEF IInv, TypeOK, Row, Texts, Before
<1>2. Cleared(d, semantics[d].text) /\ Cleared(d, seen) /\ Cleared(d, NoText)
  BY TextAssumption DEF IInv, AllCleared, RowsCleared, TableauCleared, MayPublish, Cleared
<1> QED BY <1>1, <1>2 DEF Log, Texts

LEMMA PublishInv ==
  ASSUME IInv, NEW d \in Datasources, NEW seen \in Texts, Publish(d, seen)
  PROVE  IInv' /\ \A l \in 1..used : logs'[l] = logs[l]
<1> DEFINE rec == [ds |-> d, kind |-> "publish", before |-> Before(d, seen),
                   text |-> semantics[d].text, status |-> "pending"]
           h == Base("put", d)
<1>1. rec \in Log /\ Cleared(rec.ds, rec.text) /\ Cleared(rec.ds, rec.before)
  BY PublishLog DEF Publish, OpenPublish
<1>2. h \in Handler /\ h.ds = rec.ds /\ h.step = "put" /\ h.retries = 0 /\ h.undoes = 0 /\ h.to = NoSnapshot
  BY BaseType DEF Steps
<1>3. LinkedRetry(h) /\ LinkedRest(h)
  BY <1>2 DEF LinkedRetry, LinkedRest
<1>4. NewLog(rec, h)
  BY DEF Publish, OpenPublish
<1>5. UNCHANGED <<semantics, versions, tableau, edits, restores, approved, crashed>>
  BY DEF Publish
<1> HIDE DEF h
<1>6. rec.status = "pending" /\ (h.undoes # 0 => h.undoes \in 1..used /\ logs[h.undoes].status = "success")
  BY <1>2
<1> HIDE DEF rec
<1> QED BY <1>1, <1>2, <1>3, <1>4, <1>5, <1>6, NewLogKept

LEMMA AttemptInv ==
  ASSUME IInv, NEW seen \in Texts, Attempt(seen)
  PROVE  IInv' /\ \A l \in 1..used : logs'[l] = logs[l]
<1> DEFINE d == handler.ds
           rec == [ds |-> d, kind |-> "publish", before |-> Before(d, seen),
                   text |-> semantics[d].text, status |-> "pending"]
<1>1. handler \in Handler /\ handler # Idle /\ handler.step = "retry" /\ d \in Datasources
  BY DEF Attempt, IInv, TypeOK, Idle, Handler
<1>2. LinkedRetry(handler) /\ LinkedRest(handler) /\ handler.undoes = 0
  BY <1>1 DEF IInv, Linked, LinkedUndo
<1>6. handler.attempt < 3
  BY DEF Attempt
<1>3. rec \in Log /\ Cleared(rec.ds, rec.text) /\ Cleared(rec.ds, rec.before)
  BY <1>1, PublishLog DEF Attempt, OpenPublish
<1>4. NewLog(rec, handler) /\ UNCHANGED <<semantics, versions, tableau, edits, restores, approved, crashed>>
  BY DEF Attempt, OpenPublish
<1>5. rec.status = "pending" /\ handler.ds = rec.ds
  OBVIOUS
<1> HIDE DEF rec, d
<1> QED BY <1>1, <1>2, <1>3, <1>4, <1>5, <1>6, NewLogKept

\* The log of a rollback holds what that of the publish had found.
LEMMA OpenUndoInv ==
  ASSUME IInv, handler = Idle, NEW l \in 1..used, NEW v \in Snapshot \cup {NoSnapshot},
         v # NoSnapshot => v \in versions[logs[l].ds], CanUndo(l), OpenUndo(l, v),
         UNCHANGED <<semantics, versions, tableau, edits, restores, approved, crashed>>
  PROVE  IInv' /\ \A m \in 1..used : logs'[m] = logs[m]
<1> DEFINE d == logs[l].ds
           rec == [ds |-> d, kind |-> "undo", before |-> logs[l].before,
                   text |-> logs[l].before, status |-> "pending"]
           h == [Base("put", d) EXCEPT !.undoes = l, !.to = v]
<1>1. logs[l] \in Log /\ d \in Datasources /\ l \in 0..MaxLogs /\ l # 0
  BY BoundsAssumption DEF IInv, TypeOK, Log
<1>2. rec \in Log /\ rec.ds = d /\ rec.status = "pending"
  BY <1>1 DEF Log
<1>3. Cleared(rec.ds, rec.text) /\ Cleared(rec.ds, rec.before)
  BY DEF IInv, AllCleared, LogsCleared
<1>4. h \in Handler /\ h.ds = d /\ h.step = "put" /\ h.retries = 0 /\ h.undoes = l /\ h.to = v
  <2>1. Base("put", d) \in Handler /\ Base("put", d).ds = d /\ Base("put", d).step = "put"
        /\ Base("put", d).retries = 0
    BY <1>1, BaseType DEF Steps
  <2> QED BY <1>1, <2>1 DEF Handler
<1>5. logs[l].status = "success"
  BY DEF CanUndo
<1>6. NewLog(rec, h)
  BY DEF OpenUndo
<1> HIDE DEF h, rec, d
<1>7. LinkedRetry(h) /\ LinkedRest(h)
  BY <1>4 DEF LinkedRetry, LinkedRest, d
<1> QED BY <1>1, <1>2, <1>3, <1>4, <1>5, <1>6, <1>7, NewLogKept
----------------------------------------------------------------------------
LEMMA PutInv ==
  ASSUME IInv, NEW done \in BOOLEAN, NEW ok \in BOOLEAN, Put(done, ok)
  PROVE  IInv'
<1>1. handler \in Handler /\ handler # Idle /\ handler.step = "put" /\ handler.ds \in Datasources
  BY DEF Put, IInv, TypeOK, Idle, Handler
<1>2. /\ handler.log \in 1..used /\ logs[handler.log].ds = handler.ds
      /\ logs[handler.log].status = "pending"
  BY <1>1 DEF IInv, Linked, LinkedLog, Works
<1>3. logs[handler.log].text \in Texts /\ Cleared(handler.ds, logs[handler.log].text)
  BY <1>2 DEF IInv, TypeOK, Log, AllCleared, LogsCleared
<1>4. /\ handler' \in Handler /\ handler'.step = "answered" /\ handler'.log = handler.log
      /\ handler'.ds = handler.ds /\ handler'.retries = handler.retries
      /\ handler'.undoes = handler.undoes /\ handler'.to = handler.to
  BY <1>1 DEF Put, Handler, Steps
<1>5. tableau' \in [Datasources -> Texts]
  BY <1>1, <1>3 DEF Put, IInv, TypeOK
<1>6. TypeOK'
  BY <1>4, <1>5 DEF Put, IInv, TypeOK
<1>7. TableauCleared'
  BY <1>1, <1>3 DEF Put, IInv, TypeOK, AllCleared, TableauCleared, Cleared
<1>8. AllCleared'
  BY <1>7 DEF Put, IInv, AllCleared, RowsCleared, SnapshotsCleared, LogsCleared, Cleared
<1>9. Linked'
  <2>1. LinkedRetry(handler) /\ LinkedUndo(handler) /\ LinkedRest(handler)
    BY <1>1 DEF IInv, Linked
  <2>2. LinkedLog(handler)'
    BY <1>2, <1>4 DEF Put, LinkedLog
  <2>3. LinkedRetry(handler)' /\ LinkedUndo(handler)' /\ LinkedRest(handler)'
    BY <1>1, <1>4, <2>1 DEF Put, LinkedRetry, LinkedUndo, LinkedRest
  <2> QED BY <2>2, <2>3 DEF Linked
<1> QED BY <1>6, <1>8, <1>9 DEF IInv

LEMMA StatusInv ==
  ASSUME IInv, NEW l \in 1..used, NEW s \in {"pending", "success", "failed", "rolled_back"},
         logs' = SetStatus(l, s),
         UNCHANGED <<semantics, versions, tableau, used, edits, restores, approved, crashed>>,
         handler' \in Handler \cup {Idle}, Linked'
  PROVE  IInv'
<1>1. logs' \in [LogIds -> Log \cup {NoLog}] /\ (\A m \in 1..used : logs'[m] \in Log) /\ LogsCleared'
  BY StatusKept DEF IInv, AllCleared
<1>2. TypeOK'
  BY <1>1 DEF IInv, TypeOK
<1>3. AllCleared'
  BY <1>1 DEF IInv, AllCleared, RowsCleared, SnapshotsCleared, TableauCleared, Cleared
<1> QED BY <1>2, <1>3 DEF IInv

\* The next attempt of a retry, or the end of the request.
LEMMA AfterFailureLinked ==
  ASSUME IInv, handler.step \in {"answered", "logged"}, handler.undoes = 0,
         logs' = SetStatus(handler.log, "failed"), handler' = AfterFailure,
         versions' = versions, used' = used, approved' = approved
  PROVE  handler.log \in 1..used /\ handler' \in Handler \cup {Idle} /\ Linked'
<1>1. handler \in Handler /\ handler # Idle
  BY DEF IInv, TypeOK, Idle, Handler
<1>2. handler.log \in 1..used
  BY <1>1 DEF IInv, Linked, LinkedLog, Works
<1>3. CASE handler.retries = 0
  BY <1>2, <1>3 DEF AfterFailure, Linked
<1>4. CASE handler.retries # 0
  <2>1. /\ handler.retries \in 1..used /\ logs[handler.retries].status = "pending"
        /\ handler.log # handler.retries /\ handler.attempt < 3
    BY <1>1, <1>4 DEF IInv, Linked, LinkedRetry
  <2>2. handler.attempt + 1 \in 0..3
    BY <1>1, <2>1 DEF Handler
  <2>3. handler' = [handler EXCEPT !.step = "retry", !.attempt = @ + 1]
    BY <1>4 DEF AfterFailure
  <2>4. /\ handler' \in Handler /\ handler'.step = "retry" /\ handler'.retries = handler.retries
        /\ handler'.undoes = 0 /\ handler'.to = handler.to /\ handler'.ds = handler.ds
    BY <1>1, <2>2, <2>3 DEF Handler, Steps
  <2>5. logs'[handler.retries].status = "pending"
    BY <1>2, <2>1, StatusKept DEF IInv, AllCleared
  <2>6. LinkedRest(handler)
    BY <1>1 DEF IInv, Linked
  <2>7. LinkedLog(handler)' /\ LinkedUndo(handler)' /\ LinkedRest(handler)'
    BY <2>4, <2>6 DEF LinkedLog, LinkedUndo, LinkedRest, Works
  <2>8. LinkedRetry(handler)'
    BY <1>4, <2>1, <2>4, <2>5 DEF LinkedRetry
  <2> QED BY <1>2, <2>4, <2>7, <2>8 DEF Linked
<1> QED BY <1>3, <1>4

LEMMA RecordPublishInv ==
  ASSUME IInv, RecordPublish
  PROVE  IInv' /\ handler.log \in 1..used /\ logs[handler.log].status = "pending"
<1>1. handler \in Handler /\ handler # Idle /\ handler.step = "answered" /\ handler.undoes = 0
  BY DEF RecordPublish, IInv, TypeOK, Idle, Handler
<1>2. /\ handler.log \in 1..used /\ logs[handler.log].ds = handler.ds
      /\ logs[handler.log].status = "pending"
  BY <1>1 DEF IInv, Linked, LinkedLog, Works
<1>3. CASE handler.ok
  <2>1. logs' = SetStatus(handler.log, "success") /\ handler' = [handler EXCEPT !.step = "logged"]
        /\ versions' = versions /\ used' = used /\ approved' = approved
    BY <1>3 DEF RecordPublish, Outcome
  <2>2. /\ handler' \in Handler /\ handler'.step = "logged" /\ handler'.log = handler.log
        /\ handler'.ds = handler.ds /\ handler'.retries = handler.retries
        /\ handler'.undoes = 0 /\ handler'.to = handler.to /\ handler'.attempt = handler.attempt
    BY <1>1, <2>1 DEF Handler, Steps
  <2>3. \A m \in 1..used : /\ logs'[m].ds = logs[m].ds
                           /\ logs'[m].status = IF m = handler.log THEN "success" ELSE logs[m].status
    BY <1>2, <2>1, StatusKept DEF IInv, AllCleared
  <2>4. LinkedRetry(handler) /\ LinkedRest(handler)
    BY <1>1 DEF IInv, Linked
  <2>5. LinkedLog(handler)'
    BY <1>2, <2>1, <2>2, <2>3 DEF LinkedLog
  <2>6. LinkedRetry(handler)'
    BY <1>1, <2>1, <2>2, <2>3, <2>4 DEF LinkedRetry
  <2>7. LinkedUndo(handler)' /\ LinkedRest(handler)'
    BY <2>1, <2>2, <2>4 DEF LinkedUndo, LinkedRest
  <2>8. Linked'
    BY <2>5, <2>6, <2>7 DEF Linked
  <2> QED BY <1>2, <2>1, <2>2, <2>8, StatusInv DEF RecordPublish
<1>4. CASE ~handler.ok
  <2>1. logs' = SetStatus(handler.log, "failed") /\ handler' = AfterFailure
    BY <1>4 DEF RecordPublish, Outcome
  <2>2. handler' \in Handler \cup {Idle} /\ Linked'
    BY <1>1, <2>1, AfterFailureLinked DEF RecordPublish
  <2> QED BY <1>2, <2>1, <2>2, StatusInv DEF RecordPublish
<1> QED BY <1>2, <1>3, <1>4

LEMMA FlagFailsInv ==
  ASSUME IInv, FlagFails
  PROVE  IInv' /\ handler.log \in 1..used /\ logs[handler.log].status = "success"
<1>1. handler \in Handler /\ handler # Idle /\ handler.step = "logged"
  BY DEF FlagFails, IInv, TypeOK, Idle, Handler
<1>2. handler.undoes = 0 /\ handler.log \in 1..used /\ logs[handler.log].status = "success"
  BY <1>1 DEF IInv, Linked, LinkedUndo, LinkedLog, Works
<1>3. handler' \in Handler \cup {Idle} /\ Linked'
  BY <1>1, <1>2, AfterFailureLinked DEF FlagFails
<1> QED BY <1>2, <1>3, StatusInv DEF FlagFails

LEMMA FlagInv ==
  ASSUME IInv, Flag
  PROVE  IInv'
<1> DEFINE d == handler.ds
<1>1. d \in Datasources
  BY DEF Flag, IInv, TypeOK, Idle, Handler
<1>2. versions' \in [Datasources -> SUBSET Snapshot] /\ SnapshotsCleared'
  BY <1>1, SnapshotCleared DEF Flag, IInv, AllCleared
<1>3. /\ semantics' \in [Datasources -> Row]
      /\ \A e \in Datasources : semantics'[e].status = semantics[e].status /\ semantics'[e].text = semantics[e].text
  BY <1>1 DEF Flag, IInv, TypeOK, Row
<1>4. TypeOK'
  BY <1>2, <1>3 DEF Flag, IInv, TypeOK
<1>5. AllCleared'
  BY <1>2, <1>3 DEF Flag, IInv, AllCleared, RowsCleared, TableauCleared, LogsCleared, Cleared
<1> QED BY <1>4, <1>5, IdleLinked DEF Flag, IInv
----------------------------------------------------------------------------
LEMMA RetryInv ==
  ASSUME IInv, NEW l \in 1..used, Retry(l)
  PROVE  IInv'
<1> DEFINE d == logs[l].ds
<1>1. d \in Datasources /\ l \in 0..MaxLogs /\ l # 0
  BY BoundsAssumption DEF IInv, TypeOK, Log
<1>2. /\ Base("retry", d) \in Handler /\ Base("retry", d).step = "retry"
      /\ Base("retry", d).undoes = 0 /\ Base("retry", d).to = NoSnapshot
  BY <1>1, BaseType DEF Steps
<1>3. handler' = [Base("retry", d) EXCEPT !.retries = l]
  BY DEF Retry
<1>4. /\ handler' \in Handler /\ handler'.step = "retry" /\ handler'.retries = l
      /\ handler'.undoes = 0 /\ handler'.to = NoSnapshot
  BY <1>1, <1>2, <1>3 DEF Handler
<1>5. logs'[l].status = "pending"
  BY StatusKept DEF Retry, IInv, AllCleared
<1>6. LinkedLog(handler)' /\ LinkedUndo(handler)' /\ LinkedRest(handler)'
  BY <1>4 DEF LinkedLog, LinkedUndo, LinkedRest, Works
<1>7. LinkedRetry(handler)'
  BY <1>1, <1>4, <1>5 DEF Retry, LinkedRetry
<1>8. Linked'
  BY <1>6, <1>7 DEF Linked
<1> QED BY <1>4, <1>8, StatusInv DEF Retry

LEMMA AttemptRefusedInv ==
  ASSUME IInv, AttemptRefused
  PROVE  IInv'
<1>1. handler \in Handler /\ handler # Idle /\ handler.step = "retry" /\ handler.attempt + 1 \in 0..3
  BY DEF AttemptRefused, IInv, TypeOK, Idle, Handler
<1>2. /\ handler' \in Handler /\ handler'.step = "retry" /\ handler'.retries = handler.retries
      /\ handler'.undoes = handler.undoes /\ handler'.to = handler.to /\ handler'.ds = handler.ds
  BY <1>1 DEF AttemptRefused, Handler
<1>3. LinkedRetry(handler) /\ LinkedUndo(handler) /\ LinkedRest(handler)
  BY <1>1 DEF IInv, Linked
<1>4. Linked'
  BY <1>1, <1>2, <1>3 DEF AttemptRefused, Linked, LinkedLog, LinkedRetry, LinkedUndo, LinkedRest, Works
<1>5. TypeOK'
  BY <1>2 DEF AttemptRefused, IInv, TypeOK
<1>6. AllCleared'
  BY DEF AttemptRefused, IInv, AllCleared, RowsCleared, SnapshotsCleared, TableauCleared, LogsCleared, Cleared
<1> QED BY <1>4, <1>5, <1>6 DEF IInv

LEMMA GiveUpInv ==
  ASSUME IInv, GiveUp
  PROVE  IInv' /\ handler.retries \in 1..used /\ logs[handler.retries].status = "pending"
<1>1. handler # Idle
  BY DEF GiveUp, Idle
<1>2. handler.retries \in 1..used /\ logs[handler.retries].status = "pending"
  BY <1>1 DEF GiveUp, IInv, Linked, LinkedRetry
<1> QED BY <1>2, StatusInv, IdleLinked DEF GiveUp

LEMMA UndoInv ==
  ASSUME IInv, NEW l \in 1..used, Undo(l)
  PROVE  IInv' /\ \A m \in 1..used : logs'[m] = logs[m]
  BY OpenUndoInv DEF Undo

LEMMA RestoreBothInv ==
  ASSUME IInv, NEW d \in Datasources, NEW v \in versions[d], RestoreBoth(d, v)
  PROVE  IInv' /\ \A m \in 1..used : logs'[m] = logs[m]
<1>1. PICK l \in Published(d) : CanUndo(l) /\ OpenUndo(l, v)
  BY DEF RestoreBoth
<1>2. l \in 1..used /\ logs[l].ds = d
  BY DEF Published, Successes
<1>3. v \in Snapshot
  BY DEF IInv, TypeOK
<1> QED BY <1>1, <1>2, <1>3, OpenUndoInv DEF RestoreBoth

LEMMA RecordUndoInv ==
  ASSUME IInv, RecordUndo
  PROVE  IInv' /\ handler.log \in 1..used /\ logs[handler.log].status = "pending"
<1>1. handler \in Handler /\ handler # Idle /\ handler.step = "answered" /\ handler.undoes # 0
  BY DEF RecordUndo, IInv, TypeOK, Idle, Handler
<1>2. /\ handler.log \in 1..used /\ logs[handler.log].ds = handler.ds
      /\ logs[handler.log].status = "pending"
  BY <1>1 DEF IInv, Linked, LinkedLog, Works
<1>3. Outcome(handler.ok) \in {"success", "failed"}
  BY DEF Outcome
<1>4. \A m \in 1..used : /\ logs'[m].ds = logs[m].ds
                         /\ m # handler.log => logs'[m].status = logs[m].status
  BY <1>2, <1>3, StatusKept DEF RecordUndo, IInv, AllCleared
<1>5. CASE handler.ok
  <2>1. /\ handler' \in Handler /\ handler'.step = "mark" /\ handler'.log = handler.log
        /\ handler'.ds = handler.ds /\ handler'.retries = handler.retries
        /\ handler'.undoes = handler.undoes /\ handler'.to = handler.to
    BY <1>1, <1>5 DEF RecordUndo, Handler, Steps
  <2>2. LinkedRetry(handler) /\ LinkedUndo(handler) /\ LinkedRest(handler)
    BY <1>1 DEF IInv, Linked
  <2>0. used' = used
    BY DEF RecordUndo
  <2>3. LinkedLog(handler)'
    BY <1>2, <1>4, <2>1, <2>0 DEF LinkedLog
  <2>4. LinkedUndo(handler)'
    BY <1>1, <1>4, <2>1, <2>2, <2>0 DEF LinkedUndo
  <2>5. LinkedRetry(handler)' /\ LinkedRest(handler)'
    BY <1>1, <2>1, <2>2 DEF RecordUndo, LinkedRetry, LinkedRest
  <2>6. Linked'
    BY <2>3, <2>4, <2>5 DEF Linked
  <2> QED BY <1>2, <1>3, <2>1, <2>6, StatusInv DEF RecordUndo
<1>6. CASE ~handler.ok
  BY <1>2, <1>3, <1>6, StatusInv, IdleLinked DEF RecordUndo
<1> QED BY <1>2, <1>5, <1>6

LEMMA MarkRolledBackInv ==
  ASSUME IInv, MarkRolledBack
  PROVE  IInv' /\ handler.undoes \in 1..used /\ logs[handler.undoes].status = "success"
<1>1. handler \in Handler /\ handler # Idle /\ handler.step = "mark"
  BY DEF MarkRolledBack, IInv, TypeOK, Idle, Handler
<1>2. handler.undoes \in 1..used /\ logs[handler.undoes].status = "success"
  BY <1>1 DEF IInv, Linked, LinkedUndo
<1>3. CASE handler.to = NoSnapshot
  BY <1>2, <1>3, StatusInv, IdleLinked DEF MarkRolledBack
<1>4. CASE handler.to # NoSnapshot
  <2>1. /\ handler' \in Handler /\ handler'.step = "restore" /\ handler'.ds = handler.ds
        /\ handler'.retries = handler.retries /\ handler'.undoes = handler.undoes
        /\ handler'.to = handler.to
    BY <1>1, <1>4 DEF MarkRolledBack, Handler, Steps
  <2>2. LinkedRetry(handler) /\ LinkedUndo(handler) /\ LinkedRest(handler)
    BY <1>1 DEF IInv, Linked
  <2>3. Linked'
    BY <1>1, <1>2, <1>4, <2>1, <2>2
    DEF MarkRolledBack, Linked, LinkedLog, LinkedRetry, LinkedUndo, LinkedRest, Works
  <2> QED BY <1>2, <2>1, <2>3, StatusInv DEF MarkRolledBack
<1> QED BY <1>2, <1>3, <1>4

\* A restored row is one that was there.
LEMMA RestoredInv ==
  ASSUME IInv, NEW d \in Datasources, NEW v \in versions[d], TakeSnapshot(d),
         semantics' = Restored(d, v), restores' = restores + 1, handler' = Idle,
         UNCHANGED <<tableau, logs, used, edits, approved, crashed>>
  PROVE  IInv'
<1>1. versions' \in [Datasources -> SUBSET Snapshot] /\ SnapshotsCleared'
  BY SnapshotCleared DEF IInv, AllCleared
<1>2. v \in Snapshot /\ semantics[d] \in Row
  BY DEF IInv, TypeOK
<1>3. /\ semantics' \in [Datasources -> Row]
      /\ semantics'[d].status = v.status /\ semantics'[d].text = v.text
      /\ \A e \in Datasources \ {d} : semantics'[e] = semantics[e]
  <2>1. [semantics[d] EXCEPT !.status = v.status, !.text = v.text, !.sensitive = v.sensitive] \in Row
    BY <1>2 DEF Row, Snapshot
  <2>2. semantics' = [semantics EXCEPT ![d] = [semantics[d] EXCEPT !.status = v.status,
                                                 !.text = v.text, !.sensitive = v.sensitive]]
    BY DEF Restored, IInv, TypeOK
  <2> QED BY <1>2, <2>1, <2>2 DEF IInv, TypeOK, Row
<1>4. TypeOK'
  BY <1>1, <1>3 DEF IInv, TypeOK
<1>5. RowsCleared'
  BY <1>3 DEF IInv, AllCleared, RowsCleared, SnapshotsCleared, Cleared
<1>6. TableauCleared' /\ LogsCleared'
  BY DEF IInv, AllCleared, TableauCleared, LogsCleared, Cleared
<1> QED BY <1>1, <1>4, <1>5, <1>6, IdleLinked DEF IInv, AllCleared

LEMMA RestoreLocalInv ==
  ASSUME IInv, NEW d \in Datasources, NEW v \in versions[d], RestoreLocal(d, v)
  PROVE  IInv'
  BY RestoredInv DEF RestoreLocal

LEMMA RestoreInv ==
  ASSUME IInv, Restore
  PROVE  IInv'
<1>1. handler # Idle /\ handler.ds \in Datasources
  BY DEF Restore, IInv, TypeOK, Idle, Handler
<1>2. handler.to \in versions[handler.ds]
  BY <1>1 DEF Restore, IInv, Linked, LinkedRest
<1> QED BY <1>1, <1>2, RestoredInv DEF Restore

LEMMA RollbackLogInv ==
  ASSUME IInv, NEW l \in 1..used, RollbackLog(l)
  PROVE  IInv'
<1> DEFINE d == logs[l].ds
<1>1. logs[l] \in Log /\ d \in Datasources /\ l \in 0..MaxLogs /\ Cleared(d, logs[l].before)
  BY BoundsAssumption DEF IInv, TypeOK, Log, AllCleared, LogsCleared
<1>2. /\ semantics' \in [Datasources -> Row]
      /\ semantics'[d].status = semantics[d].status
      /\ semantics'[d].text \in {semantics[d].text, logs[l].before}
      /\ \A e \in Datasources \ {d} : semantics'[e] = semantics[e]
  BY <1>1 DEF RollbackLog, IInv, TypeOK, Row, Log
<1>3. /\ Base("copy", d) \in Handler /\ Base("copy", d).step = "copy" /\ Base("copy", d).ds = d
      /\ Base("copy", d).retries = 0 /\ Base("copy", d).undoes = 0 /\ Base("copy", d).to = NoSnapshot
  BY <1>1, BaseType DEF Steps
<1>4. handler' = [Base("copy", d) EXCEPT !.log = l]
  BY DEF RollbackLog
<1>5. /\ handler' \in Handler /\ handler'.step = "copy" /\ handler'.log = l /\ handler'.ds = d
      /\ handler'.retries = 0 /\ handler'.undoes = 0 /\ handler'.to = NoSnapshot
  BY <1>1, <1>3, <1>4 DEF Handler
<1>6. Linked'
  BY <1>5 DEF RollbackLog, Linked, LinkedLog, LinkedRetry, LinkedUndo, LinkedRest
<1>7. TypeOK'
  BY <1>2, <1>5 DEF RollbackLog, IInv, TypeOK
<1>8. RowsCleared'
  BY <1>1, <1>2 DEF RollbackLog, IInv, AllCleared, RowsCleared, Cleared
<1>9. SnapshotsCleared' /\ TableauCleared' /\ LogsCleared'
  BY DEF RollbackLog, IInv, AllCleared, SnapshotsCleared, TableauCleared, LogsCleared, Cleared
<1> QED BY <1>6, <1>7, <1>8, <1>9 DEF IInv, AllCleared

LEMMA CopyLogInv ==
  ASSUME IInv, CopyLog
  PROVE  /\ IInv'
         /\ handler.log \in 1..used /\ logs[handler.log].status = "success"
         /\ \A m \in 1..used : logs'[m].status = IF m = handler.log THEN "rolled_back" ELSE logs[m].status
<1> DEFINE l == handler.log
           n == used + 1
<1>1. handler # Idle /\ l \in 1..used /\ logs[l].status = "success" /\ used < MaxLogs
  BY DEF CopyLog, IInv, TypeOK, Idle, Handler, Linked, LinkedLog, LinkedRest, Works
<1>2. n \in LogIds /\ l \in LogIds /\ l # n /\ n \in 0..MaxLogs /\ 1..n = (1..used) \cup {n}
      /\ 1..used \subseteq LogIds /\ n \notin 1..used
  BY <1>1, BoundsAssumption DEF IInv, TypeOK, LogIds
<1>3. logs[l] \in Log /\ [logs[l] EXCEPT !.status = "rolled_back"] \in Log
  BY <1>1 DEF IInv, TypeOK, Log
<1>4. /\ logs' \in [LogIds -> Log \cup {NoLog}]
      /\ logs'[n] = logs[l] /\ logs'[l] = [logs[l] EXCEPT !.status = "rolled_back"]
      /\ \A m \in LogIds \ {l, n} : logs'[m] = logs[m]
  BY <1>2, <1>3 DEF CopyLog, IInv, TypeOK
<1>5. ASSUME NEW m \in 1..n
      PROVE  \E k \in 1..used : /\ logs'[m] \in Log /\ logs'[m].ds = logs[k].ds
                                /\ logs'[m].text = logs[k].text /\ logs'[m].before = logs[k].before
  <2>1. CASE m = n
    BY <1>1, <1>3, <1>4, <2>1
  <2>2. CASE m = l
    BY <1>1, <1>3, <1>4, <2>2 DEF Log
  <2>3. CASE m \notin {l, n}
    BY <1>2, <1>4, <2>3 DEF IInv, TypeOK
  <2> QED BY <2>1, <2>2, <2>3
<1>6. used' = n /\ handler' = Idle
  BY DEF CopyLog
<1>7. TypeOK'
  BY <1>2, <1>4, <1>5, <1>6 DEF CopyLog, IInv, TypeOK
<1>8. LogsCleared'
  <2>1. \A k \in 1..used : Cleared(logs[k].ds, logs[k].text) /\ Cleared(logs[k].ds, logs[k].before)
    BY DEF IInv, AllCleared, LogsCleared
  <2>2. approved' = approved /\ used' = n
    BY DEF CopyLog
  <2>3. ASSUME NEW m \in 1..n
        PROVE  Cleared(logs[m].ds, logs[m].text)' /\ Cleared(logs[m].ds, logs[m].before)'
    <3>1. PICK k \in 1..used : /\ logs'[m].ds = logs[k].ds
                               /\ logs'[m].text = logs[k].text /\ logs'[m].before = logs[k].before
      BY <1>5
    <3> QED BY <2>1, <2>2, <3>1 DEF Cleared
  <2> QED BY <2>2, <2>3 DEF LogsCleared
<1>9. RowsCleared' /\ SnapshotsCleared' /\ TableauCleared'
  BY DEF CopyLog, IInv, AllCleared, RowsCleared, SnapshotsCleared, TableauCleared, Cleared
<1>10. \A m \in 1..used : logs'[m].status = IF m = l THEN "rolled_back" ELSE logs[m].status
  BY <1>2, <1>3, <1>4 DEF Log
<1> QED BY <1>1, <1>6, <1>7, <1>8, <1>9, <1>10, IdleLinked DEF IInv, AllCleared

LEMMA CrashInv ==
  ASSUME IInv, Crash
  PROVE  IInv'
<1>1. TypeOK'
  BY DEF Crash, IInv, TypeOK
<1>2. AllCleared'
  BY DEF Crash, IInv, AllCleared, RowsCleared, SnapshotsCleared, TableauCleared, LogsCleared, Cleared
<1> QED BY <1>1, <1>2, IdleLinked DEF Crash, IInv
----------------------------------------------------------------------------
LEMMA StepInv ==
  ASSUME IInv, [Next]_vars
  PROVE  IInv'
<1>1. CASE UNCHANGED vars
  BY <1>1 DEF vars, IInv, TypeOK, AllCleared, RowsCleared, SnapshotsCleared, TableauCleared, LogsCleared,
             Cleared, Linked, LinkedLog, LinkedRetry, LinkedUndo, LinkedRest, Works
<1>2. ASSUME NEW d \in Datasources, NEW s \in Sensitive, NEW t \in Written \cup {semantics[d].text}, Edit(d, t, s) PROVE IInv'
  BY <1>2, EditInv
<1>3. ASSUME NEW d \in Datasources, NEW s \in Sensitive, NEW t \in Generated \cup {semantics[d].text}, Generate(d, t, s) PROVE IInv'
  BY <1>3, GenerateInv
<1>4. ASSUME NEW d \in Datasources, NEW to \in {"reviewed", "approved", "rejected"}, Review(d, to) PROVE IInv'
  BY <1>4, ReviewInv
<1>5. ASSUME NEW d \in Datasources, Archive(d) PROVE IInv'
  BY <1>5, ArchiveInv
<1>6. ASSUME NEW d \in Datasources, NEW seen \in Texts, Publish(d, seen) PROVE IInv'
  BY <1>6, PublishInv
<1>7. ASSUME NEW d \in Datasources, NEW v \in versions[d], RestoreLocal(d, v) \/ RestoreBoth(d, v) PROVE IInv'
  BY <1>7, RestoreLocalInv, RestoreBothInv
<1>8. ASSUME NEW l \in 1..used, Retry(l) \/ Undo(l) \/ RollbackLog(l) PROVE IInv'
  BY <1>8, RetryInv, UndoInv, RollbackLogInv
<1>9. ASSUME NEW done \in BOOLEAN, NEW ok \in BOOLEAN, Put(done, ok) PROVE IInv'
  BY <1>9, PutInv
<1>10. ASSUME NEW seen \in Texts, Attempt(seen) PROVE IInv'
  BY <1>10, AttemptInv
<1>11. CASE RecordPublish \/ Flag \/ FlagFails \/ AttemptRefused \/ GiveUp
  BY <1>11, RecordPublishInv, FlagInv, FlagFailsInv, AttemptRefusedInv, GiveUpInv
<1>12. CASE RecordUndo \/ MarkRolledBack \/ Restore \/ CopyLog \/ Crash
  BY <1>12, RecordUndoInv, MarkRolledBackInv, RestoreInv, CopyLogInv, CrashInv
<1> QED BY <1>1, <1>2, <1>3, <1>4, <1>5, <1>6, <1>7, <1>8, <1>9, <1>10, <1>11, <1>12 DEF Next

LEMMA AlwaysInv == Spec => []IInv
  BY InitInv, StepInv, PTL DEF Spec

\* The rows, logs and requests always have their types.
THEOREM TypeCorrect == Spec => []TypeOK
<1>1. IInv => TypeOK
  BY DEF IInv
<1> QED BY <1>1, AlwaysInv, PTL

\* No generated text reaches Tableau without a reviewer (spec 09:452): not by a
\* retry, a rollback, a restored version, or a crash between two of their steps.
THEOREM ReviewedFirst == Spec => []GeneratedWasApproved
<1>1. IInv => GeneratedWasApproved
  BY DEF IInv, AllCleared, TableauCleared, GeneratedWasApproved, Cleared
<1> QED BY <1>1, AlwaysInv, PTL

LEMMA LogMoves ==
  ASSUME IInv, [Next]_vars, NEW l \in 1..used, logs'[l].status # logs[l].status
  PROVE  LogMove(logs[l].status, logs'[l].status)
<1> DEFINE Quiet == \A m \in 1..used : logs'[m] = logs[m]
           Moved(k, from, s) == k \in 1..used /\ logs[k].status = from /\ logs' = SetStatus(k, s)
<1>1. CASE logs' = logs
  BY <1>1
<1>2. ASSUME NEW k \in LogIds, NEW from \in {"pending", "success", "failed"},
             NEW s \in {"pending", "success", "failed", "rolled_back"}, Moved(k, from, s), LogMove(from, s)
      PROVE  LogMove(logs[l].status, logs'[l].status)
  <2>1. k = l
    BY <1>2 DEF SetStatus, IInv, TypeOK
  <2>2. logs[k] \in Log
    BY <1>2 DEF IInv, TypeOK
  <2>3. logs'[l].status = s
    BY <1>2, <2>1, <2>2 DEF SetStatus, IInv, TypeOK, Log
  <2> QED BY <1>2, <2>1, <2>3
<1>3. 1..used \subseteq LogIds
  BY BoundsAssumption DEF IInv, TypeOK, LogIds
<1>4. ASSUME NEW d \in Datasources, NEW seen \in Texts, Publish(d, seen) PROVE Quiet
  BY <1>4, PublishInv
<1>5. ASSUME NEW d \in Datasources, NEW v \in versions[d], RestoreBoth(d, v) PROVE Quiet
  BY <1>5, RestoreBothInv
<1>6. ASSUME NEW m \in 1..used, Undo(m) PROVE Quiet
  BY <1>6, UndoInv
<1>7. ASSUME NEW seen \in Texts, Attempt(seen) PROVE Quiet
  BY <1>7, AttemptInv
<1>8. ASSUME NEW m \in 1..used, Retry(m) PROVE Moved(m, "failed", "pending")
  BY <1>8 DEF Retry
<1>9. ASSUME RecordPublish \/ RecordUndo
      PROVE  \E s \in {"success", "failed"} : Moved(handler.log, "pending", s)
  BY <1>9, RecordPublishInv, RecordUndoInv DEF RecordPublish, RecordUndo, Outcome
<1>10. ASSUME FlagFails PROVE Moved(handler.log, "success", "failed")
  BY <1>10, FlagFailsInv DEF FlagFails
<1>11. ASSUME GiveUp PROVE Moved(handler.retries, "pending", "failed")
  BY <1>11, GiveUpInv DEF GiveUp
<1>12. ASSUME MarkRolledBack PROVE Moved(handler.undoes, "success", "rolled_back")
  BY <1>12, MarkRolledBackInv DEF MarkRolledBack
<1>13. ASSUME CopyLog PROVE logs[l].status = "success" /\ logs'[l].status = "rolled_back"
  BY <1>13, CopyLogInv
<1>14. \/ logs' = logs
       \/ \E d \in Datasources, seen \in Texts : Publish(d, seen)
       \/ \E d \in Datasources : \E v \in versions[d] : RestoreBoth(d, v)
       \/ \E m \in 1..used : Undo(m) \/ Retry(m)
       \/ \E seen \in Texts : Attempt(seen)
       \/ RecordPublish \/ RecordUndo \/ FlagFails \/ GiveUp \/ MarkRolledBack \/ CopyLog
  BY DEF Next, vars, Edit, Generate, Review, Archive, RestoreLocal, RollbackLog, Put, Flag,
         AttemptRefused, Restore, Crash
<1>15. CASE Quiet
  BY <1>15
<1>16. CASE RecordPublish \/ RecordUndo
  BY <1>2, <1>3, <1>9, <1>16 DEF LogMove
<1>17. CASE FlagFails \/ GiveUp \/ MarkRolledBack
  BY <1>2, <1>3, <1>10, <1>11, <1>12, <1>17 DEF LogMove
<1>18. CASE CopyLog
  BY <1>13, <1>18 DEF LogMove
<1>19. CASE \E m \in 1..used : Retry(m)
  BY <1>2, <1>3, <1>8, <1>19 DEF LogMove
<1> HIDE DEF Quiet, Moved
<1> QED BY <1>1, <1>4, <1>5, <1>6, <1>7, <1>14, <1>15, <1>16, <1>17, <1>18, <1>19

\* A publish log moves only along its lifecycle, and never leaves "rolled_back"
\* (publish_service.py 427-513, rollback_service.py 226-268).
THEOREM LifecycleHolds == Spec => LogsFollowLifecycle
<1>1. ASSUME IInv, [Next]_vars
      PROVE  [\A l \in 1..used : logs'[l].status # logs[l].status =>
                   LogMove(logs[l].status, logs'[l].status)]_vars
  BY <1>1, LogMoves
<1> QED BY <1>1, AlwaysInv, PTL DEF Spec, LogsFollowLifecycle
----------------------------------------------------------------------------
(* Why a log stays pending.  An explanation must not fall back: the success that *)
(* has not been flagged yet explains nothing (Firm).                            *)
Firm(m) == /\ logs[m].status \in {"success", "rolled_back"}
           /\ ~(handler # Idle /\ handler.step = "logged" /\ handler.log = m)
FirmlyExplained == \A l \in 1..used : logs[l].status = "pending" /\ ~Open(l) =>
    \/ crashed
    \/ \E m \in (l + 1)..used : logs[m].ds = logs[l].ds /\ Firm(m)

\* Past the answer of Tableau the log that was written is not pending any more.
Settled == handler # Idle /\ handler.log # 0
              /\ handler.step \in {"logged", "retry", "mark", "restore", "copy"} =>
    handler.log \in 1..used /\ logs[handler.log].status # "pending"
\* What a retry publishes comes after what it retries, for the same data source.
RetryNamed == handler # Idle /\ handler.retries # 0 =>
    /\ logs[handler.retries].ds = handler.ds
    /\ handler.step # "retry" => handler.retries < handler.log

XInv == Settled /\ RetryNamed /\ FirmlyExplained

LEMMA ExplainedKept ==
  ASSUME FirmlyExplained, used \in Nat, used' \in {used, used + 1}, crashed => crashed',
         \A m \in 1..used : logs'[m].ds = logs[m].ds /\ (Firm(m) => Firm(m)'),
         \A l \in 1..used' : logs'[l].status = "pending" /\ ~Open(l)' =>
             \/ l \in 1..used /\ logs[l].status = "pending" /\ ~Open(l)
             \/ \E m \in (l + 1)..used' : logs'[m].ds = logs'[l].ds /\ Firm(m)'
  PROVE  FirmlyExplained'
<1> SUFFICES ASSUME NEW l \in 1..used', logs'[l].status = "pending", ~Open(l)', ~crashed'
             PROVE  \E m \in (l + 1)..used' : logs'[m].ds = logs'[l].ds /\ Firm(m)'
  BY DEF FirmlyExplained
<1>1. CASE l \in 1..used /\ logs[l].status = "pending" /\ ~Open(l)
  <2>1. PICK m \in (l + 1)..used : logs[m].ds = logs[l].ds /\ Firm(m)
    BY <1>1 DEF FirmlyExplained
  <2>2. m \in 1..used /\ m \in (l + 1)..used'
    BY <1>1
  <2> QED BY <1>1, <2>1, <2>2
<1> QED BY <1>1

\* Steps that leave the logs and the request as they are.
LEMMA QuietX ==
  ASSUME IInv, XInv, UNCHANGED <<logs, used, handler, crashed>>
  PROVE  XInv'
BY DEF XInv, Settled, RetryNamed, FirmlyExplained, Firm, Open

\* A new log is the one its request works on.
LEMMA NewLogX ==
  ASSUME IInv, XInv, NEW rec, NEW h \in Handler, NewLog(rec, h), rec.ds = h.ds,
         crashed' = crashed, \A l \in 1..used : logs'[l] = logs[l],
         h.retries # 0 => h.retries \in 1..used /\ logs[h.retries].ds = h.ds,
         handler = Idle \/ (h = handler /\ h.step = "retry")
  PROVE  XInv'
<1> DEFINE n == used + 1
<1>1. used \in Nat /\ used' = n /\ handler' = [h EXCEPT !.step = "put", !.log = n]
  BY BoundsAssumption DEF NewLog, IInv, TypeOK
<1>2. handler'.step = "put" /\ handler'.log = n /\ handler'.ds = h.ds /\ handler'.retries = h.retries
      /\ handler' # Idle
  BY <1>1 DEF Handler, Idle
<1>3. Settled'
  BY <1>2 DEF Settled
<1>4. RetryNamed'
  BY <1>1, <1>2 DEF RetryNamed
<1>5. ASSUME NEW m \in 1..used PROVE Firm(m)' <=> logs[m].status \in {"success", "rolled_back"}
  BY <1>2 DEF Firm
<1>6. ASSUME NEW l \in 1..used, logs[l].status = "pending", ~Open(l)'
      PROVE  ~Open(l)
  <2>1. CASE handler = Idle
    BY <2>1 DEF Open
  <2>2. CASE h = handler /\ h.step = "retry" /\ handler # Idle
    <3>1. l # handler.retries
      BY <1>2, <1>6, <2>2 DEF Open
    <3>2. handler.log = l => FALSE
      BY <1>1, <1>6, <2>2 DEF XInv, Settled
    <3> QED BY <3>1, <3>2 DEF Open
  <2> QED BY <2>1, <2>2
<1>7. \A l : l = n => Open(l)'
  BY <1>2 DEF Open
<1>8. FirmlyExplained'
  <2>1. \A m \in 1..used : logs'[m].ds = logs[m].ds /\ (Firm(m) => Firm(m)')
    BY <1>5 DEF Firm
  <2>2. ASSUME NEW l \in 1..used', logs'[l].status = "pending", ~Open(l)'
        PROVE  l \in 1..used /\ logs[l].status = "pending" /\ ~Open(l)
    <3>1. l \in 1..used
      BY <1>1, <1>7, <2>2
    <3> QED BY <1>6, <2>2, <3>1
  <2> QED BY <1>1, <2>1, <2>2, ExplainedKept DEF XInv
<1> QED BY <1>3, <1>4, <1>8 DEF XInv

LEMMA PublishX ==
  ASSUME IInv, XInv, NEW d \in Datasources, NEW seen \in Texts, Publish(d, seen)
  PROVE  XInv'
<1> DEFINE h == Base("put", d)
           rec == [ds |-> d, kind |-> "publish", before |-> Before(d, seen),
                   text |-> semantics[d].text, status |-> "pending"]
<1>1. h \in Handler /\ h.ds = d /\ h.retries = 0
  BY BaseType DEF Steps
<1>2. NewLog(rec, h) /\ crashed' = crashed /\ handler = Idle /\ rec.ds = d
  BY DEF Publish, OpenPublish
<1>3. \A l \in 1..used : logs'[l] = logs[l]
  BY PublishInv
<1>4. /\ rec.ds = h.ds /\ (h.retries # 0 => h.retries \in 1..used /\ logs[h.retries].ds = h.ds)
      /\ (handler = Idle \/ (h = handler /\ h.step = "retry"))
  BY <1>1, <1>2
<1> HIDE DEF h, rec
<1> QED BY <1>1, <1>2, <1>3, <1>4, NewLogX

LEMMA AttemptX ==
  ASSUME IInv, XInv, NEW seen \in Texts, Attempt(seen)
  PROVE  XInv'
<1> DEFINE d == handler.ds
           rec == [ds |-> d, kind |-> "publish", before |-> Before(d, seen),
                   text |-> semantics[d].text, status |-> "pending"]
<1>1. handler \in Handler /\ handler # Idle /\ handler.step = "retry"
  BY DEF Attempt, IInv, TypeOK, Idle, Handler
<1>2. NewLog(rec, handler) /\ crashed' = crashed /\ rec.ds = handler.ds
  BY DEF Attempt, OpenPublish
<1>3. \A l \in 1..used : logs'[l] = logs[l]
  BY AttemptInv
<1>4. handler.retries \in 1..used /\ logs[handler.retries].ds = handler.ds
  BY <1>1 DEF IInv, Linked, LinkedRetry, XInv, RetryNamed
<1> HIDE DEF rec
<1> QED BY <1>1, <1>2, <1>3, <1>4, NewLogX

LEMMA OpenUndoX ==
  ASSUME IInv, XInv, handler = Idle, NEW l \in 1..used, NEW v \in Snapshot \cup {NoSnapshot},
         OpenUndo(l, v), crashed' = crashed, \A m \in 1..used : logs'[m] = logs[m]
  PROVE  XInv'
<1> DEFINE d == logs[l].ds
           rec == [ds |-> d, kind |-> "undo", before |-> logs[l].before,
                   text |-> logs[l].before, status |-> "pending"]
           h == [Base("put", d) EXCEPT !.undoes = l, !.to = v]
<1>1. d \in Datasources /\ l \in 0..MaxLogs
  BY BoundsAssumption DEF IInv, TypeOK, Log
<1>2. h \in Handler /\ h.ds = d /\ h.retries = 0
  <2>1. Base("put", d) \in Handler /\ Base("put", d).ds = d /\ Base("put", d).retries = 0
    BY <1>1, BaseType DEF Steps
  <2> QED BY <1>1, <2>1 DEF Handler
<1>3. NewLog(rec, h) /\ rec.ds = d
  BY DEF OpenUndo
<1>4. /\ rec.ds = h.ds /\ (h.retries # 0 => h.retries \in 1..used /\ logs[h.retries].ds = h.ds)
      /\ (handler = Idle \/ (h = handler /\ h.step = "retry"))
  BY <1>2, <1>3
<1>5. crashed' = crashed /\ \A m \in 1..used : logs'[m] = logs[m]
  OBVIOUS
<1> HIDE DEF h, rec, d
<1> QED BY <1>2, <1>3, <1>4, <1>5, NewLogX

LEMMA UndoX ==
  ASSUME IInv, XInv, NEW l \in 1..used, Undo(l)
  PROVE  XInv'
BY OpenUndoX, UndoInv DEF Undo

LEMMA RestoreBothX ==
  ASSUME IInv, XInv, NEW d \in Datasources, NEW v \in versions[d], RestoreBoth(d, v)
  PROVE  XInv'
<1>1. PICK l \in Published(d) : OpenUndo(l, v)
  BY DEF RestoreBoth
<1>2. l \in 1..used
  BY DEF Published, Successes
<1>3. v \in Snapshot
  BY DEF IInv, TypeOK
<1> QED BY <1>1, <1>2, <1>3, OpenUndoX, RestoreBothInv DEF RestoreBoth
----------------------------------------------------------------------------
LEMMA PutX ==
  ASSUME IInv, XInv, NEW done \in BOOLEAN, NEW ok \in BOOLEAN, Put(done, ok)
  PROVE  XInv'
<1>1. handler \in Handler /\ handler # Idle /\ handler.step = "put" /\ used \in Nat
  BY BoundsAssumption DEF Put, IInv, TypeOK, Idle, Handler
<1>2. /\ handler'.step = "answered" /\ handler'.log = handler.log /\ handler'.retries = handler.retries
      /\ handler'.ds = handler.ds /\ handler' # Idle /\ UNCHANGED <<logs, used, crashed>>
  BY <1>1 DEF Put, Handler, Idle
<1>3. Settled' /\ RetryNamed'
  BY <1>1, <1>2 DEF XInv, Settled, RetryNamed
<1>4. FirmlyExplained'
  BY <1>1, <1>2 DEF XInv, FirmlyExplained, Firm, Open
<1> QED BY <1>3, <1>4 DEF XInv

\* What follows a failed publish.
LEMMA AfterFailureX ==
  ASSUME IInv, XInv, handler.step \in {"answered", "logged"}, handler.undoes = 0,
         logs' = SetStatus(handler.log, "failed"), handler' = AfterFailure,
         UNCHANGED <<used, approved, crashed>>
  PROVE  XInv'
<1>1. handler \in Handler /\ handler # Idle /\ used \in Nat
  BY BoundsAssumption DEF IInv, TypeOK, Idle, Handler
<1>2. handler.log \in 1..used /\ LinkedRetry(handler)
  BY <1>1 DEF IInv, Linked, LinkedLog, Works
<1>3. \A m \in 1..used : /\ logs'[m].ds = logs[m].ds
                         /\ logs'[m].status = IF m = handler.log THEN "failed" ELSE logs[m].status
  BY <1>2, StatusKept DEF IInv, AllCleared
<1>4. ASSUME NEW m \in 1..used, Firm(m) PROVE m # handler.log
  <2>1. handler.step = "answered" => logs[handler.log].status = "pending"
    BY <1>1 DEF IInv, Linked, LinkedLog, Works
  <2> QED BY <1>1, <1>4, <2>1 DEF Firm
<1>5. CASE handler.retries = 0
  <2>1. handler' = Idle
    BY <1>5 DEF AfterFailure
  <2>2. Settled' /\ RetryNamed'
    BY <2>1 DEF Settled, RetryNamed
  <2>3. \A m \in 1..used : Firm(m) => Firm(m)'
    BY <1>3, <1>4, <2>1 DEF Firm
  <2>4. ASSUME NEW l \in 1..used, logs'[l].status = "pending"
        PROVE  logs[l].status = "pending" /\ ~Open(l)
    BY <1>2, <1>3, <1>5, <2>4 DEF Open
  <2>5. FirmlyExplained'
    BY <1>1, <1>3, <2>3, <2>4, ExplainedKept DEF XInv
  <2> QED BY <2>2, <2>5 DEF XInv
<1>6. CASE handler.retries # 0
  <2>1. /\ handler'.step = "retry" /\ handler'.log = handler.log /\ handler'.retries = handler.retries
        /\ handler'.ds = handler.ds /\ handler' # Idle
    BY <1>1, <1>6 DEF AfterFailure, Handler, Idle
  <2>2. Settled'
    BY <1>2, <1>3, <2>1 DEF Settled
  <2>3. RetryNamed'
    BY <1>1, <1>2, <1>3, <1>6, <2>1 DEF XInv, RetryNamed, LinkedRetry
  <2>4. \A m \in 1..used : Firm(m) => Firm(m)'
    BY <1>3, <1>4, <2>1 DEF Firm
  <2>5. ASSUME NEW l \in 1..used, logs'[l].status = "pending", ~Open(l)'
        PROVE  logs[l].status = "pending" /\ ~Open(l)
    BY <1>2, <1>3, <2>1, <2>5 DEF Open
  <2>6. FirmlyExplained'
    BY <1>1, <1>3, <2>4, <2>5, ExplainedKept DEF XInv
  <2> QED BY <2>2, <2>3, <2>6 DEF XInv
<1> QED BY <1>5, <1>6

LEMMA RecordPublishX ==
  ASSUME IInv, XInv, RecordPublish
  PROVE  XInv'
<1>1. handler \in Handler /\ handler # Idle /\ handler.step = "answered" /\ used \in Nat
  BY BoundsAssumption DEF RecordPublish, IInv, TypeOK, Idle, Handler
<1>2. handler.log \in 1..used /\ logs[handler.log].status = "pending"
  BY RecordPublishInv
<1>3. CASE ~handler.ok
  BY <1>3, AfterFailureX DEF RecordPublish, Outcome
<1>4. CASE handler.ok
  <2>1. logs' = SetStatus(handler.log, "success") /\ UNCHANGED <<used, approved, crashed>>
    BY <1>4 DEF RecordPublish, Outcome
  <2>2. \A m \in 1..used : /\ logs'[m].ds = logs[m].ds
                           /\ logs'[m].status = IF m = handler.log THEN "success" ELSE logs[m].status
    BY <1>2, <2>1, StatusKept DEF IInv, AllCleared
  <2>3. /\ handler'.step = "logged" /\ handler'.log = handler.log /\ handler'.retries = handler.retries
        /\ handler'.ds = handler.ds /\ handler' # Idle
    BY <1>1, <1>4 DEF RecordPublish, Handler, Idle
  <2>4. Settled'
    BY <1>2, <2>1, <2>2, <2>3 DEF Settled
  <2>5. RetryNamed'
    BY <1>1, <2>2, <2>3 DEF XInv, RetryNamed, IInv, Linked, LinkedRetry
  <2>6. \A m \in 1..used : Firm(m) => Firm(m)'
    BY <1>2, <2>2, <2>3 DEF Firm
  <2>7. ASSUME NEW l \in 1..used, logs'[l].status = "pending", ~Open(l)'
        PROVE  logs[l].status = "pending" /\ ~Open(l)
    BY <2>2, <2>3, <2>7 DEF Open
  <2>8. FirmlyExplained'
    BY <1>1, <2>1, <2>2, <2>6, <2>7, ExplainedKept DEF XInv
  <2> QED BY <2>4, <2>5, <2>8 DEF XInv
<1> QED BY <1>3, <1>4

LEMMA FlagFailsX ==
  ASSUME IInv, XInv, FlagFails
  PROVE  XInv'
<1>1. handler # Idle /\ handler.step = "logged"
  BY DEF FlagFails, Idle
<1>2. handler.undoes = 0
  BY <1>1 DEF IInv, Linked, LinkedUndo
<1> QED BY <1>1, <1>2, AfterFailureX DEF FlagFails

\* The flag makes the success firm, and what was retried is left pending.
LEMMA FlagX ==
  ASSUME IInv, XInv, Flag
  PROVE  XInv'
<1>1. handler # Idle /\ handler.step = "logged" /\ used \in Nat
  BY BoundsAssumption DEF Flag, IInv, TypeOK, Idle
<1>2. /\ handler.log \in 1..used /\ logs[handler.log].status = "success"
      /\ logs[handler.log].ds = handler.ds
  BY <1>1 DEF IInv, Linked, LinkedLog, Works
<1>3. handler' = Idle /\ UNCHANGED <<logs, used, crashed>>
  BY DEF Flag
<1>4. Settled' /\ RetryNamed'
  BY <1>3 DEF Settled, RetryNamed
<1>5. \A m \in 1..used : Firm(m)' <=> logs[m].status \in {"success", "rolled_back"}
  BY <1>3 DEF Firm
<1>6. ASSUME NEW l \in 1..used, logs[l].status = "pending", Open(l)
      PROVE  \E m \in (l + 1)..used : logs[m].ds = logs[l].ds /\ Firm(m)'
  <2>1. l = handler.retries
    BY <1>2, <1>6 DEF Open
  <2>2. l # 0 /\ logs[l].ds = handler.ds /\ l < handler.log
    BY <1>1, <2>1 DEF XInv, RetryNamed
  <2>3. handler.log \in (l + 1)..used
    BY <1>1, <1>2, <2>2
  <2> QED BY <1>2, <1>5, <2>2, <2>3
<1>7. FirmlyExplained'
  <2>1. \A m \in 1..used : Firm(m) => Firm(m)'
    BY <1>5 DEF Firm
  <2>2. ASSUME NEW l \in 1..used, logs[l].status = "pending"
        PROVE  \/ ~Open(l)
               \/ \E m \in (l + 1)..used : logs[m].ds = logs[l].ds /\ Firm(m)'
    BY <1>6, <2>2
  <2> QED BY <1>1, <1>3, <2>1, <2>2, ExplainedKept DEF XInv
<1> QED BY <1>4, <1>7 DEF XInv
----------------------------------------------------------------------------
LEMMA RetryX ==
  ASSUME IInv, XInv, NEW l \in 1..used, Retry(l)
  PROVE  XInv'
<1> DEFINE d == logs[l].ds
<1>1. d \in Datasources /\ l \in 0..MaxLogs /\ l # 0 /\ used \in Nat
  BY BoundsAssumption DEF IInv, TypeOK, Log
<1>2. handler = Idle /\ logs[l].status = "failed" /\ UNCHANGED <<used, crashed>>
  BY DEF Retry
<1>3. handler'.step = "retry" /\ handler'.log = 0 /\ handler'.retries = l /\ handler'.ds = d /\ handler' # Idle
  <2>1. Base("retry", d).step = "retry" /\ Base("retry", d).log = 0 /\ Base("retry", d).ds = d
        /\ Base("retry", d) \in Handler
    BY <1>1, BaseType DEF Base, Steps
  <2>2. handler' = [Base("retry", d) EXCEPT !.retries = l]
    BY DEF Retry
  <2> QED BY <2>1, <2>2 DEF Handler, Idle
<1>4. \A m \in 1..used : /\ logs'[m].ds = logs[m].ds
                         /\ logs'[m].status = IF m = l THEN "pending" ELSE logs[m].status
  BY StatusKept DEF Retry, IInv, AllCleared
<1>5. Settled' /\ RetryNamed'
  BY <1>1, <1>3, <1>4 DEF Settled, RetryNamed
<1>6. \A m \in 1..used : Firm(m) => Firm(m)'
  BY <1>2, <1>3, <1>4 DEF Firm
<1>7. ASSUME NEW m \in 1..used, logs'[m].status = "pending", ~Open(m)'
      PROVE  logs[m].status = "pending" /\ ~Open(m)
  BY <1>2, <1>3, <1>4, <1>7 DEF Open
<1>8. FirmlyExplained'
  BY <1>1, <1>2, <1>4, <1>6, <1>7, ExplainedKept DEF XInv
<1> QED BY <1>5, <1>8 DEF XInv

LEMMA AttemptRefusedX ==
  ASSUME IInv, XInv, AttemptRefused
  PROVE  XInv'
<1>1. handler \in Handler /\ handler # Idle /\ handler.step = "retry"
  BY DEF AttemptRefused, IInv, TypeOK, Idle, Handler
<1>2. /\ handler'.step = "retry" /\ handler'.log = handler.log /\ handler'.retries = handler.retries
      /\ handler'.ds = handler.ds /\ handler' # Idle /\ UNCHANGED <<logs, used, crashed>>
  BY <1>1 DEF AttemptRefused, Handler, Idle
<1> QED BY <1>1, <1>2 DEF XInv, Settled, RetryNamed, FirmlyExplained, Firm, Open

\* The end of a request whose log is settled, and that retries nothing.
LEMMA EndX ==
  ASSUME IInv, XInv, handler # Idle, handler' = Idle, UNCHANGED <<used, crashed>>,
         \A m \in 1..used : /\ logs'[m].ds = logs[m].ds
                            /\ Firm(m) => logs'[m].status \in {"success", "rolled_back"}
                            /\ logs'[m].status = "pending" => logs[m].status = "pending" /\ ~Open(m)
  PROVE  XInv'
<1>1. used \in Nat
  BY BoundsAssumption DEF IInv, TypeOK
<1>2. Settled' /\ RetryNamed'
  BY DEF Settled, RetryNamed
<1>3. \A m \in 1..used : Firm(m) => Firm(m)'
  BY DEF Firm
<1>4. FirmlyExplained'
  BY <1>1, <1>3, ExplainedKept DEF XInv
<1> QED BY <1>2, <1>4 DEF XInv

LEMMA GiveUpX ==
  ASSUME IInv, XInv, GiveUp
  PROVE  XInv'
<1>1. handler # Idle /\ handler.step = "retry" /\ handler' = Idle /\ UNCHANGED <<used, approved, crashed>>
  BY DEF GiveUp, Idle
<1>2. handler.retries \in 1..used /\ logs[handler.retries].status = "pending"
  BY GiveUpInv
<1>3. \A m \in 1..used : /\ logs'[m].ds = logs[m].ds
                         /\ logs'[m].status = IF m = handler.retries THEN "failed" ELSE logs[m].status
  BY <1>1, <1>2, StatusKept DEF GiveUp, IInv, AllCleared
<1>4. \A m \in 1..used : m = handler.log => logs[m].status # "pending"
  BY <1>1 DEF XInv, Settled
<1>5. \A m \in 1..used : /\ Firm(m) => logs'[m].status \in {"success", "rolled_back"}
                         /\ logs'[m].status = "pending" => logs[m].status = "pending" /\ ~Open(m)
  BY <1>2, <1>3, <1>4 DEF Firm, Open
<1> QED BY <1>1, <1>3, <1>5, EndX

LEMMA RestoreX ==
  ASSUME IInv, XInv, Restore
  PROVE  XInv'
<1>1. handler # Idle /\ handler.step = "restore" /\ handler' = Idle /\ UNCHANGED <<logs, used, crashed>>
  BY DEF Restore, Idle
<1>2. handler.retries = 0
  BY <1>1 DEF IInv, Linked, LinkedRetry
<1>3. \A m \in 1..used : m = handler.log => logs[m].status # "pending"
  BY <1>1 DEF XInv, Settled
<1>4. \A m \in 1..used : /\ Firm(m) => logs'[m].status \in {"success", "rolled_back"}
                         /\ logs'[m].status = "pending" => logs[m].status = "pending" /\ ~Open(m)
  BY <1>1, <1>2, <1>3 DEF Firm, Open
<1> QED BY <1>1, <1>4, EndX

LEMMA RecordUndoX ==
  ASSUME IInv, XInv, RecordUndo
  PROVE  XInv'
<1>1. handler \in Handler /\ handler # Idle /\ handler.step = "answered" /\ handler.undoes # 0
      /\ UNCHANGED <<used, approved, crashed>> /\ used \in Nat
  BY BoundsAssumption DEF RecordUndo, IInv, TypeOK, Idle, Handler
<1>2. handler.log \in 1..used /\ logs[handler.log].status = "pending"
  BY RecordUndoInv
<1>3. handler.retries = 0
  BY <1>1 DEF IInv, Linked, LinkedRetry
<1>4. Outcome(handler.ok) \in {"success", "failed"}
  BY DEF Outcome
<1>5. \A m \in 1..used : /\ logs'[m].ds = logs[m].ds
                         /\ logs'[m].status = IF m = handler.log THEN Outcome(handler.ok) ELSE logs[m].status
  BY <1>1, <1>2, <1>4, StatusKept DEF RecordUndo, IInv, AllCleared
<1>6. CASE ~handler.ok
  <2>1. handler' = Idle
    BY <1>6 DEF RecordUndo
  <2>2. \A m \in 1..used : /\ Firm(m) => logs'[m].status \in {"success", "rolled_back"}
                           /\ logs'[m].status = "pending" => logs[m].status = "pending" /\ ~Open(m)
    BY <1>2, <1>3, <1>4, <1>5 DEF Firm, Open
  <2> QED BY <1>1, <1>5, <2>1, <2>2, EndX
<1>7. CASE handler.ok
  <2>1. /\ handler'.step = "mark" /\ handler'.log = handler.log /\ handler'.retries = 0 /\ handler' # Idle
    BY <1>1, <1>3, <1>7 DEF RecordUndo, Handler, Idle
  <2>2. Settled' /\ RetryNamed'
    BY <1>1, <1>2, <1>4, <1>5, <2>1 DEF Settled, RetryNamed
  <2>3. \A m \in 1..used : Firm(m) => Firm(m)'
    BY <1>2, <1>5, <2>1 DEF Firm
  <2>4. ASSUME NEW l \in 1..used, logs'[l].status = "pending"
        PROVE  logs[l].status = "pending" /\ ~Open(l)
    BY <1>2, <1>3, <1>4, <1>5, <2>4 DEF Open
  <2>5. FirmlyExplained'
    BY <1>1, <1>5, <2>3, <2>4, ExplainedKept DEF XInv
  <2> QED BY <2>2, <2>5 DEF XInv
<1> QED BY <1>6, <1>7

LEMMA MarkRolledBackX ==
  ASSUME IInv, XInv, MarkRolledBack
  PROVE  XInv'
<1>1. handler \in Handler /\ handler # Idle /\ handler.step = "mark" /\ UNCHANGED <<used, approved, crashed>>
      /\ used \in Nat
  BY BoundsAssumption DEF MarkRolledBack, IInv, TypeOK, Idle, Handler
<1>2. handler.undoes \in 1..used /\ logs[handler.undoes].status = "success"
  BY MarkRolledBackInv
<1>3. handler.retries = 0
  BY <1>1 DEF IInv, Linked, LinkedRetry
<1>4. \A m \in 1..used : /\ logs'[m].ds = logs[m].ds
                         /\ logs'[m].status = IF m = handler.undoes THEN "rolled_back" ELSE logs[m].status
  BY <1>1, <1>2, StatusKept DEF MarkRolledBack, IInv, AllCleared
<1>5. handler.log \in 1..used /\ logs[handler.log].status # "pending"
  BY <1>1 DEF IInv, Linked, LinkedLog, Works, XInv, Settled
<1>6. \A m \in 1..used : /\ Firm(m) => logs'[m].status \in {"success", "rolled_back"}
                         /\ logs'[m].status = "pending" => logs[m].status = "pending" /\ ~Open(m)
  BY <1>3, <1>4, <1>5 DEF Firm, Open
<1>7. CASE handler.to = NoSnapshot
  BY <1>1, <1>4, <1>6, <1>7, EndX DEF MarkRolledBack
<1>8. CASE handler.to # NoSnapshot
  <2>1. /\ handler'.step = "restore" /\ handler'.log = handler.log /\ handler'.retries = 0 /\ handler' # Idle
    BY <1>1, <1>3, <1>8 DEF MarkRolledBack, Handler, Idle
  <2>2. Settled' /\ RetryNamed'
    BY <1>1, <1>4, <1>5, <2>1 DEF Settled, RetryNamed
  <2>3. \A m \in 1..used : Firm(m) => Firm(m)'
    BY <1>6, <2>1 DEF Firm
  <2>4. FirmlyExplained'
    BY <1>1, <1>4, <1>6, <2>3, ExplainedKept DEF XInv
  <2> QED BY <2>2, <2>4 DEF XInv
<1> QED BY <1>7, <1>8

LEMMA RollbackLogX ==
  ASSUME IInv, XInv, NEW l \in 1..used, RollbackLog(l)
  PROVE  XInv'
<1> DEFINE d == logs[l].ds
<1>1. d \in Datasources /\ l \in 0..MaxLogs /\ used \in Nat
  BY BoundsAssumption DEF IInv, TypeOK, Log
<1>2. handler = Idle /\ logs[l].status = "success" /\ UNCHANGED <<logs, used, crashed>>
  BY DEF RollbackLog
<1>3. handler'.step = "copy" /\ handler'.log = l /\ handler'.retries = 0 /\ handler' # Idle
  <2>1. Base("copy", d).step = "copy" /\ Base("copy", d).retries = 0 /\ Base("copy", d) \in Handler
    BY <1>1, BaseType DEF Base, Steps
  <2>2. handler' = [Base("copy", d) EXCEPT !.log = l]
    BY DEF RollbackLog
  <2> QED BY <1>1, <2>1, <2>2 DEF Handler, Idle
<1>4. Settled' /\ RetryNamed'
  BY <1>2, <1>3 DEF Settled, RetryNamed
<1>5. FirmlyExplained'
  BY <1>2, <1>3 DEF XInv, FirmlyExplained, Firm, Open
<1> QED BY <1>4, <1>5 DEF XInv

LEMMA CopyLogX ==
  ASSUME IInv, XInv, CopyLog
  PROVE  XInv'
<1> DEFINE l == handler.log
           n == used + 1
<1>1. handler # Idle /\ l \in 1..used /\ logs[l].status = "success" /\ used < MaxLogs /\ used \in Nat
      /\ handler.step = "copy" /\ handler.retries = 0
  BY BoundsAssumption
  DEF CopyLog, IInv, TypeOK, Idle, Handler, Linked, LinkedLog, LinkedRetry, LinkedRest, Works
<1>2. n \in LogIds /\ l \in LogIds /\ l # n /\ 1..used \subseteq LogIds /\ n \notin 1..used
  BY <1>1, BoundsAssumption DEF LogIds
<1>3. logs[l] \in Log
  BY <1>1 DEF IInv, TypeOK
<1>4. /\ logs'[n] = logs[l] /\ logs'[l] = [logs[l] EXCEPT !.status = "rolled_back"]
      /\ \A m \in (1..used) \ {l} : logs'[m] = logs[m]
  BY <1>2, <1>3 DEF CopyLog, IInv, TypeOK
<1>5. logs'[l].ds = logs[l].ds /\ logs'[l].status = "rolled_back" /\ logs'[n].status = "success"
  BY <1>1, <1>3, <1>4 DEF Log
<1>6. used' = n /\ handler' = Idle /\ crashed' = crashed
  BY DEF CopyLog
<1>7. Settled' /\ RetryNamed'
  BY <1>6 DEF Settled, RetryNamed
<1>8. \A m \in 1..used : logs'[m].ds = logs[m].ds /\ (Firm(m) => Firm(m)')
  BY <1>4, <1>5, <1>6 DEF Firm
<1>9. ASSUME NEW m \in 1..used', logs'[m].status = "pending"
      PROVE  m \in 1..used /\ logs[m].status = "pending" /\ ~Open(m)
  <2>1. m # n /\ m # l
    BY <1>5, <1>9
  <2>2. m \in 1..used
    BY <1>1, <1>6, <2>1
  <2> QED BY <1>1, <1>4, <1>9, <2>1, <2>2 DEF Open
<1>10. FirmlyExplained'
  BY <1>1, <1>6, <1>8, <1>9, ExplainedKept DEF XInv
<1> QED BY <1>7, <1>10 DEF XInv

LEMMA CrashX ==
  ASSUME XInv, Crash
  PROVE  XInv'
BY DEF Crash, XInv, Settled, RetryNamed, FirmlyExplained

LEMMA InitX == Init => XInv
<1> SUFFICES ASSUME Init PROVE XInv
  OBVIOUS
<1>1. handler = Idle /\ 1..used = {}
  BY DEF Init
<1> QED BY <1>1 DEF XInv, Settled, RetryNamed, FirmlyExplained

LEMMA StepX ==
  ASSUME IInv, XInv, [Next]_vars
  PROVE  XInv'
<1>1. CASE UNCHANGED vars
  BY <1>1, QuietX DEF vars
<1>2. ASSUME NEW d \in Datasources, NEW s \in Sensitive, NEW t, Edit(d, t, s) \/ Generate(d, t, s) PROVE XInv'
  BY <1>2, QuietX DEF Edit, Generate
<1>3. ASSUME NEW d \in Datasources, NEW to, Review(d, to) \/ Archive(d) PROVE XInv'
  BY <1>3, QuietX DEF Review, Archive
<1>4. ASSUME NEW d \in Datasources, NEW seen \in Texts, Publish(d, seen) PROVE XInv'
  BY <1>4, PublishX
<1>5. ASSUME NEW d \in Datasources, NEW v \in versions[d], RestoreLocal(d, v) PROVE XInv'
  BY <1>5, QuietX DEF RestoreLocal
<1>6. ASSUME NEW d \in Datasources, NEW v \in versions[d], RestoreBoth(d, v) PROVE XInv'
  BY <1>6, RestoreBothX
<1>7. ASSUME NEW l \in 1..used, Retry(l) \/ Undo(l) \/ RollbackLog(l) PROVE XInv'
  BY <1>7, RetryX, UndoX, RollbackLogX
<1>8. ASSUME NEW done \in BOOLEAN, NEW ok \in BOOLEAN, Put(done, ok) PROVE XInv'
  BY <1>8, PutX
<1>9. ASSUME NEW seen \in Texts, Attempt(seen) PROVE XInv'
  BY <1>9, AttemptX
<1>10. CASE RecordPublish \/ Flag \/ FlagFails \/ AttemptRefused \/ GiveUp
  BY <1>10, RecordPublishX, FlagX, FlagFailsX, AttemptRefusedX, GiveUpX
<1>11. CASE RecordUndo \/ MarkRolledBack \/ Restore \/ CopyLog \/ Crash
  BY <1>11, RecordUndoX, MarkRolledBackX, RestoreX, CopyLogX, CrashX
<1> QED BY <1>1, <1>2, <1>3, <1>4, <1>5, <1>6, <1>7, <1>8, <1>9, <1>10, <1>11 DEF Next

\* A log that is pending without a request at work on it lost its process, or was
\* retried with success: a later log of its data source was published, flagged
\* included (publish_service.py 292-336).
THEOREM OpenLogsExplained == Spec => []OpenLogsAreExplained
<1>1. FirmlyExplained => OpenLogsAreExplained
  BY DEF FirmlyExplained, OpenLogsAreExplained, Firm
<1>2. Init => XInv
  BY InitX
<1>3. IInv /\ XInv /\ [Next]_vars => XInv'
  BY StepX
<1>4. XInv => FirmlyExplained
  BY DEF XInv
<1> QED BY <1>1, <1>2, <1>3, <1>4, AlwaysInv, PTL DEF Spec
=============================================================================

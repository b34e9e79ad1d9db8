----------------------- MODULE MetricRegistry_proofs ------------------------
(***************************************************************************)
(* For any metrics, users, formulas and number of concurrent requests: the *)
(* review holds on every path into service, and metrics leave service as   *)
(* the handlers mean them to while no two requests that move them overlap. *)
(*                                                                         *)
(* The inductive invariant relates an open request to the row it loaded:   *)
(* what it will flush (Keeps), that an approval it saw is still there      *)
(* (Stale), and that it has seen the latest row unless the metric is       *)
(* already known to be raced (Fresh).                                      *)
(***************************************************************************)
EXTENDS MetricRegistry, TLAPS

\* A row, as it is committed and as it is loaded.
Sound(row) == /\ row.active => row.published
              /\ row.published => row.reviewed = "done"

Signed(m, row) == row.reviewed = "done" => row.reviewer \in Users \ {Creator[m]}

\* What a handler may want of the row it loaded.
Keeps(s, w) == /\ w.reviewed = s.reviewed /\ w.reviewer = s.reviewer
               /\ (w.published /\ ~s.published) => (s.reviewed = "done")
               /\ (w.active /\ ~s.active) => (w.published /\ ~s.published)
               /\ (s.published /\ ~w.published) => (s.active /\ ~w.active)
               /\ (s.published /\ ~s.active) => (w.published /\ ~w.active)
               /\ w.text # s.text => ~Published(w)

\* The columns of a row that decide whether it answers questions, and how.
SamePlace(a, b) == a.active = b.active /\ a.published = b.published /\ a.text = b.text

Stale(r) == r.seen.reviewed = "done" => rows[r.metric].reviewed = "done"
Fresh(r) == r.metric \notin raced /\ r.op # "resolve" => SamePlace(r.seen, rows[r.metric])
Resolves(r) == r.op = "resolve" => SamePlace(r.seen, r.wanted)
Tied(r) == Sound(r.seen) /\ Keeps(r.seen, r.wanted) /\ Stale(r) /\ Fresh(r) /\ Resolves(r)

RowsSound == \A m \in Metrics : Sound(rows[m]) /\ Signed(m, rows[m])
RequestsTied == \A q \in Requests : request[q] # Idle => Tied(request[q])

Unborn == \A m \in Metrics \ created : rows[m] = Blank

IInv == TypeOK /\ ReviewIsKept /\ RowsSound /\ RequestsTied /\ Unborn
-----------------------------------------------------------------------------
LEMMA BlankRow == Blank \in Rows /\ Sound(Blank) /\ \A m : Signed(m, Blank)
  BY DEF Blank, Rows, Reviews, Sound, Signed

LEMMA InitInv == Init => IInv
<1> SUFFICES ASSUME Init PROVE IInv
  OBVIOUS
<1>1. \A m \in Metrics : rows[m] = Blank
  BY DEF Init
<1>2. TypeOK
  <2>1. rows \in [Metrics -> Rows] /\ \A m \in Metrics : rows[m].active => rows[m].published
    BY <1>1, BlankRow DEF Init, Sound
  <2>2. decided \in [Metrics -> [reviewed : Reviews, reviewer : Users \cup {Nobody}]]
    BY DEF Init, Reviews
  <2> QED BY <2>1, <2>2, ChangesAssumption DEF Init, TypeOK
<1>3. ReviewIsKept
  BY <1>1 DEF Init, ReviewIsKept, Blank
<1>4. RowsSound
  BY <1>1, BlankRow DEF RowsSound
<1>5. RequestsTied
  BY DEF Init, RequestsTied
<1>6. Unborn
  BY <1>1 DEF Unborn
<1> QED BY <1>2, <1>3, <1>4, <1>5, <1>6 DEF IInv

\* An open request is a record of Working.
LEMMA OpenIsWorking ==
  ASSUME TypeOK, NEW q \in Requests
  PROVE  /\ request[q] # Idle => request[q] \in Working
         /\ request[q].pc # "idle" => request[q] # Idle
  BY DEF TypeOK, Idle

\* A flush of what a handler wants leaves the review alone and the row sound.
LEMMA FlushKeeps ==
  ASSUME NEW now \in Rows, NEW s \in Rows, NEW w \in Rows,
         Sound(now), Sound(s), Keeps(s, w),
         s.reviewed = "done" => now.reviewed = "done"
  PROVE  /\ Flushed(now, s, w) \in Rows
         /\ Flushed(now, s, w).reviewed = now.reviewed
         /\ Flushed(now, s, w).reviewer = now.reviewer
         /\ Sound(Flushed(now, s, w))
<1> DEFINE f == Flushed(now, s, w)
<1>1. f \in Rows
  BY DEF Flushed, Rows
<1>2. f.reviewed = now.reviewed /\ f.reviewer = now.reviewer
  BY DEF Flushed, Keeps
<1>3. /\ f.active = IF w.active = s.active THEN now.active ELSE w.active
      /\ f.published = IF w.published = s.published THEN now.published ELSE w.published
  BY DEF Flushed
<1>4. f.active => f.published
  BY <1>3 DEF Rows, Sound, Keeps
<1>5. f.published => f.reviewed = "done"
  BY <1>2, <1>3 DEF Rows, Sound, Keeps
<1> QED BY <1>1, <1>2, <1>4, <1>5 DEF Sound

\* Where the loaded row was still current, the flushed row is as wanted.
LEMMA FlushFresh ==
  ASSUME NEW now \in Rows, NEW s \in Rows, NEW w \in Rows, SamePlace(s, now)
  PROVE  SamePlace(Flushed(now, s, w), w)
  BY DEF SamePlace, Flushed, Rows

LEMMA FlushResolved ==
  ASSUME NEW now \in Rows, NEW s \in Rows, NEW w \in Rows, SamePlace(s, w)
  PROVE  SamePlace(Flushed(now, s, w), now)
  BY DEF SamePlace, Flushed, Rows
-----------------------------------------------------------------------------
\* What each handler wants of a sound row.
LEMMA OfflineKeeps ==
  ASSUME NEW s \in Rows, Sound(s), NEW w \in Rows,
         w.active = s.active, w.published = s.published,
         w.reviewed = s.reviewed, w.reviewer = s.reviewer
  PROVE  TakenOffline(w) \in Rows /\ Keeps(s, TakenOffline(w))
<1>1. CASE Published(w)
  <2>1. TakenOffline(w) = [w EXCEPT !.active = FALSE, !.published = FALSE]
    BY <1>1 DEF TakenOffline
  <2> QED BY <1>1, <2>1 DEF Rows, Keeps, Published
<1>2. CASE ~Published(w)
  BY <1>2 DEF TakenOffline, Keeps, Published, Sound, Rows
<1> QED BY <1>1, <1>2

LEMMA RelatedRow ==
  ASSUME NEW s \in Rows, NEW x \in Texts, NEW D \in SUBSET Metrics
  PROVE  /\ Reworded(s, x) \in Rows /\ Related(s, x, D) \in Rows
         /\ Reworded(s, x).active = s.active /\ Reworded(s, x).published = s.published
         /\ Reworded(s, x).reviewed = s.reviewed /\ Reworded(s, x).reviewer = s.reviewer
         /\ Related(s, x, D).active = s.active /\ Related(s, x, D).published = s.published
         /\ Related(s, x, D).reviewed = s.reviewed /\ Related(s, x, D).reviewer = s.reviewer
  BY DEF Reworded, Related, Rows

LEMMA NewKeeps ==
  ASSUME NEW x \in Texts, NEW D \in SUBSET Metrics
  PROVE  New(x, D) \in Rows /\ \A s \in Rows : s = Blank => Keeps(s, New(x, D))
  BY BlankRow DEF New, Blank, Rows, Keeps, Published
-----------------------------------------------------------------------------
LEMMA LoadStep ==
  ASSUME IInv, NEW q \in Requests, NEW op \in Ops, NEW m \in Metrics,
         NEW w \in Rows, NEW D \in SUBSET Metrics,
         Keeps(rows[m], w), op = "resolve" => SamePlace(rows[m], w),
         Load(q, op, m, w, D), changes' \in 0..MaxChanges
  PROVE  IInv'
<1> DEFINE r == [pc |-> "open", op |-> op, metric |-> m, seen |-> rows[m],
                 wanted |-> w, on |-> D]
<1>1. rows[m] \in Rows /\ Sound(rows[m])
  BY DEF IInv, TypeOK, RowsSound
<1>2. r \in Working
  BY <1>1 DEF Working
<1>3. request' = [request EXCEPT ![q] = r]
  BY DEF Load
<1>4. UNCHANGED <<rows, created, deps, lock, history>>
  BY DEF Load
<1>5. TypeOK'
  BY <1>2, <1>3, <1>4 DEF IInv, TypeOK, history
<1>6. ReviewIsKept' /\ RowsSound' /\ Unborn'
  BY <1>4 DEF IInv, ReviewIsKept, RowsSound, Signed, Unborn, history
<1>7. ASSUME NEW p \in Requests, request'[p] # Idle PROVE Tied(request[p])'
  <2>1. CASE p = q
    <3>1. request'[p] = r
      BY <1>3, <2>1 DEF IInv, TypeOK
    <3> QED BY <3>1, <1>1, <1>4 DEF Tied, Stale, Fresh, Resolves, SamePlace, history
  <2>2. CASE p # q
    <3>1. request'[p] = request[p]
      BY <1>3, <2>2
    <3> QED BY <3>1, <1>4, <1>7 DEF IInv, RequestsTied, Tied, Stale, Fresh, Resolves, history
  <2> QED BY <2>1, <2>2
<1> QED BY <1>5, <1>6, <1>7 DEF IInv, RequestsTied

LEMMA CreateStep ==
  ASSUME IInv, NEW q \in Requests, NEW m \in Metrics, NEW x \in Texts,
         NEW D \in SUBSET Metrics, Create(q, m, x, D)
  PROVE  IInv'
<1>1. rows[m] = Blank
  BY DEF Create, IInv, Unborn
<1>2. changes' \in 0..MaxChanges
  BY DEF Create, IInv, TypeOK
<1>3. rows[m] \in Rows
  BY DEF IInv, TypeOK
<1> QED BY <1>1, <1>2, <1>3, NewKeeps, LoadStep DEF Create, Ops

LEMMA CountedType ==
  ASSUME TypeOK, Counted
  PROVE  changes' \in 0..MaxChanges
  BY ChangesAssumption DEF TypeOK, Counted

LEMMA EditStep ==
  ASSUME IInv, NEW q \in Requests, NEW m \in Metrics, NEW x \in Texts, Edit(q, m, x)
  PROVE  IInv'
<1>1. rows[m] \in Rows /\ Sound(rows[m])
  BY DEF IInv, TypeOK, RowsSound
<1>2. TakenOffline(Reworded(rows[m], x)) \in Rows
      /\ Keeps(rows[m], TakenOffline(Reworded(rows[m], x)))
  BY <1>1, RelatedRow, OfflineKeeps
<1> QED BY <1>2, CountedType, LoadStep DEF Edit, Ops, IInv

LEMMA RelateStep ==
  ASSUME IInv, NEW q \in Requests, NEW m \in Metrics, NEW x \in Texts,
         NEW D \in SUBSET Metrics, Relate(q, m, x, D)
  PROVE  IInv'
<1>1. rows[m] \in Rows /\ Sound(rows[m])
  BY DEF IInv, TypeOK, RowsSound
<1>2. TakenOffline(Related(rows[m], x, D)) \in Rows
      /\ Keeps(rows[m], TakenOffline(Related(rows[m], x, D)))
  BY <1>1, RelatedRow, OfflineKeeps
<1> QED BY <1>2, CountedType, LoadStep DEF Relate, Ops, IInv

LEMMA ArchiveStep ==
  ASSUME IInv, NEW q \in Requests, NEW m \in Metrics, Archive(q, m)
  PROVE  IInv'
<1> DEFINE w == [rows[m] EXCEPT !.active = FALSE]
<1>1. rows[m] \in Rows /\ Sound(rows[m])
  BY DEF IInv, TypeOK, RowsSound
<1>2. w \in Rows
  BY <1>1 DEF Rows
<1>3. Keeps(rows[m], w)
  BY <1>1 DEF Keeps, Rows, Published
<1>4. Load(q, "archive", m, w, {}) /\ Counted
  BY DEF Archive
<1> HIDE DEF w
<1> QED BY <1>2, <1>3, <1>4, CountedType, LoadStep DEF Ops, IInv

LEMMA PublishStep ==
  ASSUME IInv, NEW q \in Requests, NEW m \in Metrics, Publish(q, m)
  PROVE  IInv'
<1> DEFINE w == [rows[m] EXCEPT !.active = TRUE, !.published = TRUE]
<1>1. rows[m] \in Rows /\ Sound(rows[m])
  BY DEF IInv, TypeOK, RowsSound
<1>2. w \in Rows
  BY <1>1 DEF Rows
<1>3. Keeps(rows[m], w)
  BY <1>1 DEF Publish, Approved, Keeps, Rows, Published
<1>4. Load(q, "publish", m, w, {}) /\ changes' \in 0..MaxChanges
  BY DEF Publish, IInv, TypeOK
<1> HIDE DEF w
<1> QED BY <1>2, <1>3, <1>4, LoadStep DEF Ops

LEMMA ResolveStep ==
  ASSUME IInv, NEW q \in Requests, NEW m \in Metrics, NEW known \in BOOLEAN,
         Resolve(q, m, known)
  PROVE  IInv'
<1> DEFINE w == [rows[m] EXCEPT !.lineage = known]
<1>1. rows[m] \in Rows /\ Sound(rows[m])
  BY DEF IInv, TypeOK, RowsSound
<1>2. w \in Rows
  BY <1>1 DEF Rows
<1>3. Keeps(rows[m], w) /\ SamePlace(rows[m], w)
  BY <1>1 DEF Keeps, Rows, Published, SamePlace
<1>4. Load(q, "resolve", m, w, {}) /\ changes' \in 0..MaxChanges
  BY DEF Resolve, IInv, TypeOK
<1> HIDE DEF w
<1> QED BY <1>2, <1>3, <1>4, LoadStep DEF Ops
-----------------------------------------------------------------------------
LEMMA ValidateStep ==
  ASSUME IInv, NEW q \in Requests, Validate(q)
  PROVE  IInv'
<1>1. request[q] # Idle /\ request[q] \in Working
  BY OpenIsWorking DEF IInv, Validate
<1>2. request' = [request EXCEPT ![q].pc = "valid"]
      /\ UNCHANGED <<rows, created, deps, lock, history, changes>>
  BY DEF Validate
<1>3. [request[q] EXCEPT !.pc = "valid"] \in Working
  BY <1>1 DEF Working
<1>4. TypeOK'
  BY <1>2, <1>3 DEF IInv, TypeOK, history
<1>5. ReviewIsKept' /\ RowsSound' /\ Unborn'
  BY <1>2 DEF IInv, ReviewIsKept, RowsSound, Signed, Unborn, history
<1>6. ASSUME NEW p \in Requests, request'[p] # Idle PROVE Tied(request[p])'
  <2>1. /\ request[p] # Idle
        /\ request'[p].op = request[p].op /\ request'[p].metric = request[p].metric
        /\ request'[p].seen = request[p].seen /\ request'[p].wanted = request[p].wanted
    BY <1>1, <1>2, <1>6 DEF IInv, TypeOK, Working
  <2> QED BY <2>1, <1>2 DEF IInv, RequestsTied, Tied, Stale, Fresh, Resolves, history
<1> QED BY <1>4, <1>5, <1>6 DEF IInv, RequestsTied

LEMMA FlushStep ==
  ASSUME IInv, NEW q \in Requests, Flush(q)
  PROVE  IInv'
<1>1. request[q] # Idle /\ request[q] \in Working
  BY OpenIsWorking DEF IInv, Flush
<1>2. /\ request' = [request EXCEPT ![q].pc = "flushed"]
      /\ lock' = [lock EXCEPT ![request[q].metric] = q]
      /\ UNCHANGED <<rows, created, deps, history, changes>>
  BY DEF Flush
<1>3. [request[q] EXCEPT !.pc = "flushed"] \in Working
  BY <1>1 DEF Working
<1>4. TypeOK'
  BY <1>2, <1>3 DEF IInv, TypeOK, history
<1>5. ReviewIsKept' /\ RowsSound' /\ Unborn'
  BY <1>2 DEF IInv, ReviewIsKept, RowsSound, Signed, Unborn, history
<1>6. ASSUME NEW p \in Requests, request'[p] # Idle PROVE Tied(request[p])'
  <2>1. /\ request[p] # Idle
        /\ request'[p].op = request[p].op /\ request'[p].metric = request[p].metric
        /\ request'[p].seen = request[p].seen /\ request'[p].wanted = request[p].wanted
    BY <1>1, <1>2, <1>6 DEF IInv, TypeOK, Working
  <2> QED BY <2>1, <1>2 DEF IInv, RequestsTied, Tied, Stale, Fresh, Resolves, history
<1> QED BY <1>4, <1>5, <1>6 DEF IInv, RequestsTied

LEMMA FailStep ==
  ASSUME IInv, NEW q \in Requests, Fail(q)
  PROVE  IInv'
<1>1. /\ request' = [request EXCEPT ![q] = Idle]
      /\ lock' = [m \in Metrics |-> IF lock[m] = q THEN None ELSE lock[m]]
      /\ UNCHANGED <<rows, created, deps, history, changes>>
  BY DEF Fail
<1>2. TypeOK'
  BY <1>1 DEF IInv, TypeOK, history
<1>3. ReviewIsKept' /\ RowsSound' /\ Unborn'
  BY <1>1 DEF IInv, ReviewIsKept, RowsSound, Signed, Unborn, history
<1>4. ASSUME NEW p \in Requests, request'[p] # Idle PROVE Tied(request[p])'
  <2>1. request[p] # Idle /\ request'[p] = request[p]
    BY <1>1, <1>4 DEF IInv, TypeOK
  <2> QED BY <2>1, <1>1 DEF IInv, RequestsTied, Tied, Stale, Fresh, Resolves, history
<1> QED BY <1>2, <1>3, <1>4 DEF IInv, RequestsTied
-----------------------------------------------------------------------------
\* What the commit of a request does to the row it is about.
LEMMA CommitRow ==
  ASSUME IInv, NEW q \in Requests, Commit(q)
  PROVE  LET r == request[q]
             new == Flushed(rows[r.metric], r.seen, r.wanted)
         IN  /\ r \in Working /\ r # Idle /\ Tied(r)
             /\ rows[r.metric] \in Rows
             /\ rows' = [rows EXCEPT ![r.metric] = new]
             /\ new \in Rows /\ Sound(new)
             /\ new.reviewed = rows[r.metric].reviewed
             /\ new.reviewer = rows[r.metric].reviewer
<1> DEFINE r == request[q]
<1>1. r # Idle /\ r \in Working
  BY OpenIsWorking DEF IInv, Commit, Ready
<1>2. Tied(r)
  BY <1>1 DEF IInv, RequestsTied
<1>3. rows[r.metric] \in Rows /\ Sound(rows[r.metric])
  BY <1>1 DEF IInv, TypeOK, RowsSound, Working
<1>4. rows' = [rows EXCEPT ![r.metric] = Flushed(rows[r.metric], r.seen, r.wanted)]
  BY DEF Commit
<1>5. r.seen \in Rows /\ r.wanted \in Rows
  BY <1>1 DEF Working
<1>6. r.seen.reviewed = "done" => rows[r.metric].reviewed = "done"
  BY <1>2 DEF Tied, Stale
<1>7. Sound(r.seen) /\ Keeps(r.seen, r.wanted)
  BY <1>2 DEF Tied
<1> HIDE DEF r
<1>8. /\ Flushed(rows[r.metric], r.seen, r.wanted) \in Rows
      /\ Flushed(rows[r.metric], r.seen, r.wanted).reviewed = rows[r.metric].reviewed
      /\ Flushed(rows[r.metric], r.seen, r.wanted).reviewer = rows[r.metric].reviewer
      /\ Sound(Flushed(rows[r.metric], r.seen, r.wanted))
  BY <1>3, <1>5, <1>6, <1>7, FlushKeeps
<1> QED BY <1>1, <1>2, <1>3, <1>4, <1>8 DEF r

\* Where the metric is not raced, its place is the one the request wanted, or
\* the request moved nothing.
LEMMA CommitPlace ==
  ASSUME IInv, NEW q \in Requests, Commit(q)
  PROVE  LET r == request[q]
         IN  /\ r.op = "resolve" => SamePlace(rows'[r.metric], rows[r.metric])
             /\ r.op # "resolve" /\ r.metric \notin raced' =>
                  SamePlace(rows'[r.metric], r.wanted) /\ SamePlace(r.seen, rows[r.metric])
<1> DEFINE r == request[q]
<1>1. /\ r \in Working /\ Tied(r) /\ rows[r.metric] \in Rows
      /\ rows' = [rows EXCEPT ![r.metric] = Flushed(rows[r.metric], r.seen, r.wanted)]
  BY CommitRow
<1>2. r.metric \in Metrics /\ r.seen \in Rows /\ r.wanted \in Rows
  BY <1>1 DEF Working
<1>3. rows'[r.metric] = Flushed(rows[r.metric], r.seen, r.wanted)
  BY <1>1, <1>2 DEF IInv, TypeOK
<1>4. raced \subseteq raced'
  BY DEF Commit
<1>5. r.op = "resolve" => SamePlace(r.seen, r.wanted)
  BY <1>1 DEF Tied, Resolves
<1>6. r.op # "resolve" /\ r.metric \notin raced' => SamePlace(r.seen, rows[r.metric])
  BY <1>1, <1>4 DEF Tied, Fresh
<1> HIDE DEF r
<1>7. r.op = "resolve" => SamePlace(rows'[r.metric], rows[r.metric])
  BY <1>1, <1>2, <1>3, <1>5, FlushResolved
<1>8. r.op # "resolve" /\ r.metric \notin raced' =>
        SamePlace(rows'[r.metric], r.wanted) /\ SamePlace(r.seen, rows[r.metric])
  BY <1>1, <1>2, <1>3, <1>6, FlushFresh
<1> QED BY <1>7, <1>8 DEF r

LEMMA CommitStep ==
  ASSUME IInv, NEW q \in Requests, Commit(q)
  PROVE  IInv'
<1> DEFINE r == request[q]
           m == r.metric
           new == Flushed(rows[m], r.seen, r.wanted)
<1>1. /\ r \in Working /\ r # Idle /\ Tied(r) /\ rows[m] \in Rows
      /\ rows' = [rows EXCEPT ![m] = new] /\ new \in Rows /\ Sound(new)
      /\ new.reviewed = rows[m].reviewed /\ new.reviewer = rows[m].reviewer
  BY CommitRow
<1>2. m \in Metrics /\ r.on \in SUBSET Metrics
  BY <1>1 DEF Working
<1>3. /\ created' = created \cup {m}
      /\ deps' = IF r.op \in {"create", "relate"} THEN [deps EXCEPT ![m] = r.on] ELSE deps
      /\ lock' = [lock EXCEPT ![m] = None]
      /\ request' = [request EXCEPT ![q] = Idle]
      /\ raced' = IF \E p \in Open \ {q} : Rivals(request[p], r) THEN raced \cup {m} ELSE raced
      /\ UNCHANGED <<decided, changes>>
  BY DEF Commit
<1>4. r.op = "resolve" => SamePlace(rows'[m], rows[m])
  BY CommitPlace
<1> HIDE DEF new
<1>5. \A k \in Metrics : /\ rows'[k] \in Rows /\ Sound(rows'[k])
                         /\ rows'[k].reviewed = rows[k].reviewed
                         /\ rows'[k].reviewer = rows[k].reviewer
                         /\ k # m => rows'[k] = rows[k]
  BY <1>1, <1>2 DEF IInv, TypeOK, RowsSound
<1>6. TypeOK'
  <2>1. rows' \in [Metrics -> Rows]
    BY <1>1, <1>2 DEF IInv, TypeOK
  <2>2. \A k \in Metrics : rows'[k].active => rows'[k].published
    BY <1>5 DEF Sound
  <2>3. created' \subseteq Metrics /\ raced' \subseteq Metrics
    BY <1>2, <1>3 DEF IInv, TypeOK
  <2>4. deps' \in [Metrics -> SUBSET Metrics]
    BY <1>2, <1>3 DEF IInv, TypeOK
  <2>5. lock' \in [Metrics -> Requests \cup {None}]
    BY <1>2, <1>3 DEF IInv, TypeOK
  <2>6. request' \in [Requests -> Working \cup {Idle}]
    BY <1>3 DEF IInv, TypeOK
  <2> QED BY <2>1, <2>2, <2>3, <2>4, <2>5, <2>6, <1>3 DEF IInv, TypeOK
<1>7. ReviewIsKept'
  BY <1>3, <1>5 DEF IInv, ReviewIsKept
<1>8. RowsSound'
  BY <1>5 DEF IInv, RowsSound, Signed
<1>9. Unborn'
  BY <1>3, <1>5 DEF IInv, Unborn
<1>10. ASSUME NEW p \in Requests, request'[p] # Idle PROVE Tied(request[p])'
  <2>1. p # q /\ request'[p] = request[p] /\ request[p] # Idle
    BY <1>3, <1>10 DEF IInv, TypeOK
  <2>2. request[p] \in Working /\ Tied(request[p])
    BY <2>1, OpenIsWorking DEF IInv, RequestsTied
  <2>3. request[p].metric \in Metrics
    BY <2>2 DEF Working
  <2>4. Stale(request[p])'
    BY <2>1, <2>2, <2>3, <1>5 DEF Tied, Stale
  <2>5. Fresh(request[p])'
    <3> SUFFICES ASSUME request[p].metric \notin raced', request[p].op # "resolve"
                 PROVE  SamePlace(request[p].seen, rows'[request[p].metric])
      BY <2>1 DEF Fresh
    <3>1. SamePlace(request[p].seen, rows[request[p].metric])
      BY <2>2, <1>3 DEF Tied, Fresh
    <3>2. CASE request[p].metric # m
      BY <3>1, <3>2, <2>3, <1>5
    <3>3. CASE request[p].metric = m
      <4>1. p \in Open \ {q}
        BY <2>1 DEF Open
      <4>2. ~Rivals(request[p], r)
        BY <4>1, <1>3, <3>3
      <4>3. r.op = "resolve"
        BY <4>2, <3>3 DEF Rivals
      <4> QED BY <4>3, <1>4, <3>1, <3>3 DEF SamePlace
    <3> QED BY <3>2, <3>3
  <2> QED BY <2>1, <2>2, <2>4, <2>5 DEF Tied, Resolves
<1> QED BY <1>6, <1>7, <1>8, <1>9, <1>10 DEF IInv, RequestsTied
-----------------------------------------------------------------------------
LEMMA DecideStep ==
  ASSUME IInv, NEW m \in Metrics, NEW v \in Reviews, NEW u \in Users \cup {Nobody},
         m \in created, rows[m].reviewed # "done",
         v = "done" => u \in Users \ {Creator[m]},
         Decide(m, v, u)
  PROVE  IInv'
<1> DEFINE new == [rows[m] EXCEPT !.reviewed = v, !.reviewer = u]
<1>1. rows[m] \in Rows /\ Sound(rows[m])
  BY DEF IInv, TypeOK, RowsSound
<1>2. /\ rows' = [rows EXCEPT ![m] = new]
      /\ decided' = [decided EXCEPT ![m] = [reviewed |-> v, reviewer |-> u]]
      /\ UNCHANGED <<created, deps, lock, request, raced, changes>>
  BY DEF Decide
<1>3. /\ new \in Rows /\ new.reviewed = v /\ new.reviewer = u /\ SamePlace(new, rows[m])
      /\ Sound(new) /\ Signed(m, new)
  BY <1>1 DEF Rows, SamePlace, Sound, Signed
<1> HIDE DEF new
<1>4. \A k \in Metrics : /\ rows'[k] \in Rows /\ Sound(rows'[k]) /\ Signed(k, rows'[k])
                         /\ SamePlace(rows'[k], rows[k])
                         /\ rows[k].reviewed = "done" => rows'[k].reviewed = "done"
                         /\ k # m => rows'[k] = rows[k]
  BY <1>2, <1>3 DEF IInv, TypeOK, RowsSound, SamePlace
<1>5. TypeOK'
  <2>1. rows' \in [Metrics -> Rows] /\ \A k \in Metrics : rows'[k].active => rows'[k].published
    BY <1>2, <1>3, <1>4 DEF IInv, TypeOK, Sound
  <2>2. decided' \in [Metrics -> [reviewed : Reviews, reviewer : Users \cup {Nobody}]]
    BY <1>2 DEF IInv, TypeOK
  <2> QED BY <2>1, <2>2, <1>2 DEF IInv, TypeOK
<1>6. ReviewIsKept'
  BY <1>2, <1>3 DEF IInv, TypeOK, ReviewIsKept
<1>7. RowsSound' /\ Unborn'
  BY <1>2, <1>4 DEF IInv, RowsSound, Unborn
<1>8. ASSUME NEW p \in Requests, request'[p] # Idle PROVE Tied(request[p])'
  <2>1. request'[p] = request[p] /\ request[p] \in Working /\ Tied(request[p])
    BY <1>2, <1>8, OpenIsWorking DEF IInv, RequestsTied
  <2>2. request[p].metric \in Metrics
    BY <2>1 DEF Working
  <2> QED BY <2>1, <2>2, <1>2, <1>4 DEF Tied, Stale, Fresh, Resolves, SamePlace
<1> QED BY <1>5, <1>6, <1>7, <1>8 DEF IInv, RequestsTied

LEMMA ReviewStep ==
  ASSUME IInv, NEW m \in Metrics,
         SubmitReview(m) \/ Reject(m) \/ \E u \in Users : Approve(m, u)
  PROVE  IInv'
<1>1. rows[m] \in Rows
  BY DEF IInv, TypeOK
<1>2. CASE SubmitReview(m)
  <2>1. rows[m].reviewer \in Users \cup {Nobody}
    BY <1>1 DEF Rows
  <2> QED BY <1>2, <2>1, DecideStep DEF SubmitReview, Draft, Reviews
<1>3. CASE Reject(m)
  BY <1>3, DecideStep DEF Reject, Pending, Reviews
<1>4. ASSUME NEW u \in Users, Approve(m, u) PROVE IInv'
  <2>1. u \in Users \ {Creator[m]}
    BY <1>4 DEF Approve, MayReview
  <2> QED BY <1>4, <2>1, DecideStep DEF Approve, Pending, Reviews
<1> QED BY <1>2, <1>3, <1>4

LEMMA NextInv == IInv /\ [Next]_vars => IInv'
<1> SUFFICES ASSUME IInv, [Next]_vars PROVE IInv'
  OBVIOUS
<1>1. CASE UNCHANGED vars
  BY <1>1 DEF vars, IInv, TypeOK, ReviewIsKept, RowsSound, Signed, RequestsTied, Tied,
              Stale, Fresh, Resolves, Unborn
<1>2. ASSUME NEW q \in Requests, NEW m \in Metrics,
             \/ \E x \in Texts, D \in SUBSET Metrics : Create(q, m, x, D)
             \/ \E x \in Texts : Edit(q, m, x)
             \/ \E x \in Texts, D \in SUBSET Metrics : Relate(q, m, x, D)
             \/ Archive(q, m) \/ Publish(q, m)
             \/ \E known \in BOOLEAN : Resolve(q, m, known)
      PROVE  IInv'
  BY <1>2, CreateStep, EditStep, RelateStep, ArchiveStep, PublishStep, ResolveStep
<1>3. ASSUME NEW q \in Requests, Validate(q) \/ Flush(q) \/ Commit(q) \/ Fail(q) PROVE IInv'
  BY <1>3, ValidateStep, FlushStep, CommitStep, FailStep
<1>4. ASSUME NEW m \in Metrics,
             SubmitReview(m) \/ Reject(m) \/ \E u \in Users : Approve(m, u)
      PROVE  IInv'
  BY <1>4, ReviewStep
<1> QED BY <1>1, <1>2, <1>3, <1>4 DEF Next

LEMMA Invariance == Spec => []IInv
  BY InitInv, NextInv, PTL DEF Spec
-----------------------------------------------------------------------------
\* Rows, transactions and locks keep their types, and is_active is never set
\* without published_at (registry.py).
THEOREM TypeCorrect == Spec => []TypeOK
<1>1. IInv => TypeOK
  BY DEF IInv
<1> QED BY <1>1, Invariance, PTL

\* No flush of a request that loaded the row earlier takes a review decision
\* back (update_metric, archive_metric, publish_metric, resolve_lineage).
THEOREM ReviewKept == Spec => []ReviewIsKept
<1>1. IInv => ReviewIsKept
  BY DEF IInv
<1> QED BY <1>1, Invariance, PTL

\* A metric in service was approved by somebody else than its creator.
THEOREM LiveReviewed == Spec => []LiveWasReviewed
<1>1. IInv => LiveWasReviewed
  BY DEF IInv, RowsSound, Sound, Signed, LiveWasReviewed, Published
<1> QED BY <1>1, Invariance, PTL

\* What a step can do to the place of a metric whose movers did not overlap.
LEMMA Places ==
  ASSUME IInv, [Next]_vars, NEW m \in Metrics, m \notin raced'
  PROVE  \/ SamePlace(rows'[m], rows[m])
         \/ \E s \in Rows, w \in Rows : /\ Sound(s) /\ Keeps(s, w)
                                        /\ SamePlace(s, rows[m]) /\ SamePlace(rows'[m], w)
<1>1. rows[m] \in Rows
  BY DEF IInv, TypeOK
<1>2. ASSUME NEW q \in Requests, Commit(q)
      PROVE  \/ SamePlace(rows'[m], rows[m])
             \/ \E s \in Rows, w \in Rows : /\ Sound(s) /\ Keeps(s, w)
                                            /\ SamePlace(s, rows[m]) /\ SamePlace(rows'[m], w)
  <2>1. request[q] \in Working /\ Tied(request[q])
    BY <1>2, CommitRow
  <2>2. request[q].seen \in Rows /\ request[q].wanted \in Rows
    BY <2>1 DEF Working
  <2>3. CASE m = request[q].metric
    BY <1>2, <2>1, <2>2, <2>3, CommitPlace DEF Tied
  <2>4. CASE m # request[q].metric
    BY <1>2, <2>4 DEF Commit, SamePlace
  <2> QED BY <2>3, <2>4
<1>3. ASSUME NEW k \in Metrics, NEW v, NEW u, Decide(k, v, u)
      PROVE  SamePlace(rows'[m], rows[m])
  BY <1>1, <1>3 DEF Decide, SamePlace, IInv, TypeOK, Rows
<1>4. UNCHANGED rows => SamePlace(rows'[m], rows[m])
  BY DEF SamePlace
<1>5. CASE UNCHANGED vars
  BY <1>4, <1>5 DEF vars
<1>6. CASE Next
  BY <1>2, <1>3, <1>4, <1>6 DEF Next, Create, Edit, Relate, Archive, Publish, Resolve, Load,
        Validate, Flush, Fail, SubmitReview, Reject, Approve
<1> QED BY <1>5, <1>6

\* While requests that move it do not overlap, a metric with a new formula is
\* out of service (update_metric).
THEOREM NewFormulaOffline == Spec => NewFormulaIsOffline
<1>1. ASSUME IInv, [Next]_vars, NEW m \in Metrics \ raced', rows'[m].text # rows[m].text
      PROVE  ~Published(rows'[m])
  BY <1>1, Places DEF SamePlace, Keeps, Published
<1>2. IInv /\ [Next]_vars =>
        [\A m \in Metrics \ raced' :
            rows'[m].text # rows[m].text => ~Published(rows'[m])]_vars
  BY <1>1
<1> QED BY <1>2, Invariance, PTL DEF Spec, NewFormulaIsOffline

\* While requests that move it do not overlap, a metric that was taken down
\* stays down (archive_metric, _get_metric_status).
THEOREM ArchiveFinal == Spec => ArchivedIsFinal
<1>1. ASSUME IInv, IInv', [Next]_vars, NEW m \in Metrics \ raced', Archived(rows[m])
      PROVE  Archived(rows'[m])
  <2>1. /\ rows[m].published /\ ~rows[m].active
        /\ rows'[m].published => rows'[m].reviewed = "done"
    BY <1>1 DEF Archived, IInv, RowsSound, Sound
  <2>2. rows'[m].published /\ ~rows'[m].active
    BY <1>1, <2>1, Places DEF SamePlace, Keeps
  <2> QED BY <2>1, <2>2 DEF Archived
<1>2. IInv /\ IInv' /\ [Next]_vars =>
        [\A m \in Metrics \ raced' : Archived(rows[m]) => Archived(rows'[m])]_vars
  BY <1>1
<1> QED BY <1>2, Invariance, PTL DEF Spec, ArchivedIsFinal

\* What a review decided stays, and nothing is in service without it.
THEOREM ReviewsHold == Spec => []ReviewHolds
<1>1. ReviewIsKept /\ LiveWasReviewed => ReviewHolds
  BY DEF ReviewHolds
<1> QED BY <1>1, ReviewKept, LiveReviewed, PTL

\* An edit or a take-down of a metric that no other mover overlapped takes effect.
THEOREM ChangesHold == Spec => ChangesTakeEffect
BY NewFormulaOffline, ArchiveFinal DEF ChangesTakeEffect


-----------------------------------------------------------------------------
(* The graph of dependencies.                                              *)

\* Its dependencies have been found published.
Named(r) == r.op = "create" \/ (r.op = "relate" /\ r.pc # "open")

\* What is depended on exists; a creation is the first to be heard of its metric.
Founded ==
    /\ \A m \in Metrics : deps[m] \subseteq created /\ (m \notin created => deps[m] = {})
    /\ \A q \in Open : /\ request[q].op = "create" => request[q].metric \notin created
                       /\ request[q].op # "create" => request[q].metric \in created
                       /\ Named(request[q]) => request[q].on \subseteq created
    /\ \A p, q \in Open : request[p].op = "create" /\ request[p].metric = request[q].metric => p = q

\* A set that holds D, not m, and what its members depend on, unless they raced.
Apart(D, m, W) == /\ D \subseteq W /\ m \notin W
                  /\ \A w \in W \ raced : deps[w] \subseteq W

\* Edits that have searched: what else is committed meanwhile brings them a cycle only
\* through a metric that raced.
Searched ==
    \A q \in Open : request[q].op = "relate" /\ request[q].pc = "flushed" =>
        \E W \in SUBSET created : Apart(request[q].on, request[q].metric, W)

GraphInv == Founded /\ Searched /\ CyclesNeedARace

LEMMA PublishedExist ==
  ASSUME IInv, NEW D \in SUBSET Metrics, AllPublished(D)
  PROVE  D \subseteq created
<1>1. \A m \in Metrics \ created : ~Published(rows[m])
  <2> SUFFICES ASSUME NEW m \in Metrics \ created PROVE ~Published(rows[m])
    OBVIOUS
  <2>1. rows[m] = Blank
    BY DEF IInv, Unborn
  <2> QED BY <2>1 DEF Blank, Published
<1> QED BY <1>1 DEF AllPublished

\* As long as the graph and what raced stay, so do the searches.
LEMMA GraphStays ==
  ASSUME GraphInv, UNCHANGED <<created, deps, raced>>, Founded',
         \A q \in Open' : request'[q].op = "relate" /\ request'[q].pc = "flushed" =>
             \/ q \in Open /\ request'[q] = request[q]
             \/ \E W \in SUBSET created : Apart(request'[q].on, request'[q].metric, W)
  PROVE  GraphInv'
<1>1. CyclesNeedARace'
  BY DEF GraphInv, CyclesNeedARace
<1>2. \A D, m, W : Apart(D, m, W) => Apart(D, m, W)'
  BY DEF Apart
<1>3. Searched'
  BY <1>2 DEF GraphInv, Searched
<1> QED BY <1>1, <1>3 DEF GraphInv

LEMMA LoadGraph ==
  ASSUME TypeOK, GraphInv, NEW q \in Requests, NEW op \in Ops, NEW m \in Metrics, NEW w,
         NEW D \in SUBSET Metrics, Load(q, op, m, w, D),
         op = "create" => m \notin created /\ D \subseteq created /\ \A p \in Open : request[p].metric # m,
         op # "create" => m \in created
  PROVE  GraphInv'
<1> DEFINE r == [pc |-> "open", op |-> op, metric |-> m, seen |-> rows[m], wanted |-> w, on |-> D]
<1>1. /\ request' = [request EXCEPT ![q] = r] /\ request[q] = Idle
      /\ UNCHANGED <<created, deps, raced>>
  BY DEF Load, history
<1>2. r.pc = "open" /\ r.op = op /\ r.metric = m /\ r.on = D
  OBVIOUS
<1> HIDE DEF r
<1>3. request'[q] = r /\ \A p \in Requests \ {q} : request'[p] = request[p]
  BY <1>1 DEF TypeOK
<1>4. \A p \in Open' : p = q \/ (p \in Open /\ request'[p] = request[p])
  BY <1>3 DEF Open
<1>5. Founded'
  <2>1. \A k \in Metrics : deps'[k] \subseteq created' /\ (k \notin created' => deps'[k] = {})
    BY <1>1 DEF GraphInv, Founded
  <2>2. \A p \in Open' :
          /\ request'[p].op = "create" => request'[p].metric \notin created'
          /\ request'[p].op # "create" => request'[p].metric \in created'
          /\ Named(request'[p]) => request'[p].on \subseteq created'
    BY <1>1, <1>2, <1>3, <1>4 DEF GraphInv, Founded, Named
  <2>3. ASSUME NEW p \in Open', NEW s \in Open', request'[p].op = "create", request'[p].metric = request'[s].metric
        PROVE  p = s
    <3>1. CASE p = q
      BY <1>2, <1>3, <1>4, <2>3, <3>1
    <3>2. CASE p # q /\ s = q
      BY <1>2, <1>3, <1>4, <2>3, <3>2 DEF GraphInv, Founded
    <3>3. CASE p # q /\ s # q
      BY <1>4, <2>3, <3>3 DEF GraphInv, Founded
    <3> QED BY <3>1, <3>2, <3>3
  <2> QED BY <2>1, <2>2, <2>3 DEF Founded
<1> QED BY <1>1, <1>2, <1>3, <1>4, <1>5, GraphStays

LEMMA OpensGraph ==
  ASSUME IInv, GraphInv, NEW q \in Requests, NEW m \in Metrics,
         \/ \E x \in Texts, D \in SUBSET Metrics : Create(q, m, x, D)
         \/ \E x \in Texts : Edit(q, m, x)
         \/ \E x \in Texts, D \in SUBSET Metrics : Relate(q, m, x, D)
         \/ Archive(q, m) \/ Publish(q, m)
         \/ \E known \in BOOLEAN : Resolve(q, m, known)
  PROVE  GraphInv'
<1>t. TypeOK
  BY DEF IInv
<1>1. ASSUME NEW x \in Texts, NEW D \in SUBSET Metrics, Create(q, m, x, D) PROVE GraphInv'
  <2>1. Load(q, "create", m, New(x, D), D) /\ m \notin created /\ \A p \in Open : request[p].metric # m
    BY <1>1 DEF Create
  <2>2. D \subseteq created
    BY <1>1, PublishedExist DEF Create
  <2> QED BY <1>t, <2>1, <2>2, LoadGraph DEF Ops
<1>2. ASSUME NEW op \in Ops \ {"create"}, NEW w, NEW D \in SUBSET Metrics, Load(q, op, m, w, D), m \in created
      PROVE  GraphInv'
  BY <1>t, <1>2, LoadGraph
<1>3. ASSUME NEW x \in Texts, Edit(q, m, x) PROVE GraphInv'
  BY <1>2, <1>3 DEF Edit, Ops
<1>4. ASSUME NEW x \in Texts, NEW D \in SUBSET Metrics, Relate(q, m, x, D) PROVE GraphInv'
  BY <1>2, <1>4 DEF Relate, Ops
<1>5. CASE Archive(q, m) \/ Publish(q, m)
  BY <1>2, <1>5 DEF Archive, Publish, Ops
<1>6. ASSUME NEW known \in BOOLEAN, Resolve(q, m, known) PROVE GraphInv'
  BY <1>2, <1>6 DEF Resolve, Ops
<1> QED BY <1>1, <1>3, <1>4, <1>5, <1>6

\* A request goes on: to Validate or to Flush.
LEMMA GoesOn ==
  ASSUME TypeOK, GraphInv, NEW q \in Open, NEW pc \in {"valid", "flushed"},
         request' = [request EXCEPT ![q].pc = pc], UNCHANGED <<created, deps, raced>>,
         request[q].op = "relate" => request[q].on \subseteq created,
         pc = "flushed" => \E W \in SUBSET created : Apart(request[q].on, request[q].metric, W)
  PROVE  GraphInv'
<1>1. q \in Requests /\ request[q] \in Working
  BY OpenIsWorking DEF Open
<1>2. /\ request'[q].pc = pc /\ request'[q].op = request[q].op /\ request'[q].metric = request[q].metric
      /\ request'[q].on = request[q].on
      /\ \A p \in Requests \ {q} : request'[p] = request[p]
  BY <1>1 DEF TypeOK, Working
<1>3. \A p \in Open' : p \in Open /\ (p = q \/ request'[p] = request[p])
  BY <1>2 DEF Open
<1>4. \A p \in Open' : request'[p].op = request[p].op /\ request'[p].metric = request[p].metric
                       /\ request'[p].on = request[p].on
  BY <1>2, <1>3
<1>5. Founded'
  <2>1. \A k \in Metrics : deps'[k] \subseteq created' /\ (k \notin created' => deps'[k] = {})
    BY DEF GraphInv, Founded
  <2>2. \A p \in Open' :
          /\ request'[p].op = "create" => request'[p].metric \notin created'
          /\ request'[p].op # "create" => request'[p].metric \in created'
    BY <1>3, <1>4 DEF GraphInv, Founded
  <2>3. \A p \in Open' : Named(request'[p]) => request'[p].on \subseteq created'
    BY <1>3, <1>4 DEF GraphInv, Founded, Named
  <2>4. \A p, s \in Open' : request'[p].op = "create" /\ request'[p].metric = request'[s].metric => p = s
    BY <1>3, <1>4 DEF GraphInv, Founded
  <2> QED BY <2>1, <2>2, <2>3, <2>4 DEF Founded
<1> QED BY <1>2, <1>3, <1>5, GraphStays

LEMMA ValidateGraph ==
  ASSUME IInv, GraphInv, NEW q \in Requests, Validate(q)
  PROVE  GraphInv'
<1>1. q \in Open /\ request[q] \in Working /\ TypeOK
  BY OpenIsWorking DEF IInv, Validate, Open
<1>2. request' = [request EXCEPT ![q].pc = "valid"] /\ UNCHANGED <<created, deps, raced>>
  BY DEF Validate, history
<1>3. request[q].op = "relate" => request[q].on \subseteq created
  <2>1. request[q].op = "relate" => AllPublished(request[q].on)
    BY DEF Validate
  <2>2. request[q].on \in SUBSET Metrics
    BY <1>1 DEF Working
  <2> QED BY <2>1, <2>2, PublishedExist
<1> QED BY <1>1, <1>2, <1>3, GoesOn

\* The search that found no cycle leaves a set that is apart.
LEMMA FlushGraph ==
  ASSUME IInv, GraphInv, NEW q \in Requests, Flush(q)
  PROVE  GraphInv'
<1> DEFINE D == request[q].on
           m == request[q].metric
<1>1. q \in Open /\ request[q] \in Working /\ TypeOK
  BY OpenIsWorking DEF IInv, Flush, Open
<1>2. request' = [request EXCEPT ![q].pc = "flushed"] /\ UNCHANGED <<created, deps, raced>>
  BY DEF Flush, history
<1>3. D \subseteq created
  BY <1>1 DEF Flush, GraphInv, Founded, Named
<1>4. PICK seen \in SUBSET Metrics : D \subseteq seen /\ (\A d \in seen : deps[d] \subseteq seen) /\ m \notin seen
  BY DEF Flush, WouldCycle
<1>5. \A k \in Metrics : deps[k] \subseteq created
  BY DEF GraphInv, Founded
<1>6. Apart(D, m, seen \cap created)
  BY <1>3, <1>4, <1>5 DEF Apart
<1> QED BY <1>1, <1>2, <1>3, <1>6, GoesOn

\* A request ends; what it leaves is said of the others.
LEMMA FailGraph ==
  ASSUME IInv, GraphInv, NEW q \in Requests, Fail(q)
  PROVE  GraphInv'
<1>1. request' = [request EXCEPT ![q] = Idle] /\ UNCHANGED <<created, deps, raced>> /\ TypeOK
  BY DEF Fail, history, IInv
<1>2. \A p \in Open' : p \in Open /\ request'[p] = request[p]
  BY <1>1 DEF Open, TypeOK
<1>3. Founded'
  BY <1>1, <1>2 DEF GraphInv, Founded
<1> QED BY <1>1, <1>2, <1>3, GraphStays

LEMMA CommitGraph ==
  ASSUME IInv, GraphInv, NEW q \in Requests, Commit(q)
  PROVE  GraphInv'
<1> DEFINE r == request[q]
           m == r.metric
<1>t. TypeOK
  BY DEF IInv
<1>1. r \in Working /\ q \in Open
  BY CommitRow DEF Open
<1>2. m \in Metrics /\ r.on \in SUBSET Metrics
  BY <1>1 DEF Working
<1>3. /\ Ready(r) /\ created' = created \cup {m}
      /\ deps' = IF r.op \in {"create", "relate"} THEN [deps EXCEPT ![m] = r.on] ELSE deps
      /\ request' = [request EXCEPT ![q] = Idle]
      /\ raced' = IF \E p \in Open \ {q} : Rivals(request[p], r) THEN raced \cup {m} ELSE raced
  BY DEF Commit
<1>4. raced \subseteq raced' /\ raced' \subseteq raced \cup {m}
  BY <1>3
<1>5. \A p \in Open' : p \in Open /\ p # q /\ request'[p] = request[p]
  BY <1>t, <1>3 DEF Open, TypeOK
<1>6. \A k \in Metrics : deps'[k] = IF k = m /\ r.op \in {"create", "relate"} THEN r.on ELSE deps[k]
  BY <1>t, <1>2, <1>3 DEF TypeOK
<1>7. r.op \in {"create", "relate"} => r.on \subseteq created
  BY <1>1, <1>3 DEF Ready, GraphInv, Founded, Named
<1>8. /\ r.op = "create" => m \notin created
      /\ r.op # "create" => m \in created
      /\ \A p \in Open : r.op = "create" /\ m = request[p].metric => p = q
      /\ \A p \in Open : request[p].op = "create" /\ m = request[p].metric => p = q
  BY <1>1 DEF GraphInv, Founded
<1>9. \A k \in Metrics : deps[k] \subseteq created /\ (k \notin created => deps[k] = {})
  BY DEF GraphInv, Founded
<1> HIDE DEF r, m
<1>10. Founded'
  <2>1. \A k \in Metrics : deps'[k] \subseteq created' /\ (k \notin created' => deps'[k] = {})
    BY <1>3, <1>6, <1>7, <1>9
  <2>2. \A p \in Open' :
          /\ request'[p].op = "create" => request'[p].metric \notin created'
          /\ request'[p].op # "create" => request'[p].metric \in created'
    BY <1>3, <1>5, <1>8 DEF GraphInv, Founded
  <2>3. \A p \in Open' : Named(request'[p]) => request'[p].on \subseteq created'
    BY <1>3, <1>5 DEF GraphInv, Founded
  <2>4. \A p, s \in Open' : request'[p].op = "create" /\ request'[p].metric = request'[s].metric => p = s
    BY <1>5 DEF GraphInv, Founded
  <2> QED BY <2>1, <2>2, <2>3, <2>4 DEF Founded
<1>11. Searched'
  <2> SUFFICES ASSUME NEW p \in Open', request'[p].op = "relate", request'[p].pc = "flushed"
               PROVE  \E W \in SUBSET created' : Apart(request[p].on, request[p].metric, W)'
    BY DEF Searched
  <2>1. p \in Open \ {q} /\ request'[p] = request[p]
    BY <1>5
  <2>2. PICK W \in SUBSET created : Apart(request[p].on, request[p].metric, W)
    BY <2>1 DEF GraphInv, Searched
  <2>3. W \in SUBSET created'
    BY <1>3
  <2>4. \A w \in W \ raced' : deps'[w] \subseteq W
    <3> SUFFICES ASSUME NEW w \in W \ raced' PROVE deps'[w] \subseteq W
      OBVIOUS
    <3>1. w \in Metrics /\ deps[w] \subseteq W
      BY <1>4, <1>t, <2>2 DEF Apart, TypeOK
    <3>2. CASE w # m \/ r.op \notin {"create", "relate"}
      BY <1>6, <3>1, <3>2
    <3>3. CASE w = m /\ r.op = "create"
      BY <1>8, <3>3
    <3>4. CASE w = m /\ r.op = "relate"
      <4>1. Rivals(request[p], r)
        BY <2>1, <3>4 DEF Rivals
      <4> QED BY <1>3, <2>1, <3>4, <4>1
    <3> QED BY <3>2, <3>3, <3>4
  <2> QED BY <2>1, <2>2, <2>3, <2>4 DEF Apart
<1>12. CyclesNeedARace'
  <2> SUFFICES ASSUME NEW S \in SUBSET Metrics, S # {}, \A s \in S : deps'[s] \cap S # {}, S \cap raced' = {}
               PROVE  FALSE
    BY DEF CyclesNeedARace
  <2>1. ASSUME NEW T \in SUBSET S, T # {}, \A s \in T : deps[s] \cap T # {}
        PROVE  FALSE
    BY <1>4, <2>1 DEF GraphInv, CyclesNeedARace
  <2>2. CASE m \notin S \/ r.op \notin {"create", "relate"}
    <3>1. \A s \in S : deps'[s] = deps[s]
      BY <1>6, <2>2
    <3> QED BY <2>1, <3>1
  <2>3. CASE m \in S /\ r.op = "create"
    <3>1. \A k \in Metrics : m \notin deps'[k]
      BY <1>6, <1>7, <1>8, <1>9, <2>3
    <3>2. S \ {m} # {}
      BY <2>3, <3>1
    <3>3. \A s \in S \ {m} : deps[s] \cap (S \ {m}) # {}
      BY <1>6, <3>1
    <3> QED BY <2>1, <3>2, <3>3
  <2>4. CASE m \in S /\ r.op = "relate"
    <3>1. PICK W \in SUBSET created : Apart(r.on, m, W)
      <4>1. r.pc = "flushed"
        BY <1>3, <2>4 DEF Ready
      <4> QED BY <1>1, <2>4, <4>1 DEF GraphInv, Searched, r, m
    <3>2. deps'[m] = r.on
      BY <1>2, <1>6, <2>4
    <3>3. S \cap W # {}
      BY <2>4, <3>1, <3>2 DEF Apart
    <3>4. ASSUME NEW s \in S \cap W PROVE deps[s] \cap (S \cap W) # {}
      <4>1. s # m /\ s \notin raced
        BY <1>4, <3>1 DEF Apart
      <4>2. deps'[s] = deps[s] /\ deps[s] \subseteq W
        BY <1>6, <3>1, <4>1 DEF Apart
      <4> QED BY <4>2
    <3> QED BY <2>1, <3>3, <3>4
  <2> QED BY <2>2, <2>3, <2>4
<1> QED BY <1>10, <1>11, <1>12 DEF GraphInv

LEMMA GraphInvariance == Spec => []GraphInv
<1>1. Init => GraphInv
  <2> SUFFICES ASSUME Init PROVE GraphInv
    OBVIOUS
  <2>1. Open = {} /\ \A m \in Metrics : deps[m] = {}
    BY DEF Init, Open
  <2> QED BY <2>1 DEF GraphInv, Founded, Searched, CyclesNeedARace
<1>2. IInv /\ GraphInv /\ [Next]_vars => GraphInv'
  <2> SUFFICES ASSUME IInv, GraphInv, [Next]_vars PROVE GraphInv'
    OBVIOUS
  <2>1. ASSUME UNCHANGED <<created, deps, raced, request>> PROVE GraphInv'
    <3>1. Open' = Open
      BY <2>1 DEF Open
    <3>2. Founded'
      BY <2>1, <3>1 DEF GraphInv, Founded
    <3> QED BY <2>1, <3>1, <3>2, GraphStays
  <2>2. CASE UNCHANGED vars
    BY <2>1, <2>2 DEF vars
  <2>3. ASSUME NEW m \in Metrics, SubmitReview(m) \/ Reject(m) \/ \E u \in Users : Approve(m, u)
        PROVE  GraphInv'
    BY <2>1, <2>3 DEF SubmitReview, Reject, Approve, Decide
  <2> QED BY <2>2, <2>3, OpensGraph, ValidateGraph, FlushGraph, CommitGraph, FailGraph DEF Next
<1> QED BY <1>1, <1>2, Invariance, PTL DEF Spec

\* A cycle of dependencies takes two edits of dependencies at once, for any metrics and number
\* of requests (registry.py:990).
THEOREM CyclesTakeARace == Spec => []CyclesNeedARace
<1>1. GraphInv => CyclesNeedARace
  BY DEF GraphInv
<1> QED BY <1>1, GraphInvariance, PTL

=============================================================================

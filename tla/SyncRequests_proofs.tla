------------------------ MODULE SyncRequests_proofs ------------------------
(***************************************************************************)
(* Proofs about the requests for a synchronisation and the workers that    *)
(* execute them (SyncRequests, TableauSync), for any number of requests,   *)
(* firings, retries and faults, whether or not a synchronisation outlives  *)
(* its lock.                                                               *)
(***************************************************************************)
EXTENDS SyncRequests, SequenceTheorems, FiniteSetTheorems, TLAPS

-----------------------------------------------------------------------------
(* What the steps do to the executions.                                    *)

ExecType == exec \in [Requests -> Seq(Messages)]

\* Execution e goes on to label, and the others stay where they are.
Becomes(e, label, locked) ==
    /\ Execs' = Execs
    /\ Run(e)' = [pc |-> label, retries |-> Run(e).retries, locked |-> locked]
    /\ \A d \in Execs : d # e => Run(d)' = Run(d)

\* New messages of request r are queued behind the others.
Adds(new, r, n) ==
    /\ Execs' = Execs \cup new /\ new \cap Execs = {} /\ IsFiniteSet(new) /\ new # {}
    /\ \A d \in new : Row(d) = r /\ Run(d)' = Message(n)

\* Execution e ends, and leaves retries behind.
Retries(e) ==
    /\ \E new : Adds(new, Row(e), Run(e).retries + 1)
    /\ Run(e)' = [pc |-> "releasing", retries |-> Run(e).retries, locked |-> Run(e).locked]
    /\ \A d \in Execs : d # e => Run(d)' = Run(d)

\* A request's first message is queued.
Opens(r) ==
    /\ \E new : Adds({new}, r, 0)
    /\ \A d \in Execs : Run(d)' = Run(d)

LEMMA ExecPlaces ==
    /\ \A e \in Execs : /\ e[1] \in Requests /\ e[2] \in DOMAIN exec[e[1]]
                        /\ e = <<e[1], e[2]>>
    /\ \A r \in Requests : \A i \in DOMAIN exec[r] : <<r, i>> \in Execs
BY DEF Execs

LEMMA ExecFacts ==
    ASSUME ExecType
    PROVE  /\ \A e \in Execs : /\ e[1] \in Requests /\ e[2] \in 1..Len(exec[e[1]])
                               /\ e = <<e[1], e[2]>> /\ e # None
                               /\ Row(e) \in Requests /\ Run(e) \in Messages
           /\ \A r \in Requests : /\ exec[r] \in Seq(Messages) /\ Len(exec[r]) \in Nat
                                  /\ DOMAIN exec[r] = 1..Len(exec[r])
<1>1. \A r \in Requests : /\ exec[r] \in Seq(Messages) /\ Len(exec[r]) \in Nat
                          /\ DOMAIN exec[r] = 1..Len(exec[r])
  BY LenProperties DEF ExecType
<1>2. \A r \in Requests : \A i \in 1..Len(exec[r]) : exec[r][i] \in Messages
  BY <1>1, ElementOfSeq
<1>3. ASSUME NEW e \in Execs
      PROVE  /\ e[1] \in Requests /\ e[2] \in 1..Len(exec[e[1]])
             /\ e = <<e[1], e[2]>> /\ Row(e) \in Requests /\ Run(e) \in Messages
  BY <1>1, <1>2, ExecPlaces DEF Row, Run
<1>4. \A e \in Execs : e # None
  <2> SUFFICES ASSUME NEW e \in Execs PROVE e \in Requests \X Nat
    BY NoneAssumption
  <2>1. e[1] \in Requests /\ e[2] \in Nat /\ e = <<e[1], e[2]>>
    BY <1>1, <1>3
  <2> QED BY <2>1
<1> QED BY <1>1, <1>3, <1>4

LEMMA PutBecomes ==
    ASSUME ExecType, NEW e \in Execs, NEW label \in Pcs, NEW locked \in BOOLEAN,
           exec' = [exec EXCEPT ![e[1]] = [exec[e[1]] EXCEPT ![e[2]] =
                       [pc |-> label, retries |-> Run(e).retries, locked |-> locked]]]
    PROVE  ExecType' /\ Becomes(e, label, locked)
<1> DEFINE r == e[1]
           i == e[2]
           m == [pc |-> label, retries |-> Run(e).retries, locked |-> locked]
           s == [exec[r] EXCEPT ![i] = m]
<1>1. r \in Requests /\ i \in 1..Len(exec[r]) /\ e = <<r, i>> /\ exec[r] \in Seq(Messages)
  BY ExecFacts
<1>2. m \in Messages
  BY ExecFacts DEF Messages
<1>3. /\ s \in Seq(Messages) /\ Len(s) = Len(exec[r])
      /\ \A j \in 1..Len(exec[r]) : s[j] = IF j = i THEN m ELSE exec[r][j]
  BY <1>1, <1>2, ExceptSeq
<1>4. exec' = [exec EXCEPT ![r] = s]
  OBVIOUS
<1> HIDE DEF s, m
<1>5. ExecType'
  BY <1>1, <1>3, <1>4 DEF ExecType
<1>6. /\ exec'[r] = s /\ \A q \in Requests : q # r => exec'[q] = exec[q]
  BY <1>1, <1>4 DEF ExecType
<1>7. \A q \in Requests : DOMAIN exec'[q] = DOMAIN exec[q]
  BY <1>1, <1>3, <1>6, LenProperties
<1>8. Execs' = Execs
  BY <1>7 DEF Execs
<1>9. Run(e)' = m
  BY <1>1, <1>3, <1>6 DEF Run
<1>10. ASSUME NEW d \in Execs, d # e PROVE Run(d)' = Run(d)
  <2>1. /\ d[1] \in Requests /\ d[2] \in 1..Len(exec[d[1]])
        /\ d = <<d[1], d[2]>> /\ d # e
    BY <1>10, ExecFacts
  <2>2. d[1] # r \/ (d[1] = r /\ d[2] # i)
    BY <1>1, <2>1
  <2> QED BY <1>3, <1>6, <2>1, <2>2 DEF Run
<1> QED BY <1>5, <1>8, <1>9, <1>10 DEF Becomes, m

LEMMA RunExcept ==
    ASSUME NEW m \in Messages, NEW label, NEW locked
    PROVE  [m EXCEPT !.pc = label, !.locked = locked]
             = [pc |-> label, retries |-> m.retries, locked |-> locked]
<1>1. [m EXCEPT !.pc = label] = [pc |-> label, retries |-> m.retries, locked |-> m.locked]
  BY DEF Messages
<1>2. [[pc |-> label, retries |-> m.retries, locked |-> m.locked] EXCEPT !.locked = locked]
        = [pc |-> label, retries |-> m.retries, locked |-> locked]
  OBVIOUS
<1> QED BY <1>1, <1>2

LEMMA MovedBecomes ==
    ASSUME ExecType, NEW e \in Execs, NEW label \in Pcs, exec' = Moved(e, label)
    PROVE  ExecType' /\ Becomes(e, label, Run(e).locked)
<1>1. Run(e) \in Messages /\ e[1] \in Requests /\ e[2] \in DOMAIN exec[e[1]]
  BY ExecFacts, ExecPlaces
<1>2. exec' = [exec EXCEPT ![e[1]] = [exec[e[1]] EXCEPT ![e[2]] = [Run(e) EXCEPT !.pc = label]]]
  BY <1>1 DEF Moved, Run
<1>3. [Run(e) EXCEPT !.pc = label]
        = [pc |-> label, retries |-> Run(e).retries, locked |-> Run(e).locked]
  BY <1>1 DEF Messages
<1>4. Run(e).locked \in BOOLEAN
  BY <1>1 DEF Messages
<1>5. exec' = [exec EXCEPT ![e[1]] = [exec[e[1]] EXCEPT ![e[2]] =
                 [pc |-> label, retries |-> Run(e).retries, locked |-> Run(e).locked]]]
  BY <1>2, <1>3
<1> QED BY <1>4, <1>5, PutBecomes

LEMMA LeftBecomes ==
    ASSUME ExecType, NEW e \in Execs, NEW label \in Pcs, exec' = Left(e, label)
    PROVE  ExecType' /\ Becomes(e, label, FALSE)
<1>1. /\ Run(e) \in Messages /\ e[1] \in Requests /\ e[2] \in DOMAIN exec[e[1]]
      /\ exec[e[1]] \in Seq(Messages)
  BY ExecFacts, ExecPlaces
<1>2. exec' = [exec EXCEPT ![e[1]] = [exec[e[1]] EXCEPT ![e[2]] =
                 [Run(e) EXCEPT !.pc = label, !.locked = FALSE]]]
  BY <1>1 DEF Left, Run, ExecType
<1>3. [Run(e) EXCEPT !.pc = label, !.locked = FALSE]
        = [pc |-> label, retries |-> Run(e).retries, locked |-> FALSE]
  BY <1>1, RunExcept
<1> QED BY <1>2, <1>3, PutBecomes

LEMMA AcquireBecomes ==
    ASSUME ExecType, NEW e \in Execs, Acquire(e)
    PROVE  ExecType' /\ Becomes(e, "acquired", TRUE)
<1>1. /\ Run(e) \in Messages /\ e[1] \in Requests /\ e[2] \in DOMAIN exec[e[1]]
      /\ exec[e[1]] \in Seq(Messages)
  BY ExecFacts, ExecPlaces
<1>2. exec' = [exec EXCEPT ![e[1]] = [exec[e[1]] EXCEPT ![e[2]] =
                 [Run(e) EXCEPT !.pc = "acquired", !.locked = TRUE]]]
  BY <1>1 DEF Acquire, Run, ExecType
<1>3. [Run(e) EXCEPT !.pc = "acquired", !.locked = TRUE]
        = [pc |-> "acquired", retries |-> Run(e).retries, locked |-> TRUE]
  BY <1>1, RunExcept
<1>4. "acquired" \in Pcs
  BY DEF Pcs
<1> QED BY <1>2, <1>3, <1>4, PutBecomes

LEMMA QueuedOpens ==
    ASSUME ExecType, NEW r \in Requests, Queued(r)
    PROVE  ExecType' /\ Opens(r)
<1> DEFINE s == Append(exec[r], Message(0))
<1>0. PICK new : new = <<r, Len(exec[r]) + 1>>
  OBVIOUS
<1>1. Message(0) \in Messages
  BY RetriesAssumption DEF Message, Messages, Pcs
<1>2. exec[r] \in Seq(Messages) /\ Len(exec[r]) \in Nat
  BY ExecFacts
<1>3. /\ s \in Seq(Messages) /\ Len(s) = Len(exec[r]) + 1
      /\ \A i \in 1..Len(exec[r]) : s[i] = exec[r][i]
      /\ s[Len(exec[r]) + 1] = Message(0)
  BY <1>1, <1>2, AppendProperties
<1>4. exec' = [exec EXCEPT ![r] = s]
  BY DEF Queued
<1> HIDE DEF s
<1>5. ExecType' /\ exec'[r] = s /\ \A q \in Requests : q # r => exec'[q] = exec[q]
  BY <1>3, <1>4 DEF ExecType
<1>6. DOMAIN s = 1..(Len(exec[r]) + 1) /\ DOMAIN exec[r] = 1..Len(exec[r])
  BY <1>2, <1>3, LenProperties
<1>7. Execs' = Execs \cup {new} /\ new \notin Execs
  <2>1. \A q \in Requests : {q} \X DOMAIN exec'[q] =
          IF q = r THEN ({q} \X DOMAIN exec[q]) \cup {new} ELSE {q} \X DOMAIN exec[q]
    BY <1>0, <1>2, <1>5, <1>6
  <2>2. new \notin Execs
    BY <1>0, <1>2, ExecFacts
  <2> QED BY <2>1, <2>2 DEF Execs
<1>8. Row(new) = r /\ Run(new)' = Message(0)
  BY <1>0, <1>3, <1>5 DEF Row, Run
<1>9. \A d \in Execs : Run(d)' = Run(d)
  BY <1>3, <1>5, ExecFacts DEF Run
<1>10. IsFiniteSet({new})
  BY FS_Singleton
<1>11. Adds({new}, r, 0)
  BY <1>7, <1>8, <1>10 DEF Adds
<1> QED BY <1>5, <1>9, <1>11 DEF Opens

LEMMA RetriedRetries ==
    ASSUME ExecType, NEW e \in Execs, MayRetry(e), NEW n \in {1, 2}, exec' = Retried(e, n)
    PROVE  ExecType' /\ Retries(e)
<1> DEFINE message == Message(Run(e).retries + 1)
           tail == [j \in 1..n |-> message]
           ended == [exec[e[1]] EXCEPT ![e[2]] = [Run(e) EXCEPT !.pc = "releasing"]]
           s == ended \o tail
<1>0. PICK r \in Requests, k \in Nat, i \in Nat :
        i \in 1..k /\ e = <<r, i>> /\ k = Len(exec[r]) /\ exec[r] \in Seq(Messages) /\ Run(e) \in Messages
  BY ExecFacts
<1>1. message \in Messages
  BY <1>0, RetriesAssumption DEF Message, Messages, Pcs, MayRetry
<1>2. [Run(e) EXCEPT !.pc = "releasing"]
        = [pc |-> "releasing", retries |-> Run(e).retries, locked |-> Run(e).locked]
  BY <1>0 DEF Messages
<1>3. [Run(e) EXCEPT !.pc = "releasing"] \in Messages
  BY <1>0, <1>2 DEF Messages, Pcs
<1>4. /\ ended \in Seq(Messages) /\ Len(ended) = k
      /\ \A j \in 1..k : ended[j] = IF j = i THEN [Run(e) EXCEPT !.pc = "releasing"] ELSE exec[r][j]
  BY <1>0, <1>3, ExceptSeq
<1>5. exec' = [exec EXCEPT ![r] = s]
  BY <1>0 DEF Retried, Run
<1>6. tail \in Seq(Messages) /\ Len(tail) = n
  BY <1>1, IsASeq
<1> HIDE DEF tail, ended
<1>7. /\ s \in Seq(Messages) /\ Len(s) = k + n
      /\ \A j \in 1..(k + n) : s[j] = IF j <= k THEN ended[j] ELSE tail[j - k]
  BY <1>4, <1>6, ConcatProperties
<1>8. \A j \in 1..n : tail[j] = message
  BY DEF tail
<1> HIDE DEF s
<1>9. ExecType' /\ exec'[r] = s /\ \A q \in Requests : q # r => exec'[q] = exec[q]
  BY <1>5, <1>7 DEF ExecType
<1>10. DOMAIN s = 1..(k + n) /\ DOMAIN exec[r] = 1..k
  BY <1>0, <1>7, LenProperties
<1>11. PICK new : new = {r} \X ((k + 1)..(k + n))
  OBVIOUS
<1>12. Execs' = Execs \cup new /\ new \cap Execs = {}
  <2>1. \A q \in Requests : {q} \X DOMAIN exec'[q] =
          IF q = r THEN ({q} \X DOMAIN exec[q]) \cup new ELSE {q} \X DOMAIN exec[q]
    BY <1>9, <1>10, <1>11
  <2>2. new \cap Execs = {}
    BY <1>0, <1>11, ExecFacts
  <2> QED BY <2>1, <2>2 DEF Execs
<1>13. \A d \in new : Row(d) = r /\ Run(d)' = message
  <2> SUFFICES ASSUME NEW j \in (k + 1)..(k + n) PROVE exec'[r][j] = message
    BY <1>11 DEF Row, Run
  <2>1. j \in 1..(k + n) /\ ~(j <= k) /\ j - k \in 1..n
    OBVIOUS
  <2> QED BY <1>7, <1>8, <1>9, <2>1
<1>14. IsFiniteSet(new) /\ new # {}
  <2>1. new = IF n = 1 THEN {<<r, k + 1>>} ELSE {<<r, k + 1>>} \cup {<<r, k + 2>>}
    BY <1>11
  <2>2. IsFiniteSet({<<r, k + 1>>})
    BY FS_Singleton
  <2>3. IsFiniteSet({<<r, k + 1>>} \cup {<<r, k + 2>>})
    BY <2>2, FS_AddElement
  <2> QED BY <2>1, <2>2, <2>3
<1>15. Run(e)' = [Run(e) EXCEPT !.pc = "releasing"]
  <2>0. i \in 1..(k + n) /\ i <= k
    BY <1>0
  <2>1. s[i] = ended[i]
    BY <1>7, <2>0
  <2>2. ended[i] = [Run(e) EXCEPT !.pc = "releasing"]
    BY <1>0, <1>4
  <2> QED BY <1>0, <1>9, <2>1, <2>2 DEF Run
<1>16. ASSUME NEW d \in Execs, d # e PROVE Run(d)' = Run(d)
  <2>1. d[1] \in Requests /\ d[2] \in DOMAIN exec[d[1]] /\ d = <<d[1], d[2]>>
    BY ExecPlaces
  <2>2. CASE d[1] # r
    BY <1>9, <2>1, <2>2 DEF Run
  <2>3. CASE d[1] = r
    <3>1. d[2] \in 1..k /\ d[2] # i
      BY <1>0, <1>10, <1>16, <2>1, <2>3
    <3>2. s[d[2]] = exec[r][d[2]]
      BY <1>4, <1>7, <3>1
    <3> QED BY <1>9, <2>3, <3>2 DEF Run
  <2> QED BY <2>2, <2>3
<1>17. Adds(new, Row(e), Run(e).retries + 1)
  BY <1>0, <1>12, <1>13, <1>14 DEF Adds, Row
<1> QED BY <1>2, <1>9, <1>15, <1>16, <1>17 DEF Retries

-----------------------------------------------------------------------------
(***************************************************************************)
(* Each step of a worker, as what it does to the executions.               *)
(***************************************************************************)
Shape(e) ==
    \/ Acquire(e) /\ Becomes(e, "acquired", TRUE)
    \/ Skip(e) /\ Becomes(e, "skipped", Run(e).locked)
    \/ GoWithoutLock(e) /\ Becomes(e, "acquired", Run(e).locked)
    \/ Begin(e) /\ Becomes(e, "logged", Run(e).locked)
    \/ Link(e) /\ Becomes(e, "syncing", Run(e).locked)
    \/ Finish(e) /\ Becomes(e, "synced", Run(e).locked)
    \/ Complete(e) /\ Becomes(e, "releasing", Run(e).locked)
    \/ RetryAfterError(e) /\ Retries(e)
    \/ RetryAfterConnect(e) /\ Retries(e)
    \/ Fail(e) /\ Becomes(e, "failed", Run(e).locked)
    \/ ReportFailure(e) /\ Becomes(e, "releasing", Run(e).locked)
    \/ Release(e) /\ Becomes(e, "over", FALSE)
    \/ WorkerStops(e) /\ Becomes(e, "dead", FALSE)
    \/ WorkerBreaks(e) /\ Becomes(e, "dead", FALSE)

LEMMA WorkerShape ==
    ASSUME ExecType, NEW e \in Execs, Worker(e)
    PROVE  ExecType' /\ Shape(e)
<1> USE DEF Pcs
<1>1. CASE Acquire(e)
  BY <1>1, AcquireBecomes DEF Shape
<1>2. CASE Skip(e)
  BY <1>2, MovedBecomes DEF Shape, Skip
<1>3. CASE GoWithoutLock(e)
  BY <1>3, MovedBecomes DEF Shape, GoWithoutLock
<1>4. CASE Begin(e)
  BY <1>4, MovedBecomes DEF Shape, Begin
<1>5. CASE Link(e)
  BY <1>5, MovedBecomes DEF Shape, Link
<1>6. CASE Finish(e)
  BY <1>6, MovedBecomes DEF Shape, Finish
<1>7. CASE Complete(e)
  BY <1>7, MovedBecomes DEF Shape, Complete
<1>8. CASE RetryAfterError(e)
  BY <1>8, RetriedRetries DEF Shape, RetryAfterError
<1>9. CASE RetryAfterConnect(e)
  BY <1>9, RetriedRetries DEF Shape, RetryAfterConnect
<1>10. CASE Fail(e)
  BY <1>10, MovedBecomes DEF Shape, Fail
<1>11. CASE ReportFailure(e)
  BY <1>11, MovedBecomes DEF Shape, ReportFailure
<1>12. CASE Release(e)
  BY <1>12, LeftBecomes DEF Shape, Release
<1>13. CASE WorkerStops(e)
  BY <1>13, LeftBecomes DEF Shape, WorkerStops
<1>14. CASE WorkerBreaks(e)
  BY <1>14, LeftBecomes DEF Shape, WorkerBreaks
<1> QED BY <1>1, <1>2, <1>3, <1>4, <1>5, <1>6, <1>7, <1>8, <1>9, <1>10, <1>11, <1>12,
           <1>13, <1>14 DEF Worker, Work

-----------------------------------------------------------------------------
(* Types.                                                                  *)

\* What a view is about to write is something for the rows it has read.
ViewFits ==
    /\ view.of = "connection" => view.status = "resting"
    /\ view.of = "tasks" => view.status = "failed"
    /\ view.of = "log" => view.status \in {"none", "running", "completed", "failed"}

TypeInv == TypeOK /\ ViewFits /\ lapses <= rare

\* What is not the executions, the lock and the count of faults.
RowTypes ==
    /\ syncStatus \in {"resting", "running"}
    /\ log \in [Requests -> {"none", "running", "success", "failed"}]
    /\ newest \in Requests \cup {None}
    /\ task \in [Requests -> {"none", "pending", "running", "completed", "failed", "skipped"}]
    /\ linked \in [Requests -> BOOLEAN]
    /\ unsaid \in SUBSET Requests

FaultTypes == lapses \in 0..MaxRare /\ rare \in 0..MaxRare /\ lapses <= rare

RequestTypes ==
    /\ sender \in [Requests -> {"none", "asking", "accepted", "inline", "synced",
                                "unsynced", "due", "planned", "lost", "over"}]
    /\ copy \in [Requests -> {"none", "running", "completed", "failed"}]
    /\ firing \in [Firings -> [pc : {"due", "read", "sending", "dead"}, rows : SUBSET Requests]]
    /\ planLock \in Firings \cup {None}
    /\ view \in [of : {"nothing", "connection", "tasks", "log"}, rows : SUBSET Requests,
                 status : {"none", "resting", "running", "completed", "failed"}]
    /\ ViewFits

LEMMA TypeParts ==
    TypeInv <=> /\ ExecType /\ lock \in Execs \cup {None}
                /\ RowTypes /\ FaultTypes /\ RequestTypes
BY DEF TypeInv, TypeOK, SyncTypeOK, ExecType, RowTypes, FaultTypes, RequestTypes

LEMMA TypePartsNext ==
    ASSUME ExecType', (lock \in Execs \cup {None})', RowTypes', FaultTypes', RequestTypes'
    PROVE  TypeInv'
BY DEF TypeInv, TypeOK, SyncTypeOK, ExecType, RowTypes, FaultTypes, RequestTypes

LEMMA ShapeGrows ==
    ASSUME NEW e, Shape(e)
    PROVE  Execs \subseteq Execs'
BY DEF Shape, Becomes, Retries, Adds

LEMMA RarelyCounts ==
    ASSUME FaultTypes
    PROVE  /\ Rarely /\ lapses' = lapses => FaultTypes'
           /\ Rarely /\ lapses' = lapses + 1 => FaultTypes'
           /\ UNCHANGED faults => FaultTypes'
BY RareAssumption DEF Rarely, FaultTypes, faults

LEMMA ReportTypes ==
    ASSUME TypeInv, NEW r \in Requests, NEW named \in BOOLEAN,
           NEW status \in {"none", "pending", "running", "completed", "failed", "skipped"},
           Report(r, status, named), UNCHANGED <<syncStatus, log, newest>>
    PROVE  RowTypes' /\ FaultTypes'
<1>1. CASE /\ task' = [task EXCEPT ![r] = status]
           /\ linked' = [linked EXCEPT ![r] = @ \/ named]
           /\ unsaid' = unsaid \ {r}
           /\ UNCHANGED faults
  <2>1. linked[r] \in BOOLEAN
    BY TypeParts DEF RowTypes
  <2>2. RowTypes'
    BY <1>1, <2>1, TypeParts DEF RowTypes
  <2> QED BY <1>1, <2>2, TypeParts, RarelyCounts
<1>2. CASE /\ unsaid' = unsaid \cup {r}
           /\ Rarely
           /\ UNCHANGED <<task, linked, lapses>>
  BY <1>2, TypeParts, RarelyCounts DEF RowTypes
<1> QED BY <1>1, <1>2 DEF Report

LEMMA WorkerTypes ==
    ASSUME TypeInv, NEW e \in Execs, Worker(e)
    PROVE  TypeInv'
<1>0. ExecType' /\ Shape(e) /\ Execs \subseteq Execs' /\ Row(e) \in Requests
  BY TypeParts, WorkerShape, ShapeGrows, ExecFacts
<1>1. RequestTypes'
  BY TypeParts DEF Worker, requestVars, RequestTypes, ViewFits
<1>2. (lock \in Execs \cup {None})'
  BY <1>0, TypeParts DEF Shape, Acquire, Skip, SkipLeavesLock, GoWithoutLock, Begin, Link, Finish,
     Complete, RetryAfterError, RetryAfterConnect, Fail, ReportFailure, Release, WorkerStops,
     WorkerBreaks
<1>3. RowTypes' /\ FaultTypes'
  <2>1. CASE Skip(e)
    BY <1>0, <2>1, ReportTypes DEF Skip
  <2>2. CASE Link(e)
    BY <1>0, <2>2, ReportTypes DEF Link
  <2>3. CASE Complete(e)
    BY <1>0, <2>3, ReportTypes DEF Complete, Completed
  <2>4. CASE ReportFailure(e)
    BY <1>0, <2>4, ReportTypes DEF ReportFailure
  <2>5. CASE Begin(e)
    BY <1>0, <2>5, TypeParts, RarelyCounts DEF Begin, LogOpened, rowVars, RowTypes
  <2>6. CASE Finish(e)
    BY <1>0, <2>6, TypeParts, RarelyCounts DEF Finish, Synced, rowVars, RowTypes
  <2>7. CASE Fail(e)
    BY <1>0, <2>7, TypeParts, RarelyCounts DEF Fail, LogFailed, rowVars, RowTypes
  <2>8. CASE Acquire(e) \/ RetryAfterError(e) \/ RetryAfterConnect(e)
    BY <2>8, TypeParts, RarelyCounts
       DEF Acquire, RetryAfterError, RetryAfterConnect, rowVars, RowTypes
  <2>9. CASE GoWithoutLock(e) \/ WorkerStops(e) \/ WorkerBreaks(e)
    BY <2>9, TypeParts, RarelyCounts
       DEF GoWithoutLock, WorkerStops, WorkerBreaks, rowVars, RowTypes
  <2>10. CASE Release(e)
    <3>1. (Rarely /\ lapses' = lapses) \/ UNCHANGED faults
      BY <2>10 DEF Release, faults
    <3> QED BY <2>10, <3>1, TypeParts, RarelyCounts DEF Release, rowVars, RowTypes
  <2> QED BY <1>0, <2>1, <2>2, <2>3, <2>4, <2>5, <2>6, <2>7, <2>8, <2>9, <2>10 DEF Shape
<1> QED BY <1>0, <1>1, <1>2, <1>3, TypePartsNext

LEMMA ExpireTypes ==
    ASSUME TypeInv, Expire, UNCHANGED requestVars
    PROVE  TypeInv'
<1>1. ExecType' /\ Execs' = Execs /\ RowTypes' /\ RequestTypes'
  BY TypeParts DEF Expire, ExecType, Execs, rowVars, RowTypes, requestVars, RequestTypes, ViewFits
<1>2. FaultTypes'
  BY TypeParts, RarelyCounts DEF Expire
<1> QED BY <1>1, <1>2, TypePartsNext DEF Expire

\* The steps of the producers, of the plan and of the views, by what they leave alone.
Produces(r) == \/ Ask(r) \/ Accept(r) \/ Beat(r) \/ Plan(r)
               \/ InlineBegin(r) \/ InlineEnd(r) \/ InlineReport(r)
               \/ InlineFails(r) \/ AcceptFails(r) \/ SubmitFails(r) \/ ApiDies(r)
Fires(f) == \/ Fire(f) \/ TakeRows(f) \/ FiringEnds(f) \/ FiringDies(f)
            \/ \E r \in Requests : DispatchFails(f, r)

LEMMA NextSplit ==
    ASSUME Next
    PROVE  \/ \E e \in Execs : Worker(e)
           \/ Expire /\ UNCHANGED requestVars
           \/ \E r \in Requests : Produces(r)
           \/ \E r \in Requests : Submit(r)
           \/ \E f \in Firings : Fires(f)
           \/ \E f \in Firings, r \in Requests : Dispatch(f, r)
           \/ PlanLockExpires
           \/ Looks
<1>1. CASE \E r \in Requests : \/ Ask(r) \/ Accept(r) \/ Beat(r) \/ Plan(r) \/ Send(r)
                               \/ InlineFails(r) \/ AcceptFails(r) \/ SubmitFails(r) \/ ApiDies(r)
  BY <1>1 DEF Send, Produces
<1>2. CASE \E f \in Firings : \/ Fire(f) \/ PlanStep(f) \/ FiringDies(f)
                              \/ \E r \in Requests : DispatchFails(f, r)
  BY <1>2 DEF PlanStep, Fires
<1> QED BY <1>1, <1>2 DEF Next

LEMMA QuietExecs ==
    ASSUME \/ \E r \in Requests : Produces(r)
           \/ \E f \in Firings : Fires(f)
           \/ PlanLockExpires
           \/ Looks
    PROVE  UNCHANGED <<exec, lock, lapses>>
<1>1. ASSUME NEW r \in Requests, Produces(r) PROVE UNCHANGED <<exec, lock, lapses>>
  BY <1>1 DEF Produces, Ask, Accept, Beat, Plan, InlineBegin, InlineEnd, InlineReport, InlineFails,
     AcceptFails, SubmitFails, ApiDies, syncVars, faults
<1>2. ASSUME NEW f \in Firings, Fires(f) PROVE UNCHANGED <<exec, lock, lapses>>
  BY <1>2 DEF Fires, Fire, TakeRows, FiringEnds, FiringDies, DispatchFails, syncVars, faults
<1>3. CASE Looks
  BY <1>3 DEF Looks, Reconcile, LookAtConnection, AlignConnection, LookAtTasks, FailTasks,
     LookAtLog, Backfill, syncVars, faults
<1>4. CASE PlanLockExpires
  BY <1>4 DEF PlanLockExpires, syncVars, faults
<1> QED BY <1>1, <1>2, <1>3, <1>4

LEMMA QuietTypes ==
    ASSUME TypeInv, UNCHANGED <<exec, lock, lapses>>, RowTypes', RequestTypes',
           Rarely \/ UNCHANGED rare
    PROVE  TypeInv'
<1>1. ExecType' /\ (lock \in Execs \cup {None})'
  BY TypeParts DEF ExecType, Execs
<1>2. FaultTypes'
  BY TypeParts, RarelyCounts DEF faults
<1> QED BY <1>1, <1>2, TypePartsNext

LEMMA ProducesTypes ==
    ASSUME TypeInv, NEW r \in Requests, Produces(r)
    PROVE  TypeInv'
<1> USE TypeParts
<1>0. UNCHANGED <<exec, lock, lapses>>
  BY QuietExecs
<1>1. RequestTypes'
  BY DEF Produces, Ask, Accept, Beat, Plan, InlineBegin, InlineEnd, InlineReport, InlineFails,
     AcceptFails, SubmitFails, ApiDies, Sends, RequestTypes, ViewFits
<1>2. RowTypes'
  <2>1. CASE Ask(r) \/ Accept(r) \/ Beat(r) \/ Plan(r) \/ AcceptFails(r) \/ SubmitFails(r) \/ ApiDies(r)
    BY <2>1 DEF Ask, Accept, Beat, Plan, AcceptFails, SubmitFails, ApiDies, syncVars, rowVars, RowTypes
  <2>2. CASE InlineBegin(r) \/ InlineEnd(r)
    BY <2>2 DEF InlineBegin, InlineEnd, LogOpened, Synced, rowVars, RowTypes
  <2>3. CASE InlineReport(r) \/ InlineFails(r)
    BY <2>3 DEF InlineReport, InlineFails, LogFailed, rowVars, RowTypes
  <2> QED BY <2>1, <2>2, <2>3 DEF Produces
<1>3. Rarely \/ UNCHANGED rare
  BY DEF Produces, Ask, Accept, Beat, Plan, InlineBegin, InlineEnd, InlineReport, InlineFails,
     AcceptFails, SubmitFails, ApiDies, syncVars, faults
<1> QED BY <1>0, <1>1, <1>2, <1>3, QuietTypes

LEMMA FiresTypes ==
    ASSUME TypeInv, NEW f \in Firings, Fires(f)
    PROVE  TypeInv'
<1> USE TypeParts
<1>0. UNCHANGED <<exec, lock, lapses>>
  BY QuietExecs
<1>1. firing[f].rows \in SUBSET Requests /\ Waiting \in SUBSET Requests
  BY DEF RequestTypes, Waiting
<1>2. RequestTypes'
  BY <1>1 DEF Fires, Fire, TakeRows, FiringEnds, FiringDies, DispatchFails, Sends, Firing, RequestTypes, ViewFits
<1>3. RowTypes'
  <2>1. CASE Fire(f) \/ FiringEnds(f) \/ FiringDies(f)
    BY <2>1 DEF Fire, FiringEnds, FiringDies, syncVars, rowVars, RowTypes
  <2>2. CASE TakeRows(f)
    BY <2>2 DEF TakeRows, RowTypes
  <2>3. ASSUME NEW r \in Requests, DispatchFails(f, r) PROVE RowTypes'
    BY <2>3 DEF DispatchFails, RowTypes
  <2> QED BY <2>1, <2>2, <2>3 DEF Fires
<1>4. Rarely \/ UNCHANGED rare
  BY DEF Fires, Fire, TakeRows, FiringEnds, FiringDies, DispatchFails, syncVars, faults
<1> QED BY <1>0, <1>2, <1>3, <1>4, QuietTypes

LEMMA LooksTypes ==
    ASSUME TypeInv, Looks
    PROVE  TypeInv'
<1> USE TypeParts
<1>0. UNCHANGED <<exec, lock, lapses>>
  BY QuietExecs
<1>1. RowTypes' /\ RequestTypes' /\ (Rarely \/ UNCHANGED rare)
  <2>1. CASE Reconcile
    BY <2>1 DEF Reconcile, requestVars, RequestTypes, ViewFits, rowVars, RowTypes, faults
  <2>2. CASE LookAtConnection \/ LookAtTasks
    BY <2>2 DEF LookAtConnection, LookAtTasks, Reads, Stale, RequestTypes, ViewFits, rowVars, RowTypes
  <2>3. ASSUME NEW r \in Requests, LookAtLog(r)
        PROVE  RowTypes' /\ RequestTypes' /\ (Rarely \/ UNCHANGED rare)
    <3>1. StatusOfLog(log[r]) \in {"none", "running", "completed", "failed"}
      BY DEF StatusOfLog, RowTypes
    <3> QED BY <2>3, <3>1 DEF LookAtLog, Reads, RequestTypes, ViewFits, rowVars, RowTypes
  <2>4. CASE AlignConnection
    BY <2>4, TypeParts DEF AlignConnection, Writes, NoView, RequestTypes, ViewFits, rowVars, RowTypes, faults
  <2>5. CASE FailTasks
    BY <2>5 DEF FailTasks, Writes, NoView, RequestTypes, ViewFits, RowTypes, faults
  <2>6. CASE Backfill
    BY <2>6 DEF Backfill, Writes, NoView, RequestTypes, ViewFits, syncVars, rowVars, RowTypes, faults
  <2> QED BY <2>1, <2>2, <2>3, <2>4, <2>5, <2>6 DEF Looks
<1> QED BY <1>0, <1>1, QuietTypes

LEMMA OpensTypes ==
    ASSUME TypeInv, NEW r \in Requests, Submit(r) \/ \E f \in Firings : Dispatch(f, r)
    PROVE  TypeInv' /\ Opens(r) /\ Execs \subseteq Execs' /\ UNCHANGED <<lock, lapses>>
<1>1. /\ Queued(r) /\ UNCHANGED <<lock, syncStatus, log, newest, rowVars, faults, copy, planLock, view>>
  BY DEF Submit, Dispatch
<1>2. ExecType' /\ Opens(r)
  BY <1>1, TypeParts, QueuedOpens
<1>3. Execs \subseteq Execs' /\ UNCHANGED <<lock, lapses>>
  BY <1>1, <1>2 DEF Opens, Adds, faults
<1>4. RowTypes' /\ FaultTypes'
  BY <1>1, TypeParts, RarelyCounts DEF rowVars, RowTypes
<1>5. RequestTypes'
  BY TypeParts DEF Submit, Dispatch, Sends, Firing, RequestTypes, ViewFits
<1>6. (lock \in Execs \cup {None})'
  BY <1>3, TypeParts
<1> QED BY <1>2, <1>3, <1>4, <1>5, <1>6, TypePartsNext

LEMMA TypeStep ==
    ASSUME TypeInv, [Next]_vars
    PROVE  TypeInv'
<1>1. CASE UNCHANGED vars
  <2>1. UNCHANGED <<exec, lock, lapses>> /\ UNCHANGED rare /\ RowTypes' /\ RequestTypes'
    BY <1>1, TypeParts DEF vars, syncVars, requestVars, rowVars, faults, RowTypes, RequestTypes, ViewFits
  <2> QED BY <2>1, QuietTypes
<1>2. CASE PlanLockExpires
  <2>1. UNCHANGED <<exec, lock, lapses>> /\ UNCHANGED rare /\ RowTypes' /\ RequestTypes'
    BY <1>2, TypeParts
       DEF PlanLockExpires, syncVars, rowVars, faults, RowTypes, RequestTypes, ViewFits
  <2> QED BY <2>1, QuietTypes
<1> QED BY <1>1, <1>2, NextSplit, WorkerTypes, ExpireTypes, ProducesTypes, OpensTypes, FiresTypes,
           LooksTypes

LEMMA InitExecs == Init => ExecType /\ Execs = {}
<1>1. Init => exec = [r \in Requests |-> <<>>]
  BY DEF Init, SyncInit
<1>2. <<>> \in Seq(Messages) /\ DOMAIN <<>> = {}
  BY EmptySeq, LenProperties
<1> QED BY <1>1, <1>2 DEF ExecType, Execs

LEMMA TypeInit == Init => TypeInv
<1> SUFFICES ASSUME Init PROVE TypeInv
  OBVIOUS
<1>1. ExecType /\ lock \in Execs \cup {None}
  BY InitExecs DEF Init, SyncInit
<1>2. RowTypes /\ FaultTypes /\ RequestTypes
  BY RareAssumption DEF Init, SyncInit, NoView, RowTypes, FaultTypes, RequestTypes, ViewFits
<1> QED BY <1>1, <1>2, TypeParts

LEMMA TypesHold == Spec => []TypeInv
BY TypeInit, TypeStep, PTL DEF Spec

(***************************************************************************)
(* The executions, the rows and the producers keep their types, however    *)
(* many requests, retries and faults there are (tableau_tasks.py:39-184).  *)
(***************************************************************************)
THEOREM SyncTypes == Spec => []TypeOK
<1>1. TypeInv => TypeOK
  BY DEF TypeInv
<1> QED BY <1>1, TypesHold, PTL

-----------------------------------------------------------------------------
(***************************************************************************)
(* The lock.  An execution strays when it believes in a key that is not    *)
(* its own (any more).  Whoever strays and lets go may take the key from   *)
(* its owner, who then strays in its place: nothing but an expiry under an *)
(* execution at work adds one.                                             *)
(***************************************************************************)
Strays == {e \in Execs : Holds(e) /\ lock # e}

LockInv ==
    /\ IsFiniteSet(Execs)
    /\ \A e \in Execs : At(e, "queued") => ~Run(e).locked
    /\ Cardinality(Strays) <= lapses

LEMMA FewerStrays ==
    ASSUME IsFiniteSet(Execs), TypeInv, NEW S \in SUBSET Execs, Cardinality(S) <= lapses
    PROVE  /\ IsFiniteSet(S) /\ Cardinality(S) \in Nat /\ lapses \in Nat
           /\ \A T \in SUBSET S : Cardinality(T) <= lapses
           /\ \A x : Cardinality(S \cup {x}) <= lapses + 1
           /\ \A x, y : x \in S => Cardinality((S \ {x}) \cup {y}) <= lapses
<1>1. IsFiniteSet(S) /\ Cardinality(S) \in Nat /\ lapses \in Nat
  BY FS_Subset, FS_CardinalityType, TypeParts DEF FaultTypes
<1>2. \A T \in SUBSET S : Cardinality(T) <= lapses
  <2> SUFFICES ASSUME NEW T \in SUBSET S PROVE Cardinality(T) <= lapses
    OBVIOUS
  <2>1. IsFiniteSet(T) /\ Cardinality(T) <= Cardinality(S)
    BY <1>1, FS_Subset
  <2>2. Cardinality(T) \in Nat
    BY <2>1, FS_CardinalityType
  <2> QED BY <1>1, <2>1, <2>2
<1>3. ASSUME NEW x PROVE Cardinality(S \cup {x}) <= lapses + 1
  <2>1. Cardinality(S \cup {x}) = IF x \in S THEN Cardinality(S) ELSE Cardinality(S) + 1
    BY <1>1, FS_AddElement
  <2> QED BY <1>1, <2>1
<1>4. ASSUME NEW x \in S, NEW y PROVE Cardinality((S \ {x}) \cup {y}) <= lapses
  <2>1. IsFiniteSet(S \ {x}) /\ Cardinality(S \ {x}) = Cardinality(S) - 1
    BY <1>1, FS_RemoveElement
  <2>2. Cardinality((S \ {x}) \cup {y}) =
          IF y \in S \ {x} THEN Cardinality(S \ {x}) ELSE Cardinality(S \ {x}) + 1
    BY <2>1, FS_AddElement
  <2> QED BY <1>1, <2>1, <2>2
<1> QED BY <1>1, <1>2, <1>3, <1>4

\* A step that lets nobody stray who did not, or one in place of another.
LEMMA LockKept ==
    ASSUME TypeInv, LockInv, NEW new, IsFiniteSet(new), Execs' = Execs \cup new, lapses' = lapses,
           \A e \in Execs' : Run(e)'.pc = "queued" => ~Run(e)'.locked,
           \/ Strays' \subseteq Strays
           \/ \E x \in Strays, y \in Execs : Strays' \subseteq (Strays \ {x}) \cup {y}
    PROVE  LockInv'
<1>1. IsFiniteSet(Execs')
  BY FS_Union DEF LockInv
<1>2. Strays \in SUBSET Execs
  BY DEF Strays
<1>3. Cardinality(Strays') <= lapses
  <2>1. CASE Strays' \subseteq Strays
    BY <1>2, <2>1, FewerStrays DEF LockInv
  <2>2. CASE \E x \in Strays, y \in Execs : Strays' \subseteq (Strays \ {x}) \cup {y}
    <3>1. PICK x \in Strays, y \in Execs : Strays' \subseteq (Strays \ {x}) \cup {y}
      BY <2>2
    <3>2. Cardinality((Strays \ {x}) \cup {y}) <= lapses /\ (Strays \ {x}) \cup {y} \in SUBSET Execs
      BY <1>2, <3>1, FewerStrays DEF LockInv
    <3>3. Strays' \in SUBSET ((Strays \ {x}) \cup {y})
      BY <3>1
    <3> HIDE DEF Strays
    <3> QED BY <3>2, <3>3, FewerStrays DEF LockInv
  <2> QED BY <2>1, <2>2
<1> QED BY <1>1, <1>3 DEF LockInv, At

\* Nobody begins to believe in a key, except who has just got it.
LEMMA NobodyNewStrays ==
    ASSUME TypeInv, LockInv, NEW e \in Execs, NEW label, NEW locked \in BOOLEAN,
           Becomes(e, label, locked), label # "queued", lapses' = lapses,
           \/ lock' = lock /\ (Holds(e)' => Holds(e))
           \/ lock = None /\ lock' = e
           \/ Holds(e) /\ ~Holds(e)' /\ lock' = None
    PROVE  LockInv'
<1>1. /\ Execs' = Execs \cup {} /\ IsFiniteSet({})
      /\ \A d \in Execs : d # e => (Holds(d)' <=> Holds(d))
  BY FS_EmptySet DEF Becomes, Holds
<1>2. \A d \in Execs' : Run(d)'.pc = "queued" => ~Run(d)'.locked
  BY DEF Becomes, LockInv, At
<1>3. lock # None => lock \in Execs
  BY TypeParts
<1>4. \A d \in Execs : d # None
  BY ExecFacts, TypeParts
<1>5. \/ Strays' \subseteq Strays
      \/ \E x \in Strays, y \in Execs : Strays' \subseteq (Strays \ {x}) \cup {y}
  <2>1. CASE lock' = lock /\ (Holds(e)' => Holds(e))
    BY <1>1, <2>1 DEF Strays
  <2>2. CASE lock = None /\ lock' = e
    BY <1>1, <1>4, <2>2 DEF Strays
  <2>3. CASE Holds(e) /\ ~Holds(e)' /\ lock' = None
    <3>1. CASE lock = e \/ lock = None
      BY <1>1, <2>3, <3>1 DEF Strays
    <3>2. CASE lock # e /\ lock # None
      <4>1. e \in Strays /\ lock \in Execs
        BY <1>3, <2>3, <3>2 DEF Strays
      <4>2. Strays' \subseteq (Strays \ {e}) \cup {lock}
        BY <1>1, <2>3 DEF Strays
      <4> QED BY <4>1, <4>2
    <3> QED BY <3>1, <3>2
  <2> QED BY <2>1, <2>2, <2>3
<1> QED BY <1>1, <1>2, <1>5, LockKept

\* Nor does anybody when messages are queued.
LEMMA QueueingStrays ==
    ASSUME TypeInv, LockInv, UNCHANGED <<lock, lapses>>,
           \/ \E e \in Execs : Retries(e) /\ Run(e).pc \in AtWork
           \/ \E r \in Requests : Opens(r)
    PROVE  LockInv'
<1>1. PICK new, r, n : Adds(new, r, n)
  BY DEF Retries, Opens
<1>2. /\ Execs' = Execs \cup new /\ IsFiniteSet(new) /\ new \cap Execs = {}
      /\ \A d \in new : Run(d)'.pc = "queued" /\ ~Run(d)'.locked
  BY <1>1 DEF Adds, Message
<1>3. \A d \in Execs : /\ Run(d)'.locked = Run(d).locked
                       /\ \/ Run(d)'.pc = Run(d).pc
                          \/ Run(d)'.pc = "releasing" /\ Run(d).pc \in AtWork
  <2>1. ASSUME NEW e \in Execs, Retries(e), Run(e).pc \in AtWork, NEW d \in Execs
        PROVE  /\ Run(d)'.locked = Run(d).locked
               /\ \/ Run(d)'.pc = Run(d).pc
                  \/ Run(d)'.pc = "releasing" /\ Run(d).pc \in AtWork
    BY <2>1 DEF Retries
  <2> QED BY <2>1 DEF Opens
<1>4. \A d \in Execs' : Run(d)'.pc = "queued" => ~Run(d)'.locked
  BY <1>2, <1>3 DEF LockInv, At
<1>5. Strays' \subseteq Strays
  BY <1>2, <1>3 DEF Strays, Holds, AtWork
<1> QED BY <1>2, <1>4, <1>5, LockKept

LEMMA ExpireStrays ==
    ASSUME TypeInv, LockInv, Expire
    PROVE  LockInv'
<1>1. Execs' = Execs /\ \A d \in Execs : Run(d)' = Run(d)
  BY DEF Expire, Execs, Run
<1>2. lock \in Execs /\ lock' = None /\ \A d \in Execs : d # None
  BY ExecFacts, TypeParts DEF Expire
<1>3. CASE Holds(lock) /\ lapses' = lapses + 1
  <2>1. Strays' = Strays \cup {lock}
    BY <1>1, <1>2, <1>3 DEF Strays, Holds
  <2>2. Strays \in SUBSET Execs
    BY DEF Strays
  <2>3. Cardinality(Strays \cup {lock}) <= lapses + 1
    BY <2>2, FewerStrays DEF LockInv
  <2> HIDE DEF Strays
  <2> QED BY <1>1, <1>3, <2>1, <2>3 DEF LockInv, At
<1>4. CASE ~Holds(lock) /\ lapses' = lapses
  <2>1. Strays' = Strays
    BY <1>1, <1>2, <1>4 DEF Strays, Holds
  <2> QED BY <1>1, <1>4, <2>1 DEF LockInv, At
<1> QED BY <1>3, <1>4 DEF Expire, faults

LEMMA WorkerStrays ==
    ASSUME TypeInv, LockInv, NEW e \in Execs, Worker(e)
    PROVE  LockInv'
<1>0. Shape(e) /\ Run(e).locked \in BOOLEAN /\ e # None
  BY TypeParts, WorkerShape, ExecFacts DEF Messages
<1> USE DEF AtWork, Holds, Becomes
<1>1. CASE Acquire(e) /\ Becomes(e, "acquired", TRUE)
  <2>1. lock = None /\ lock' = e /\ lapses' = lapses
    BY <1>1 DEF Acquire, LockIsFree, faults
  <2> QED BY <1>0, <1>1, <2>1, NobodyNewStrays
<1>2. CASE Skip(e) /\ Becomes(e, "skipped", Run(e).locked)
  <2>1. lock' = lock /\ lapses' = lapses
    BY <1>2 DEF Skip, SkipLeavesLock, Report, faults
  <2> QED BY <1>0, <1>2, <2>1, NobodyNewStrays
<1>3. CASE GoWithoutLock(e) /\ Becomes(e, "acquired", Run(e).locked)
  <2>1. lapses' = lapses /\ (lock' = lock \/ (lock = None /\ lock' = e))
    BY <1>3 DEF GoWithoutLock, LockIsFree
  <2>2. ~Run(e).locked
    BY <1>3 DEF GoWithoutLock, Due, LockInv
  <2> QED BY <1>0, <1>3, <2>1, <2>2, NobodyNewStrays
<1>4. CASE \E label \in {"logged", "syncing", "synced", "releasing", "failed"} :
             Becomes(e, label, Run(e).locked) /\ lock' = lock /\ lapses' = lapses
             /\ Run(e).pc \in AtWork
  BY <1>0, <1>4, NobodyNewStrays
<1>5. CASE /\ Begin(e) \/ Link(e) \/ Finish(e) \/ Complete(e) \/ Fail(e) \/ ReportFailure(e)
           /\ \E label \in {"logged", "syncing", "synced", "releasing", "failed"} :
                Becomes(e, label, Run(e).locked)
  <2>1. lock' = lock /\ lapses' = lapses /\ Run(e).pc \in AtWork
    BY <1>5 DEF Begin, Link, Finish, Complete, Fail, ReportFailure, Report, At, faults
  <2> QED BY <1>4, <1>5, <2>1
<1>6. CASE (RetryAfterError(e) \/ RetryAfterConnect(e)) /\ Retries(e)
  <2>1. UNCHANGED <<lock, lapses>> /\ Run(e).pc \in AtWork
    BY <1>6 DEF RetryAfterError, RetryAfterConnect, At, faults
  <2> QED BY <1>6, <2>1, QueueingStrays
<1>7. CASE /\ Release(e) /\ Becomes(e, "over", FALSE)
  <2>1. /\ lapses' = lapses /\ Run(e).pc \in AtWork
        /\ lock' = lock \/ (Run(e).locked /\ lock' = None)
    BY <1>7 DEF Release, At
  <2>2. ~Holds(e)'
    BY <1>7
  <2> QED BY <1>0, <1>7, <2>1, <2>2, NobodyNewStrays
<1>8. CASE (WorkerStops(e) \/ WorkerBreaks(e)) /\ Becomes(e, "dead", FALSE)
  <2>1. /\ lapses' = lapses
        /\ lock' = lock \/ (Run(e).pc \in AtWork /\ Run(e).locked /\ lock' = None)
    BY <1>8 DEF WorkerStops, WorkerBreaks
  <2>2. ~Holds(e)'
    BY <1>8
  <2> QED BY <1>0, <1>8, <2>1, <2>2, NobodyNewStrays
<1> QED BY <1>0, <1>1, <1>2, <1>3, <1>5, <1>6, <1>7, <1>8 DEF Shape

LEMMA LockStep ==
    ASSUME TypeInv, LockInv, [Next]_vars
    PROVE  LockInv'
<1>1. CASE UNCHANGED <<exec, lock, lapses>>
  <2>1. Execs' = Execs /\ (\A d \in Execs : Run(d)' = Run(d)) /\ lock' = lock /\ lapses' = lapses
    BY <1>1 DEF Execs, Run
  <2>2. Strays' = Strays
    BY <2>1 DEF Strays, Holds
  <2> QED BY <2>1, <2>2 DEF LockInv, At
<1>2. ASSUME NEW r \in Requests, Submit(r) \/ \E f \in Firings : Dispatch(f, r) PROVE LockInv'
  BY <1>2, OpensTypes, QueueingStrays
<1>3. UNCHANGED vars => UNCHANGED <<exec, lock, lapses>>
  BY DEF vars, syncVars, faults
<1> QED BY <1>1, <1>2, <1>3, NextSplit, WorkerStrays, ExpireStrays, QuietExecs

(***************************************************************************)
(* Beside the owner of the key, no more executions believe that they hold  *)
(* it than keys expired under an execution at work: although every one     *)
(* deletes the key without looking whose it is (tableau_tasks.py:179-184), *)
(* one expiry does not start a chain.  No limit on the time of a           *)
(* synchronisation is assumed.                                             *)
(***************************************************************************)
THEOREM OverlapsAreBounded == Spec => []LapsesBoundOverlaps
<1>1. Init => LockInv
  <2> SUFFICES ASSUME Init PROVE LockInv
    OBVIOUS
  <2>1. Execs = {} /\ Strays = {} /\ lapses = 0
    BY InitExecs DEF Init, SyncInit, Strays
  <2> QED BY <2>1, FS_EmptySet DEF LockInv
<1>2. LockInv => LapsesBoundOverlaps
  BY DEF LockInv, Strays, LapsesBoundOverlaps
<1> QED BY <1>1, <1>2, LockStep, TypesHold, PTL DEF Spec

-----------------------------------------------------------------------------
(***************************************************************************)
(* The producers.  A request is executed only when its producer is done    *)
(* with it, a firing at work has the lock of the plan and its rows are     *)
(* still planned, and so the first message is queued once.                 *)
(***************************************************************************)
SentWhenOver == \A e \in Execs : sender[Row(e)] = "over"

FiringsHold ==
    \A f \in Firings : firing[f].pc \in {"read", "sending"} =>
        planLock = f /\ \A r \in firing[f].rows : sender[r] = "planned"

OneFirst ==
    \A d, e \in Execs : Row(d) = Row(e) /\ Run(d).retries = 0 /\ Run(e).retries = 0 => d = e

PlanInv == SentWhenOver /\ FiringsHold /\ OneFirst

LEMMA FreshRequest ==
    ASSUME PlanInv, NEW r, sender[r] # "over"
    PROVE  \A e \in Execs : Row(e) # r
BY DEF PlanInv, SentWhenOver

LEMMA PlanWorker ==
    ASSUME TypeInv, PlanInv, NEW e \in Execs, Worker(e)
    PROVE  PlanInv'
<1>0. UNCHANGED <<sender, firing, planLock>> /\ Shape(e)
  BY TypeParts, WorkerShape DEF Worker, requestVars
<1>1. \A d \in Execs : Run(d) \in Messages
  BY TypeParts, ExecFacts
<1>2. CASE Retries(e)
  <2>1. PICK new : Adds(new, Row(e), Run(e).retries + 1)
    BY <1>2 DEF Retries
  <2>2. \A d \in new : Row(d) = Row(e) /\ Run(d)'.retries # 0
    BY <1>1, <2>1, RetriesAssumption DEF Adds, Message, Messages
  <2>3. \A d \in Execs : Run(d)'.retries = Run(d).retries
    BY <1>2 DEF Retries
  <2>4. Execs' = Execs \cup new
    BY <2>1 DEF Adds
  <2> QED BY <1>0, <2>2, <2>3, <2>4 DEF PlanInv, SentWhenOver, FiringsHold, OneFirst, Row
<1>3. CASE \E label, locked : Becomes(e, label, locked)
  <2>1. Execs' = Execs /\ \A d \in Execs : Run(d)'.retries = Run(d).retries
    BY <1>3 DEF Becomes
  <2> QED BY <1>0, <2>1 DEF PlanInv, SentWhenOver, FiringsHold, OneFirst, Row
<1> QED BY <1>0, <1>2, <1>3 DEF Shape

LEMMA PlanOpens ==
    ASSUME TypeInv, PlanInv, NEW r \in Requests, sender[r] # "over",
           Opens(r), sender' = [sender EXCEPT ![r] = "over"], FiringsHold'
    PROVE  PlanInv'
<1>1. PICK new : Adds({new}, r, 0)
  BY DEF Opens
<1>2. Execs' = Execs \cup {new} /\ Row(new) = r
  BY <1>1 DEF Adds
<1>3. \A d \in Execs : Row(d) # r /\ Row(d) \in Requests /\ Run(d)' = Run(d)
  BY FreshRequest, TypeParts, ExecFacts DEF Opens
<1>4. SentWhenOver'
  BY <1>2, <1>3, TypeParts DEF PlanInv, SentWhenOver, RequestTypes, Row
<1>5. OneFirst'
  BY <1>2, <1>3 DEF PlanInv, OneFirst, Row
<1> QED BY <1>4, <1>5 DEF PlanInv

LEMMA PlanQuiet ==
    ASSUME PlanInv, UNCHANGED exec, FiringsHold',
           \A r \in Requests : sender[r] = "over" => sender'[r] = "over",
           TypeInv
    PROVE  PlanInv'
<1>1. Execs' = Execs /\ \A d \in Execs : Run(d)' = Run(d) /\ Row(d) \in Requests
  BY TypeParts, ExecFacts DEF Execs, Run
<1> QED BY <1>1 DEF PlanInv, SentWhenOver, OneFirst, Row

LEMMA PlanProduces ==
    ASSUME TypeInv, PlanInv, NEW r \in Requests, Produces(r)
    PROVE  PlanInv' /\ sender[r] # "planned" /\ sender[r] # "over"
<1>1. PICK label : /\ sender' = [sender EXCEPT ![r] = label]
                   /\ sender[r] # "planned" /\ sender[r] # "over"
                   /\ UNCHANGED <<exec, firing, planLock>>
  BY DEF Produces, New, Ask, Accept, Beat, Plan, InlineBegin, InlineEnd, InlineReport, InlineFails,
     AcceptFails, SubmitFails, ApiDies, Sends, syncVars
<1>2. FiringsHold'
  BY <1>1, TypeParts DEF PlanInv, FiringsHold, RequestTypes
<1>3. \A q \in Requests : sender[q] = "over" => sender'[q] = "over"
  BY <1>1, TypeParts DEF RequestTypes
<1> QED BY <1>1, <1>2, <1>3, PlanQuiet

LEMMA PlanSends ==
    ASSUME TypeInv, PlanInv, NEW r \in Requests, Submit(r) \/ \E f \in Firings : Dispatch(f, r)
    PROVE  PlanInv'
<1>1. Opens(r)
  BY OpensTypes
<1>2. CASE Submit(r)
  <2>1. /\ sender[r] \notin {"planned", "over"} /\ sender' = [sender EXCEPT ![r] = "over"]
        /\ UNCHANGED <<firing, planLock>>
    BY <1>2 DEF Submit, Sends
  <2>2. FiringsHold'
    BY <2>1, TypeParts DEF PlanInv, FiringsHold, RequestTypes
  <2> QED BY <1>1, <2>1, <2>2, PlanOpens
<1>3. ASSUME NEW f \in Firings, Dispatch(f, r) PROVE PlanInv'
  <2>1. /\ firing[f].pc = "sending" /\ r \in firing[f].rows /\ UNCHANGED planLock
        /\ sender' = [sender EXCEPT ![r] = "over"]
        /\ firing' = [firing EXCEPT ![f] = [pc |-> "sending", rows |-> firing[f].rows \ {r}]]
    BY <1>3 DEF Dispatch, Sends, Firing
  <2>2. sender[r] = "planned"
    BY <2>1 DEF PlanInv, FiringsHold
  <2>3. FiringsHold'
    BY <2>1, TypeParts DEF PlanInv, FiringsHold, RequestTypes
  <2> QED BY <1>1, <2>1, <2>2, <2>3, PlanOpens
<1> QED BY <1>2, <1>3

LEMMA PlanFires ==
    ASSUME TypeInv, PlanInv, NEW f \in Firings, Fires(f)
    PROVE  PlanInv'
<1>0. UNCHANGED exec
  BY QuietExecs
<1>1. CASE Fire(f)
  <2>1. /\ planLock = None /\ planLock' = f /\ sender' = sender
        /\ firing' = [firing EXCEPT ![f] = [pc |-> "read", rows |-> Waiting]]
        /\ \A r \in Waiting : sender[r] = "planned"
    BY <1>1 DEF Fire, PlanLockIsFree, Firing, Waiting
  <2>2. FiringsHold'
    BY <2>1, NoFiringAssumption, TypeParts DEF PlanInv, FiringsHold, RequestTypes
  <2> QED BY <1>0, <2>1, <2>2, PlanQuiet
<1>2. CASE TakeRows(f) \/ FiringDies(f)
  <2>1. PICK label : /\ UNCHANGED <<planLock, sender>> /\ firing[f].pc \in {"read", "sending"}
                     /\ firing' = [firing EXCEPT ![f] = [pc |-> label, rows |-> firing[f].rows]]
    BY <1>2 DEF TakeRows, FiringDies, Firing
  <2>2. FiringsHold'
    BY <2>1, TypeParts DEF PlanInv, FiringsHold, RequestTypes
  <2> QED BY <1>0, <2>1, <2>2, PlanQuiet
<1>3. CASE FiringEnds(f)
  <2>1. /\ planLock' = None /\ sender' = sender /\ planLock = f
        /\ firing' = [firing EXCEPT ![f] = [pc |-> "due", rows |-> {}]]
    BY <1>3 DEF FiringEnds, Firing, PlanInv, FiringsHold
  <2>2. FiringsHold'
    BY <2>1, NoFiringAssumption, TypeParts DEF PlanInv, FiringsHold, RequestTypes
  <2> QED BY <1>0, <2>1, <2>2, PlanQuiet
<1>4. ASSUME NEW r \in Requests, DispatchFails(f, r) PROVE PlanInv'
  <2>1. /\ firing[f].pc = "sending" /\ r \in firing[f].rows /\ UNCHANGED planLock
        /\ sender' = [sender EXCEPT ![r] = "over"]
        /\ firing' = [firing EXCEPT ![f] = [pc |-> "sending", rows |-> firing[f].rows \ {r}]]
    BY <1>4 DEF DispatchFails, Sends, Firing
  <2>2. FiringsHold'
    BY <2>1, TypeParts DEF PlanInv, FiringsHold, RequestTypes
  <2>3. \A q \in Requests : sender[q] = "over" => sender'[q] = "over"
    BY <2>1, TypeParts DEF RequestTypes
  <2> QED BY <1>0, <2>2, <2>3, PlanQuiet
<1> QED BY <1>1, <1>2, <1>3, <1>4 DEF Fires

LEMMA PlanStepKeeps ==
    ASSUME TypeInv, PlanInv, [Next]_vars
    PROVE  PlanInv'
<1>1. CASE UNCHANGED <<exec, sender, firing, planLock>>
  BY <1>1, PlanQuiet DEF PlanInv, FiringsHold
<1>2. UNCHANGED vars \/ (Expire /\ UNCHANGED requestVars /\ UNCHANGED exec) \/ Looks =>
        UNCHANGED <<exec, sender, firing, planLock>>
  BY DEF vars, syncVars, requestVars, Looks, Reconcile, LookAtConnection, AlignConnection,
     LookAtTasks, FailTasks, LookAtLog, Backfill
<1>3. Expire => UNCHANGED exec
  BY DEF Expire
<1>4. CASE PlanLockExpires
  <2>1. /\ UNCHANGED <<exec, sender, firing>> /\ planLock' = None
        /\ firing[planLock].pc = "dead"
    BY <1>4 DEF PlanLockExpires, syncVars
  <2>2. FiringsHold'
    BY <2>1 DEF PlanInv, FiringsHold
  <2> QED BY <2>1, <2>2, PlanQuiet
<1> QED BY <1>1, <1>2, <1>3, <1>4, NextSplit, PlanWorker, PlanProduces, PlanSends, PlanFires

LEMMA PlanHolds == Spec => []PlanInv
<1>1. Init => PlanInv
  <2> SUFFICES ASSUME Init PROVE PlanInv
    OBVIOUS
  <2>1. Execs = {} /\ \A f \in Firings : firing[f].pc = "due"
    BY InitExecs DEF Init
  <2> QED BY <2>1 DEF PlanInv, SentWhenOver, FiringsHold, OneFirst
<1> QED BY <1>1, PlanStepKeeps, TypesHold, PTL DEF Spec

(***************************************************************************)
(* A request has one first message, however many firings of its plan       *)
(* overlap, die or are refused, and whatever happens to the lock of the    *)
(* connection (tableau_tasks.py:302-437).                                  *)
(***************************************************************************)
THEOREM RowsAreSentOnce == Spec => []DispatchedOnce
<1>1. TypeInv /\ PlanInv => DispatchedOnce
  <2> SUFFICES ASSUME TypeInv, PlanInv, NEW r \in Requests
               PROVE  Cardinality({i \in DOMAIN exec[r] : exec[r][i].retries = 0}) <= 1
    BY DEF DispatchedOnce
  <2> DEFINE firsts == {i \in DOMAIN exec[r] : exec[r][i].retries = 0}
  <2>1. ASSUME NEW i \in firsts, NEW j \in firsts PROVE i = j
    <3>1. <<r, i>> \in Execs /\ <<r, j>> \in Execs
      BY ExecPlaces
    <3>2. <<r, i>> = <<r, j>>
      BY <3>1 DEF PlanInv, OneFirst, Row, Run
    <3> QED BY <3>2
  <2>2. CASE firsts = {}
    BY <2>2, FS_EmptySet
  <2>3. CASE \E i : firsts = {i}
    <3>1. PICK i : firsts = {i}
      BY <2>3
    <3>2. Cardinality(firsts) = 1
      BY <3>1, FS_Singleton
    <3> QED BY <3>2
  <2> QED BY <2>1, <2>2, <2>3
<1> QED BY <1>1, TypesHold, PlanHolds, PTL

-----------------------------------------------------------------------------
(***************************************************************************)
(* The rows.  A log that has ended stays ended, and who is about to say    *)
(* that it has, an execution, the API process or a view, has seen it end.  *)
(***************************************************************************)
RowInv ==
    /\ \A e \in Execs : Run(e).pc \in {"synced", "failed"} => Ended(log[Row(e)])
    /\ \A r \in Requests : sender[r] \in {"synced", "unsynced"} => Ended(log[r])
    /\ \A r \in Requests : linked[r] => sender[r] = "over"
    /\ view.of = "log" /\ view.status \in {"completed", "failed"} =>
         \A r \in view.rows : Ended(log[r])
    /\ RowsTellTheEnd

LogsStayEnded == \A r \in Requests : Ended(log[r]) => Ended(log'[r])

LEMMA LogSteps ==
    ASSUME TypeInv, NEW r \in Requests
    PROVE  /\ LogOpened(r) => LogsStayEnded
           /\ Synced(r) => LogsStayEnded /\ Ended(log'[r])
           /\ log' = LogFailed(r) => LogsStayEnded /\ Ended(log'[r])
           /\ UNCHANGED log => LogsStayEnded
BY TypeParts DEF RowTypes, LogOpened, Synced, LogFailed, LogsStayEnded, Ended

\* A step that writes no row: what was seen to have ended has.
LEMMA RowsKept ==
    ASSUME TypeInv, RowInv, LogsStayEnded, UNCHANGED <<rowVars, copy>>
    PROVE  /\ RowsTellTheEnd'
           /\ UNCHANGED view => /\ view.of = "log" /\ view.status \in {"completed", "failed"} =>
                                     \A r \in view.rows : Ended(log'[r])
BY TypeParts DEF RowInv, RowsTellTheEnd, LogsStayEnded, rowVars, RequestTypes

LEMMA ReportKeeps ==
    ASSUME TypeInv, RowInv, NEW r \in Requests, NEW status, NEW named \in BOOLEAN,
           Report(r, status, named), status \in {"completed", "failed"} => Ended(log[r]),
           UNCHANGED <<log, copy>>
    PROVE  /\ RowsTellTheEnd'
           /\ \A q \in Requests : linked'[q] => linked[q] \/ q = r
<1>1. CASE /\ task' = [task EXCEPT ![r] = status]
           /\ linked' = [linked EXCEPT ![r] = @ \/ named]
           /\ unsaid' = unsaid \ {r}
  <2>1. \A q \in Requests : q # r => task'[q] = task[q] /\ linked'[q] = linked[q]
    BY <1>1, TypeParts DEF RowTypes
  <2>2. task'[r] = status
    BY <1>1, TypeParts DEF RowTypes
  <2> QED BY <1>1, <2>1, <2>2 DEF RowInv, RowsTellTheEnd
<1>2. CASE unsaid' = unsaid \cup {r} /\ UNCHANGED <<task, linked>>
  BY <1>2 DEF RowInv, RowsTellTheEnd
<1> QED BY <1>1, <1>2 DEF Report

LEMMA RowsWorker ==
    ASSUME TypeInv, PlanInv, RowInv, NEW e \in Execs, Worker(e)
    PROVE  RowInv'
<1>0. /\ UNCHANGED <<sender, copy, view>> /\ Shape(e) /\ Row(e) \in Requests
      /\ sender[Row(e)] = "over"
  BY TypeParts, WorkerShape, ExecFacts DEF Worker, requestVars, PlanInv, SentWhenOver
<1> DEFINE Sees == \A d \in Execs' : Run(d)'.pc \in {"synced", "failed"} => Ended(log'[Row(d)])
           Linking == \A r \in Requests : linked'[r] => sender[r] = "over"
<1>1. ASSUME LogsStayEnded, Sees, Linking, RowsTellTheEnd'
      PROVE  RowInv'
  <2>1. \A r \in Requests : sender'[r] \in {"synced", "unsynced"} => Ended(log'[r])
    BY <1>0, <1>1 DEF RowInv, LogsStayEnded
  <2>2. view'.of = "log" /\ view'.status \in {"completed", "failed"} =>
          \A r \in view'.rows : Ended(log'[r])
    BY <1>0, <1>1, TypeParts DEF RowInv, LogsStayEnded, RequestTypes
  <2> QED BY <1>0, <1>1, <2>1, <2>2 DEF RowInv, Row
<1>2. ASSUME NEW label \in Pcs, NEW locked, Becomes(e, label, locked), LogsStayEnded,
             label \in {"synced", "failed"} => Ended(log'[Row(e)])
      PROVE  Sees
  <2> SUFFICES ASSUME NEW d \in Execs', Run(d)'.pc \in {"synced", "failed"}
               PROVE  Ended(log'[Row(d)])
    OBVIOUS
  <2>1. d \in Execs /\ Row(d) \in Requests
    BY <1>2, TypeParts, ExecFacts DEF Becomes
  <2>2. CASE d = e
    BY <1>2, <2>2 DEF Becomes
  <2>3. CASE d # e
    BY <1>2, <2>1, <2>3 DEF Becomes, RowInv, LogsStayEnded
  <2> QED BY <2>2, <2>3
<1>3. ASSUME Retries(e), LogsStayEnded PROVE Sees
  <2> SUFFICES ASSUME NEW d \in Execs', Run(d)'.pc \in {"synced", "failed"}
               PROVE  Ended(log'[Row(d)])
    OBVIOUS
  <2>1. PICK new : Adds(new, Row(e), Run(e).retries + 1)
    BY <1>3 DEF Retries
  <2>2. d \notin new
    BY <2>1 DEF Adds, Message
  <2>3. d \in Execs /\ Row(d) \in Requests
    BY <2>1, <2>2, TypeParts, ExecFacts DEF Adds
  <2>4. CASE d = e
    BY <1>3, <2>4 DEF Retries
  <2>5. CASE d # e
    BY <1>3, <2>3, <2>5 DEF Retries, RowInv, LogsStayEnded
  <2> QED BY <2>4, <2>5
<1>4. UNCHANGED linked => Linking
  BY DEF RowInv
<1> HIDE DEF Sees, Linking
<1>5. CASE \E status : \E named \in BOOLEAN, label \in Pcs \ {"synced", "failed"} :
             /\ Report(Row(e), status, named) /\ Becomes(e, label, Run(e).locked)
             /\ status \in {"completed", "failed"} => Ended(log[Row(e)])
             /\ UNCHANGED log
  <2>1. LogsStayEnded
    BY <1>5, LogSteps, <1>0
  <2>2. RowsTellTheEnd' /\ \A q \in Requests : linked'[q] => linked[q] \/ q = Row(e)
    BY <1>0, <1>5, ReportKeeps
  <2>3. Linking
    BY <1>0, <2>2 DEF RowInv, Linking
  <2>4. Sees
    BY <1>2, <1>5, <2>1
  <2> QED BY <1>1, <2>1, <2>2, <2>3, <2>4
<1>6. CASE \E label \in Pcs : \E locked :
             /\ Becomes(e, label, locked) /\ LogsStayEnded /\ UNCHANGED rowVars
             /\ label \in {"synced", "failed"} => Ended(log'[Row(e)])
  BY <1>0, <1>1, <1>2, <1>4, <1>6, RowsKept DEF rowVars
<1>7. CASE Retries(e) /\ LogsStayEnded /\ UNCHANGED rowVars
  BY <1>0, <1>1, <1>3, <1>4, <1>7, RowsKept DEF rowVars
<1>8. CASE Skip(e) /\ Becomes(e, "skipped", Run(e).locked)
  BY <1>5, <1>8 DEF Skip, Pcs
<1>9. CASE Link(e) /\ Becomes(e, "syncing", Run(e).locked)
  BY <1>5, <1>9 DEF Link, Pcs
<1>10. CASE Complete(e) /\ Becomes(e, "releasing", Run(e).locked)
  BY <1>5, <1>10 DEF Complete, Pcs, At, RowInv
<1>11. CASE ReportFailure(e) /\ Becomes(e, "releasing", Run(e).locked)
  BY <1>5, <1>11 DEF ReportFailure, Pcs, At, RowInv
<1>12. CASE Finish(e) /\ Becomes(e, "synced", Run(e).locked)
  BY <1>0, <1>6, <1>12, LogSteps DEF Finish, Pcs
<1>13. CASE Fail(e) /\ Becomes(e, "failed", Run(e).locked)
  BY <1>0, <1>6, <1>13, LogSteps DEF Fail, Pcs
<1>14. CASE Begin(e) /\ Becomes(e, "logged", Run(e).locked)
  BY <1>0, <1>6, <1>14, LogSteps DEF Begin, Pcs
<1>15. CASE (RetryAfterError(e) \/ RetryAfterConnect(e)) /\ Retries(e)
  BY <1>0, <1>7, <1>15, LogSteps DEF RetryAfterError, RetryAfterConnect
<1>16. CASE (Acquire(e) \/ GoWithoutLock(e)) /\ \E locked : Becomes(e, "acquired", locked)
  BY <1>0, <1>6, <1>16, LogSteps DEF Acquire, GoWithoutLock, Pcs
<1>17. CASE \/ Release(e) /\ Becomes(e, "over", FALSE)
            \/ (WorkerStops(e) \/ WorkerBreaks(e)) /\ Becomes(e, "dead", FALSE)
  BY <1>0, <1>6, <1>17, LogSteps DEF Release, WorkerStops, WorkerBreaks, Pcs
<1> QED BY <1>0, <1>8, <1>9, <1>10, <1>11, <1>12, <1>13, <1>14, <1>15, <1>16, <1>17 DEF Shape

\* The executions seen to have ended are where they were.
LEMMA SeenKept ==
    ASSUME TypeInv, RowInv, LogsStayEnded, UNCHANGED exec
    PROVE  \A e \in Execs' : Run(e)'.pc \in {"synced", "failed"} => Ended(log'[Row(e)])
<1>1. Execs' = Execs /\ \A d \in Execs : Run(d)' = Run(d) /\ Row(d) \in Requests
  BY TypeParts, ExecFacts DEF Execs, Run
<1> QED BY <1>1 DEF RowInv, LogsStayEnded

LEMMA RowsProduces ==
    ASSUME TypeInv, PlanInv, RowInv, NEW r \in Requests, Produces(r)
    PROVE  RowInv'
<1>0. /\ UNCHANGED <<exec, copy, view>> /\ sender[r] # "over"
      /\ \E label : sender' = [sender EXCEPT ![r] = label]
  BY QuietExecs, PlanProduces DEF Produces, Ask, Accept, Beat, Plan, InlineBegin, InlineEnd, InlineReport,
     InlineFails, AcceptFails, SubmitFails, ApiDies, Sends
<1>1. LogsStayEnded
  <2>1. LogOpened(r) \/ Synced(r) \/ log' = LogFailed(r) \/ UNCHANGED log
    BY DEF Produces, Ask, Accept, Beat, Plan, InlineBegin, InlineEnd, InlineReport,
       InlineFails, AcceptFails, SubmitFails, ApiDies, syncVars
  <2> QED BY <2>1, LogSteps
<1>2. \A q \in Requests : sender'[q] \in {"synced", "unsynced"} => Ended(log'[q])
  <2>1. sender'[r] \in {"synced", "unsynced"} => Ended(log'[r])
    <3>1. CASE InlineEnd(r) \/ InlineFails(r)
      BY <3>1, LogSteps DEF InlineEnd, InlineFails
    <3>2. CASE ~(InlineEnd(r) \/ InlineFails(r))
      BY <3>2, TypeParts DEF RequestTypes, Produces, Ask, Accept, Beat, Plan, InlineBegin,
         InlineReport, AcceptFails, SubmitFails, ApiDies, Sends
    <3> QED BY <3>1, <3>2
  <2>2. \A q \in Requests : q # r => sender'[q] = sender[q]
    BY <1>0, TypeParts DEF RequestTypes
  <2> QED BY <1>1, <2>1, <2>2 DEF RowInv, LogsStayEnded
<1>3. view'.of = "log" /\ view'.status \in {"completed", "failed"} =>
        \A q \in view'.rows : Ended(log'[q])
  BY <1>0, <1>1, TypeParts DEF RowInv, LogsStayEnded, RequestTypes
<1>4. RowsTellTheEnd' /\ \A q \in Requests : linked'[q] => sender'[q] = "over"
  <2>1. CASE UNCHANGED rowVars
    <3>1. \A q \in Requests : linked[q] => sender'[q] = "over"
      BY <1>0, TypeParts DEF RowInv, RequestTypes
    <3> QED BY <1>0, <1>1, <2>1, <3>1, RowsKept DEF rowVars
  <2>2. CASE Accept(r) \/ Beat(r) \/ Plan(r)
    <3>1. /\ task' = [task EXCEPT ![r] = "pending"] /\ UNCHANGED <<linked, unsaid, log>>
          /\ sender'[r] # "over"
      BY <2>2, TypeParts DEF Accept, Beat, Plan, Sends, RequestTypes
    <3>2. RowsTellTheEnd'
      BY <1>0, <3>1, TypeParts DEF RowInv, RowsTellTheEnd, RowTypes
    <3>3. \A q \in Requests : linked'[q] => sender'[q] = "over"
      BY <1>0, <3>1, TypeParts DEF RowInv, RequestTypes
    <3> QED BY <3>2, <3>3
  <2>3. CASE InlineReport(r)
    <3>1. Ended(log[r]) /\ UNCHANGED <<unsaid, log>> /\ sender' = [sender EXCEPT ![r] = "over"]
      BY <2>3 DEF InlineReport, Sends, RowInv
    <3>2. /\ \A q \in Requests : q # r => task'[q] = task[q] /\ linked'[q] = linked[q]
      BY <2>3, TypeParts DEF InlineReport, RowTypes
    <3>3. RowsTellTheEnd'
      BY <1>0, <3>1, <3>2 DEF RowInv, RowsTellTheEnd
    <3>4. \A q \in Requests : linked'[q] => sender'[q] = "over"
      BY <3>1, <3>2, TypeParts DEF RowInv, RequestTypes
    <3> QED BY <3>3, <3>4
  <2> QED BY <2>1, <2>2, <2>3 DEF Produces, Ask, InlineBegin, InlineEnd, InlineFails, AcceptFails,
             SubmitFails, ApiDies, syncVars
<1> QED BY <1>0, <1>1, <1>2, <1>3, <1>4, SeenKept DEF RowInv

LEMMA RowsSends ==
    ASSUME TypeInv, PlanInv, RowInv, NEW r \in Requests,
           Submit(r) \/ \E f \in Firings : Dispatch(f, r)
    PROVE  RowInv'
<1>0. /\ Opens(r) /\ UNCHANGED <<log, rowVars, copy, view>>
      /\ sender' = [sender EXCEPT ![r] = "over"]
  BY OpensTypes DEF Submit, Dispatch, Sends
<1>1. LogsStayEnded
  BY <1>0, LogSteps
<1>2. \A e \in Execs' : Run(e)'.pc \in {"synced", "failed"} => Ended(log'[Row(e)])
  <2>1. PICK new : Adds({new}, r, 0)
    BY <1>0 DEF Opens
  <2>2. Execs' = Execs \cup {new} /\ Run(new)'.pc = "queued"
    BY <2>1 DEF Adds, Message
  <2> QED BY <1>0, <2>2 DEF Opens, RowInv
<1>3. RowsTellTheEnd' /\ view'.of = "log" /\ view'.status \in {"completed", "failed"} =>
                           \A q \in view'.rows : Ended(log'[q])
  BY <1>0, <1>1, RowsKept
<1>4. RowsTellTheEnd'
  BY <1>0, <1>1, RowsKept
<1>5. \A q \in Requests : /\ linked'[q] => sender'[q] = "over"
                          /\ sender'[q] \in {"synced", "unsynced"} => Ended(log'[q])
  BY <1>0, TypeParts DEF RowInv, rowVars, RequestTypes
<1> QED BY <1>2, <1>3, <1>4, <1>5 DEF RowInv

LEMMA RowsFires ==
    ASSUME TypeInv, PlanInv, RowInv, NEW f \in Firings, Fires(f)
    PROVE  RowInv'
<1>0. UNCHANGED <<exec, log, copy, view>>
  BY QuietExecs DEF Fires, Fire, TakeRows, FiringEnds, FiringDies, DispatchFails, syncVars
<1>1. LogsStayEnded
  BY <1>0 DEF LogsStayEnded
<1>2. \A e \in Execs' : Run(e)'.pc \in {"synced", "failed"} => Ended(log'[Row(e)])
  BY <1>0, <1>1, SeenKept
<1>3. view'.of = "log" /\ view'.status \in {"completed", "failed"} =>
        \A r \in view'.rows : Ended(log'[r])
  BY <1>0 DEF RowInv
<1>4. UNCHANGED linked /\ \A r \in Requests : sender'[r] # sender[r] => sender'[r] = "over"
  BY TypeParts DEF Fires, Fire, TakeRows, FiringEnds, FiringDies, DispatchFails, Sends, syncVars,
     rowVars, RequestTypes
<1>5. \A r \in Requests : /\ sender'[r] \in {"synced", "unsynced"} => Ended(log'[r])
                          /\ linked'[r] => sender'[r] = "over"
  BY <1>0, <1>4 DEF RowInv
<1>6. RowsTellTheEnd'
  <2>1. CASE UNCHANGED rowVars
    BY <1>0, <1>1, <2>1, RowsKept
  <2>2. CASE TakeRows(f)
    <3>1. /\ task' = [r \in Requests |-> IF r \in firing[f].rows THEN "running" ELSE task[r]]
          /\ UNCHANGED <<linked, unsaid>>
      BY <2>2 DEF TakeRows
    <3> QED BY <1>0, <3>1 DEF RowInv, RowsTellTheEnd
  <2>3. ASSUME NEW r \in Requests, DispatchFails(f, r) PROVE RowsTellTheEnd'
    <3>1. sender[r] = "planned"
      BY <2>3 DEF DispatchFails, PlanInv, FiringsHold
    <3>2. ~linked[r] /\ UNCHANGED linked
      BY <1>4, <3>1 DEF RowInv
    <3>3. \/ task' = [task EXCEPT ![r] = "failed"] /\ unsaid' = unsaid \ {r}
          \/ unsaid' = unsaid \cup {r} /\ UNCHANGED task
      BY <2>3 DEF DispatchFails
    <3>4. \A q \in Requests : q # r => task'[q] = task[q] /\ (q \in unsaid <=> q \in unsaid')
      BY <3>3, TypeParts DEF RowTypes
    <3>5. task'[r] \in {"failed", task[r]}
      BY <3>3, TypeParts DEF RowTypes
    <3> QED BY <1>0, <3>2, <3>4, <3>5 DEF RowInv, RowsTellTheEnd
  <2> QED BY <2>1, <2>2, <2>3 DEF Fires, Fire, FiringEnds, FiringDies, syncVars
<1> QED BY <1>2, <1>3, <1>5, <1>6 DEF RowInv

LEMMA RowsLooks ==
    ASSUME TypeInv, RowInv, Looks
    PROVE  RowInv'
<1>0. UNCHANGED <<exec, log, linked, sender>>
  BY QuietExecs DEF Looks, Reconcile, LookAtConnection, AlignConnection, LookAtTasks, FailTasks,
     LookAtLog, Backfill, syncVars, rowVars, requestVars
<1>1. LogsStayEnded
  BY <1>0 DEF LogsStayEnded
<1>2. \A e \in Execs' : Run(e)'.pc \in {"synced", "failed"} => Ended(log'[Row(e)])
  BY <1>0, <1>1, SeenKept
<1>3. \A r \in Requests : /\ sender'[r] \in {"synced", "unsynced"} => Ended(log'[r])
                          /\ linked'[r] => sender'[r] = "over"
  BY <1>0 DEF RowInv
<1>4. /\ RowsTellTheEnd'
      /\ view'.of = "log" /\ view'.status \in {"completed", "failed"} =>
           \A r \in view'.rows : Ended(log'[r])
  <2>1. CASE Reconcile
    BY <1>1, <2>1, RowsKept DEF Reconcile, requestVars
  <2>2. CASE LookAtConnection \/ LookAtTasks \/ AlignConnection
    <3>1. UNCHANGED <<rowVars, copy>> /\ view'.of # "log"
      BY <2>2 DEF LookAtConnection, LookAtTasks, AlignConnection, Reads, Writes, NoView
    <3> QED BY <1>1, <3>1, RowsKept
  <2>3. ASSUME NEW r \in Requests, LookAtLog(r)
        PROVE  /\ RowsTellTheEnd'
               /\ view'.status \in {"completed", "failed"} => \A q \in view'.rows : Ended(log'[q])
    <3>1. /\ UNCHANGED <<rowVars, copy>>
          /\ view' = [of |-> "log", rows |-> {r}, status |-> StatusOfLog(log[r])]
      BY <2>3 DEF LookAtLog, Reads
    <3>2. StatusOfLog(log[r]) \in {"completed", "failed"} => Ended(log[r])
      BY TypeParts DEF StatusOfLog, Ended, RowTypes
    <3> QED BY <1>0, <1>1, <3>1, <3>2, RowsKept
  <2>4. CASE FailTasks
    <3>1. /\ task' = [r \in Requests |-> IF r \in view.rows THEN "failed" ELSE task[r]]
          /\ unsaid' = unsaid \cup {r \in view.rows : linked[r]}
          /\ UNCHANGED copy /\ view'.of # "log"
      BY <2>4, TypeParts DEF FailTasks, Writes, NoView, RequestTypes, ViewFits
    <3> QED BY <1>0, <3>1 DEF RowInv, RowsTellTheEnd
  <2>5. CASE Backfill
    <3>1. /\ copy' = [r \in Requests |-> IF r \in view.rows THEN view.status ELSE copy[r]]
          /\ UNCHANGED rowVars /\ view.of = "log" /\ view'.of # "log"
      BY <2>5 DEF Backfill, Writes, NoView, syncVars
    <3> QED BY <1>0, <3>1 DEF RowInv, RowsTellTheEnd, rowVars
  <2> QED BY <2>1, <2>2, <2>3, <2>4, <2>5 DEF Looks
<1> QED BY <1>2, <1>3, <1>4 DEF RowInv

LEMMA RowsStep ==
    ASSUME TypeInv, PlanInv, RowInv, [Next]_vars
    PROVE  RowInv'
<1>1. CASE UNCHANGED <<exec, log, rowVars, copy, view, sender>>
  <2>1. LogsStayEnded
    BY <1>1 DEF LogsStayEnded
  <2>2. \A e \in Execs' : Run(e)'.pc \in {"synced", "failed"} => Ended(log'[Row(e)])
    BY <1>1, <2>1, SeenKept
  <2> QED BY <1>1, <2>2 DEF RowInv, RowsTellTheEnd, rowVars
<1>2. UNCHANGED vars \/ PlanLockExpires \/ (Expire /\ UNCHANGED requestVars) =>
        UNCHANGED <<exec, log, rowVars, copy, view, sender>>
  BY DEF vars, syncVars, requestVars, PlanLockExpires, Expire
<1> QED BY <1>1, <1>2, NextSplit, RowsWorker, RowsProduces, RowsSends, RowsFires, RowsLooks

LEMMA RowsHold == Spec => []RowInv
<1>1. Init => RowInv
  <2> SUFFICES ASSUME Init PROVE RowInv
    OBVIOUS
  <2>1. /\ Execs = {} /\ view.of = "nothing"
        /\ \A r \in Requests : /\ sender[r] = "none" /\ ~linked[r]
                               /\ task[r] = "none" /\ copy[r] = "none"
    BY InitExecs DEF Init, SyncInit, NoView
  <2> QED BY <2>1 DEF RowInv, RowsTellTheEnd
<1> QED BY <1>1, RowsStep, TypesHold, PlanHolds, PTL DEF Spec

(***************************************************************************)
(* No row runs ahead of its log: a row or a view's copy says how the       *)
(* request ended only when its log has ended, although a row is read long  *)
(* before it is written (tasks.py:277-358), its writes may be lost         *)
(* (tableau_tasks.py:35), and executions may overlap.                      *)
(***************************************************************************)
THEOREM RowsAgreeWithLogs == Spec => []RowsTellTheEnd
<1>1. RowInv => RowsTellTheEnd
  BY DEF RowInv
<1> QED BY <1>1, RowsHold, PTL

-----------------------------------------------------------------------------
(***************************************************************************)
(* What says running.  A log that runs has an execution before its end, or *)
(* its request was lost, or a retry of it skipped.  Once there is a log,   *)
(* that explains a running connection too; before there is one, a request  *)
(* is about to be executed or was lost.                                    *)
(***************************************************************************)
Live == {"queued", "acquired", "logged", "syncing"}

BeforeLogs ==
    /\ \A r \in Requests :
         sender[r] \in {"none", "asking", "accepted", "due", "planned"} => log[r] = "none"
    /\ \A e \in Execs : At(e, "queued") /\ Run(e).retries = 0 =>
         log[Row(e)] = "none" /\ \A d \in Execs : Row(d) = Row(e) => d = e
    /\ \A r \in Requests :
         log[r] # "none" \/ sender[r] \in {"inline", "synced", "unsynced"} => newest # None
    /\ newest = None => \A e \in Execs : Run(e).pc \in {"queued", "acquired", "skipped", "dead"}
    /\ lock # None => Run(lock).pc \notin {"queued", "skipped"}

FirstIsExplained ==
    syncStatus = "running" /\ newest = None => \E r \in Requests : Alive(r) \/ Lost(r)

RunInv == BeforeLogs /\ RunningLogIsExplained /\ FirstIsExplained

\* The three ways to be explained, in terms of the executions.
LEMMA Explanations ==
    ASSUME NEW r \in Requests
    PROVE  /\ Alive(r) <=> \/ sender[r] \in {"accepted", "inline"}
                           \/ \E e \in Execs : Row(e) = r /\ Run(e).pc \in Live
           /\ Lost(r) <=> \/ sender[r] = "lost"
                          \/ \E e \in Execs : Row(e) = r /\ Run(e).pc = "dead"
                          \/ \E f \in Firings : firing[f].pc = "dead" /\ r \in firing[f].rows
           /\ RetrySkipped(r) <=>
                \E e \in Execs : Row(e) = r /\ Run(e).pc = "skipped" /\ Run(e).retries > 0
<1>1. ASSUME NEW labels
      PROVE  RunsAt(r, labels) <=> \E e \in Execs : Row(e) = r /\ Run(e).pc \in labels
  <2>1. RunsAt(r, labels) => \E e \in Execs : Row(e) = r /\ Run(e).pc \in labels
    <3> SUFFICES ASSUME NEW i \in DOMAIN exec[r], exec[r][i].pc \in labels
                 PROVE  \E e \in Execs : Row(e) = r /\ Run(e).pc \in labels
      BY DEF RunsAt
    <3>1. <<r, i>> \in Execs
      BY ExecPlaces
    <3> QED BY <3>1 DEF Row, Run
  <2> QED BY <2>1, ExecPlaces DEF RunsAt, Row, Run
<1>2. RetrySkipped(r) =>
        \E e \in Execs : Row(e) = r /\ Run(e).pc = "skipped" /\ Run(e).retries > 0
  <2> SUFFICES ASSUME NEW i \in DOMAIN exec[r], exec[r][i].pc = "skipped", exec[r][i].retries > 0
               PROVE  \E e \in Execs : Row(e) = r /\ Run(e).pc = "skipped" /\ Run(e).retries > 0
    BY DEF RetrySkipped
  <2>1. <<r, i>> \in Execs
    BY ExecPlaces
  <2> QED BY <2>1 DEF Row, Run
<1>3. (\E e \in Execs : Row(e) = r /\ Run(e).pc = "skipped" /\ Run(e).retries > 0) => RetrySkipped(r)
  BY ExecPlaces DEF RetrySkipped, Row, Run
<1> QED BY <1>1, <1>2, <1>3 DEF Alive, Lost, Live

LEMMA ExplanationsNext ==
    ASSUME NEW r \in Requests
    PROVE  /\ Alive(r)' <=> \/ sender'[r] \in {"accepted", "inline"}
                            \/ \E e \in Execs' : Row(e) = r /\ Run(e)'.pc \in Live
           /\ Lost(r)' <=> \/ sender'[r] = "lost"
                           \/ \E e \in Execs' : Row(e) = r /\ Run(e)'.pc = "dead"
                           \/ \E f \in Firings : firing'[f].pc = "dead" /\ r \in firing'[f].rows
           /\ RetrySkipped(r)' <=>
                \E e \in Execs' : Row(e) = r /\ Run(e)'.pc = "skipped" /\ Run(e)'.retries > 0
<1> DEFINE Three ==
      \A q \in Requests :
           /\ Alive(q) <=> \/ sender[q] \in {"accepted", "inline"}
                           \/ \E e \in Execs : Row(e) = q /\ Run(e).pc \in Live
           /\ Lost(q) <=> \/ sender[q] = "lost"
                          \/ \E e \in Execs : Row(e) = q /\ Run(e).pc = "dead"
                          \/ \E f \in Firings : firing[f].pc = "dead" /\ q \in firing[f].rows
           /\ RetrySkipped(q) <=>
                \E e \in Execs : Row(e) = q /\ Run(e).pc = "skipped" /\ Run(e).retries > 0
<1>1. Three
  BY Explanations
<1>2. Three'
  BY <1>1, PTL
<1> QED BY <1>2 DEF Row

Keeps(r) ==
    /\ Alive(r) => Alive(r)'
    /\ Lost(r) => Lost(r)'
    /\ RetrySkipped(r) => RetrySkipped(r)'

\* Execution e goes on: what that does to the explanations.
LEMMA BecomesKeeps ==
    ASSUME TypeInv, NEW e \in Execs, NEW label, NEW locked, Becomes(e, label, locked),
           Run(e).pc \notin {"dead", "skipped"}, UNCHANGED <<sender, firing>>
    PROVE  /\ \A r \in Requests : r # Row(e) => Keeps(r)
           /\ label \in Live \/ Run(e).pc \notin Live => Keeps(Row(e))
           /\ label \in Live => Alive(Row(e))'
           /\ label = "dead" => Lost(Row(e))'
           /\ label = "skipped" /\ Run(e).retries > 0 => RetrySkipped(Row(e))'
<1>1. Execs' = Execs /\ Row(e) \in Requests
  BY TypeParts, ExecFacts DEF Becomes
<1>2. /\ Run(e)'.pc = label /\ Run(e)'.retries = Run(e).retries
      /\ \A d \in Execs : d # e => Run(d)' = Run(d)
  BY DEF Becomes
<1>3. ASSUME NEW r \in Requests, r # Row(e) PROVE Keeps(r)
  BY <1>1, <1>2, <1>3, Explanations, ExplanationsNext DEF Keeps
<1>4. ASSUME label \in Live \/ Run(e).pc \notin Live PROVE Keeps(Row(e))
  <2>1. Lost(Row(e)) => Lost(Row(e))'
    BY <1>1, <1>2, Explanations, ExplanationsNext
  <2>2. RetrySkipped(Row(e)) => RetrySkipped(Row(e))'
    BY <1>1, <1>2, Explanations, ExplanationsNext
  <2>3. Alive(Row(e)) => Alive(Row(e))'
    BY <1>1, <1>2, <1>4, Explanations, ExplanationsNext
  <2> QED BY <2>1, <2>2, <2>3 DEF Keeps
<1>5. label \in Live => Alive(Row(e))'
  BY <1>1, <1>2, ExplanationsNext
<1>6. label = "dead" => Lost(Row(e))'
  BY <1>1, <1>2, ExplanationsNext
<1>7. label = "skipped" /\ Run(e).retries > 0 => RetrySkipped(Row(e))'
  BY <1>1, <1>2, ExplanationsNext
<1> QED BY <1>3, <1>4, <1>5, <1>6, <1>7

LEMMA RetriesKeep ==
    ASSUME TypeInv, NEW e \in Execs, Retries(e), Run(e).pc \in AtWork, UNCHANGED <<sender, firing>>
    PROVE  /\ \A r \in Requests : Keeps(r)
           /\ Alive(Row(e))'
<1>0. Row(e) \in Requests
  BY TypeParts, ExecFacts
<1>1. PICK new : Adds(new, Row(e), Run(e).retries + 1)
  BY DEF Retries
<1>2. /\ Execs' = Execs \cup new /\ new # {}
      /\ \A d \in new : Row(d) = Row(e) /\ Run(d)'.pc = "queued"
  BY <1>1 DEF Adds, Message
<1>3. Alive(Row(e))'
  BY <1>0, <1>2, ExplanationsNext DEF Live
<1>4. ASSUME NEW r \in Requests PROVE Keeps(r)
  <2>1. Lost(r) => Lost(r)'
    BY <1>2, Explanations, ExplanationsNext DEF Retries, AtWork
  <2>2. RetrySkipped(r) => RetrySkipped(r)'
    BY <1>2, Explanations, ExplanationsNext DEF Retries, AtWork
  <2>3. Alive(r) /\ r # Row(e) => Alive(r)'
    BY <1>2, Explanations, ExplanationsNext DEF Retries
  <2> QED BY <1>3, <2>1, <2>2, <2>3 DEF Keeps
<1> QED BY <1>3, <1>4

\* A producer goes on.
LEMMA SenderKeeps ==
    ASSUME TypeInv, NEW r \in Requests, NEW label, UNCHANGED <<exec, firing>>,
           sender' = [sender EXCEPT ![r] = label], sender[r] # "lost"
    PROVE  /\ \A q \in Requests : q # r => Keeps(q)
           /\ (sender[r] \in {"accepted", "inline"} => label \in {"accepted", "inline"}) => Keeps(r)
           /\ label \in {"accepted", "inline"} => Alive(r)'
           /\ label = "lost" => Lost(r)'
<1>1. Execs' = Execs /\ \A d \in Execs : Run(d)' = Run(d)
  BY DEF Execs, Run
<1>2. sender'[r] = label /\ \A q \in Requests : q # r => sender'[q] = sender[q]
  BY TypeParts DEF RequestTypes
<1>3. \A q \in Requests : q # r => Keeps(q)
  BY <1>1, <1>2, Explanations, ExplanationsNext DEF Keeps
<1>4. (sender[r] \in {"accepted", "inline"} => label \in {"accepted", "inline"}) => Keeps(r)
  BY <1>1, <1>2, Explanations, ExplanationsNext DEF Keeps
<1>5. /\ label \in {"accepted", "inline"} => Alive(r)'
      /\ label = "lost" => Lost(r)'
  BY <1>2, ExplanationsNext
<1> QED BY <1>3, <1>4, <1>5

-----------------------------------------------------------------------------
(* Before there is a log.                                                  *)

\* Nothing says running without being explained, if the explanations are kept.
LEMMA RunningKept ==
    ASSUME RunInv, BeforeLogs',
           \A r \in Requests : log'[r] = "running" =>
              \/ Alive(r)' \/ Lost(r)' \/ RetrySkipped(r)'
              \/ log[r] = "running" /\ Keeps(r),
           syncStatus' = "running" /\ newest' = None =>
              \/ \E r \in Requests : Alive(r)' \/ Lost(r)'
              \/ newest = None /\ syncStatus = "running" /\ \A r \in Requests : Keeps(r)
    PROVE  RunInv'
<1>1. RunningLogIsExplained'
  BY DEF RunInv, RunningLogIsExplained, Keeps
<1>2. FirstIsExplained'
  BY DEF RunInv, FirstIsExplained, Keeps
<1> QED BY <1>1, <1>2 DEF RunInv

LEMMA LogsOfOthers ==
    ASSUME TypeInv, NEW r \in Requests,
           LogOpened(r) \/ (Synced(r) /\ UNCHANGED newest)
              \/ (log' = LogFailed(r) /\ UNCHANGED newest) \/ UNCHANGED <<log, newest>>
    PROVE  /\ \A q \in Requests : q # r => log'[q] = log[q]
           /\ newest # None => newest' # None
           /\ LogOpened(r) => log'[r] # "none" /\ (log[r] # "none" /\ newest # None => newest' # None)
                              /\ (log[r] = "none" => newest' # None)
BY NoneAssumption, TypeParts DEF RowTypes, LogOpened, Synced, LogFailed

LEMMA WorkerLogs ==
    ASSUME NEW e, Shape(e)
    PROVE  \/ LogOpened(Row(e)) \/ (Synced(Row(e)) /\ UNCHANGED newest)
           \/ (log' = LogFailed(Row(e)) /\ UNCHANGED newest) \/ UNCHANGED <<log, newest>>
BY DEF Shape, Acquire, Skip, GoWithoutLock, Begin, Link, Finish, Complete, RetryAfterError,
   RetryAfterConnect, Fail, ReportFailure, Release, WorkerStops, WorkerBreaks

LEMMA BeforeLogsWorker ==
    ASSUME TypeInv, PlanInv, RunInv, NEW e \in Execs, Worker(e)
    PROVE  BeforeLogs'
<1>0. /\ Shape(e) /\ UNCHANGED sender /\ Row(e) \in Requests /\ sender[Row(e)] = "over"
      /\ Run(e) \in Messages /\ \A d \in Execs : Row(d) \in Requests /\ Run(d) \in Messages
  BY TypeParts, WorkerShape, ExecFacts DEF Worker, requestVars, PlanInv, SentWhenOver
<1>1. /\ \A q \in Requests : q # Row(e) => log'[q] = log[q]
      /\ newest # None => newest' # None
  BY <1>0, WorkerLogs, LogsOfOthers
<1>2. \A r \in Requests :
         sender'[r] \in {"none", "asking", "accepted", "due", "planned"} => log'[r] = "none"
  BY <1>0, <1>1 DEF RunInv, BeforeLogs
<1>3. \A d \in Execs : Run(d)'.retries = Run(d).retries
                       /\ (Run(d)'.pc = "queued" => Run(d).pc = "queued" /\ d # e)
  BY <1>0 DEF Shape, Becomes, Retries
<1>4. \A d \in Execs' \ Execs : Row(d) = Row(e) /\ Run(d)'.retries # 0 /\ Run(d)'.pc = "queued"
  <2>1. CASE Retries(e)
    <3>1. PICK new : Adds(new, Row(e), Run(e).retries + 1)
      BY <2>1 DEF Retries
    <3>2. \A d \in new : Row(d) = Row(e) /\ Run(d)'.retries # 0 /\ Run(d)'.pc = "queued"
      BY <1>0, <3>1, RetriesAssumption DEF Adds, Message, Messages
    <3> QED BY <3>1, <3>2 DEF Adds
  <2>2. CASE Execs' = Execs
    BY <2>2
  <2> QED BY <1>0, <2>1, <2>2 DEF Shape, Becomes
<1>5. \A d \in Execs' : At(d, "queued")' /\ Run(d)'.retries = 0 =>
         log'[Row(d)] = "none" /\ \A c \in Execs' : Row(c) = Row(d) => c = d
  <2> SUFFICES ASSUME NEW d \in Execs', Run(d)'.pc = "queued", Run(d)'.retries = 0
               PROVE  log'[Row(d)] = "none" /\ \A c \in Execs' : Row(c) = Row(d) => c = d
    BY DEF At
  <2>1. d \in Execs /\ d # e /\ Run(d).pc = "queued" /\ Run(d).retries = 0
    BY <1>3, <1>4
  <2>2. log[Row(d)] = "none" /\ \A c \in Execs : Row(c) = Row(d) => c = d
    BY <2>1 DEF RunInv, BeforeLogs, At
  <2>3. Row(d) # Row(e)
    BY <2>1, <2>2
  <2> QED BY <1>0, <1>1, <1>4, <2>1, <2>2, <2>3
<1>6. \A r \in Requests :
         log'[r] # "none" \/ sender'[r] \in {"inline", "synced", "unsynced"} => newest' # None
  <2> SUFFICES ASSUME newest' = None, NEW r \in Requests
               PROVE  log'[r] = "none" /\ sender'[r] \notin {"inline", "synced", "unsynced"}
    OBVIOUS
  <2>1. newest = None
    BY <1>1
  <2>2. log[r] = "none" /\ sender[r] \notin {"inline", "synced", "unsynced"}
    BY <2>1 DEF RunInv, BeforeLogs
  <2>3. Run(e).pc \in {"queued", "acquired", "dead", "skipped"}
    BY <2>1 DEF RunInv, BeforeLogs
  <2>4. Begin(e) \/ UNCHANGED log
    BY <1>0, <2>3 DEF Shape, Acquire, Skip, GoWithoutLock, Link, Finish, Complete, At,
       RetryAfterError, RetryAfterConnect, Fail, ReportFailure, Release, WorkerStops, WorkerBreaks
  <2>5. ~Begin(e)
    BY <1>0, <2>1, NoneAssumption DEF Begin, LogOpened, RunInv, BeforeLogs
  <2> QED BY <1>0, <2>2, <2>4, <2>5
<1>7. newest' = None => \A d \in Execs' : Run(d)'.pc \in {"queued", "acquired", "skipped", "dead"}
  <2> SUFFICES ASSUME newest' = None
               PROVE  \A d \in Execs' : Run(d)'.pc \in {"queued", "acquired", "skipped", "dead"}
    OBVIOUS
  <2>1. newest = None
    BY <1>1
  <2>2. \A d \in Execs : Run(d).pc \in {"queued", "acquired", "skipped", "dead"}
    BY <2>1 DEF RunInv, BeforeLogs
  <2>3. ~Begin(e)
    BY <1>0, <2>1, NoneAssumption DEF Begin, LogOpened, RunInv, BeforeLogs
  <2>4. \E label \in {"acquired", "skipped", "dead"} : \E locked : Becomes(e, label, locked)
    BY <1>0, <2>2, <2>3 DEF Shape, Link, Finish, Complete, At, RetryAfterError,
       RetryAfterConnect, Fail, ReportFailure, Release
  <2> QED BY <2>2, <2>4 DEF Becomes
<1>8. (lock # None => Run(lock).pc \notin {"queued", "skipped"})'
  <2>0. PICK l : l = lock'
    OBVIOUS
  <2>1. ASSUME l = lock, l # None PROVE Run(l)'.pc \notin {"queued", "skipped"}
    <3>1. l \in Execs /\ Run(l).pc \notin {"queued", "skipped"}
      BY <2>1, TypeParts DEF RunInv, BeforeLogs
    <3>2. ASSUME l # e PROVE Run(l)' = Run(l)
      BY <1>0, <3>1, <3>2 DEF Shape, Becomes, Retries
    <3>3. ASSUME l = e PROVE Run(e)'.pc \notin {"queued", "skipped"}
      <4>1. ~Skip(e) /\ Run(e)'.pc # "queued"
        BY <1>3, <3>1, <3>3 DEF Skip, Due, At
      <4>2. Run(e)'.pc # "skipped"
        BY <1>0, <4>1 DEF Shape, Becomes, Retries
      <4> QED BY <4>1, <4>2
    <3> QED BY <3>1, <3>2, <3>3
  <2>2. ASSUME l = e, Becomes(e, "acquired", TRUE) \/ Becomes(e, "acquired", Run(e).locked)
        PROVE  Run(e)'.pc \notin {"queued", "skipped"}
    BY <2>2 DEF Becomes
  <2>3. \/ l = lock \/ l = None
        \/ l = e /\ (Becomes(e, "acquired", TRUE) \/ Becomes(e, "acquired", Run(e).locked))
    BY <1>0, <2>0 DEF Shape, Acquire, Skip, SkipLeavesLock, GoWithoutLock, Begin, Link, Finish, Complete,
       RetryAfterError, RetryAfterConnect, Fail, ReportFailure, Release, WorkerStops, WorkerBreaks
  <2>4. l # None => Run(l)'.pc \notin {"queued", "skipped"}
    BY <2>1, <2>2, <2>3
  <2> QED BY <2>0, <2>4 DEF Run
<1> QED BY <1>2, <1>5, <1>6, <1>7, <1>8 DEF BeforeLogs

\* A step of a worker, which has request Row(e) in its hands.
LEMMA OthersRun ==
    ASSUME TypeInv, RunInv, BeforeLogs', NEW r \in Requests,
           \A q \in Requests : q # r => Keeps(q) /\ log'[q] = log[q],
           log'[r] = "running" =>
              Alive(r)' \/ Lost(r)' \/ RetrySkipped(r)' \/ (log[r] = "running" /\ Keeps(r)),
           syncStatus' = "running" /\ newest' = None =>
              \/ \E q \in Requests : Alive(q)' \/ Lost(q)'
              \/ newest = None /\ syncStatus = "running" /\ Keeps(r)
    PROVE  RunInv'
<1>1. \A q \in Requests : log'[q] = "running" =>
        Alive(q)' \/ Lost(q)' \/ RetrySkipped(q)' \/ (log[q] = "running" /\ Keeps(q))
  OBVIOUS
<1>2. syncStatus' = "running" /\ newest' = None =>
        \/ \E q \in Requests : Alive(q)' \/ Lost(q)'
        \/ newest = None /\ syncStatus = "running" /\ \A q \in Requests : Keeps(q)
  OBVIOUS
<1> QED BY <1>1, <1>2, RunningKept

\* A first message that finds the lock taken meets whoever synchronises; a retry
\* is skipped, and says so.
LEMMA SkipExplained ==
    ASSUME TypeInv, RunInv, NEW e \in Execs, Skip(e), Becomes(e, "skipped", Run(e).locked),
           UNCHANGED requestVars
    PROVE  /\ log'[Row(e)] = "running" => RetrySkipped(Row(e))'
           /\ newest' = None => \E q \in Requests : Alive(q)' \/ Lost(q)'
<1>0. /\ Row(e) \in Requests /\ Run(e) \in Messages /\ Run(e).pc = "queued"
      /\ UNCHANGED <<log, newest, sender, firing>>
  BY TypeParts, ExecFacts DEF Skip, Due, At, requestVars
<1>1. log'[Row(e)] = "running" => RetrySkipped(Row(e))'
  <2>1. Run(e).retries = 0 => log[Row(e)] = "none"
    BY <1>0 DEF RunInv, BeforeLogs, At
  <2>2. Run(e).retries > 0 => RetrySkipped(Row(e))'
    BY <1>0, BecomesKeeps
  <2>3. Run(e).retries \in Nat
    BY <1>0, RetriesAssumption DEF Messages
  <2> QED BY <1>0, <2>1, <2>2, <2>3
<1>2. ASSUME newest' = None PROVE \E q \in Requests : Alive(q)' \/ Lost(q)'
  <2>1. PICK d \in Execs : d = lock
    BY TypeParts DEF Skip, LockIsFree
  <2>2. d # e /\ Run(d).pc \in {"acquired", "dead"} /\ Row(d) \in Requests
    BY <1>0, <1>2, <2>1, TypeParts, ExecFacts DEF RunInv, BeforeLogs
  <2>3. d \in Execs' /\ Run(d)' = Run(d)
    BY <2>2 DEF Becomes
  <2>4. Alive(Row(d))' \/ Lost(Row(d))'
    BY <2>2, <2>3, ExplanationsNext DEF Live
  <2> QED BY <2>2, <2>4
<1> QED BY <1>1, <1>2

LEMMA RunningWorker ==
    ASSUME TypeInv, PlanInv, RowInv, RunInv, NEW e \in Execs, Worker(e)
    PROVE  RunInv'
<1>0. /\ Shape(e) /\ UNCHANGED <<sender, firing, requestVars>> /\ Row(e) \in Requests
      /\ BeforeLogs' /\ \A q \in Requests : q # Row(e) => log'[q] = log[q]
  BY TypeParts, WorkerShape, ExecFacts, BeforeLogsWorker, WorkerLogs, LogsOfOthers
     DEF Worker, requestVars
<1>1. ASSUME NEW label \in {"acquired", "logged", "syncing", "dead"}, NEW locked,
             Becomes(e, label, locked), Run(e).pc \notin {"dead", "skipped"}
      PROVE  RunInv'
  <2>1. \A q \in Requests : q # Row(e) => Keeps(q)
    BY <1>0, <1>1, BecomesKeeps
  <2>2. Alive(Row(e))' \/ Lost(Row(e))'
    BY <1>0, <1>1, BecomesKeeps DEF Live
  <2> QED BY <1>0, <2>1, <2>2, OthersRun
<1>2. CASE Retries(e) /\ Run(e).pc \in AtWork
  BY <1>0, <1>2, RetriesKeep, OthersRun
<1>3. ASSUME NEW label, NEW locked, Becomes(e, label, locked), Run(e).pc \in AtWork,
             log'[Row(e)] # "running", syncStatus' # "running" \/ newest' # None
      PROVE  RunInv'
  <2>1. \A q \in Requests : q # Row(e) => Keeps(q)
    BY <1>0, <1>3, BecomesKeeps DEF AtWork
  <2> QED BY <1>0, <1>3, <2>1, OthersRun
<1>4. CASE (Finish(e) \/ Fail(e)) /\ \E label, locked : Becomes(e, label, locked)
  <2>1. log'[Row(e)] # "running" /\ syncStatus' # "running"
    BY <1>0, <1>4, TypeParts DEF Finish, Fail, Synced, LogFailed, RowTypes
  <2> QED BY <1>3, <1>4, <2>1 DEF Finish, Fail, At, AtWork
<1>5. CASE (Complete(e) \/ ReportFailure(e)) /\ \E label, locked : Becomes(e, label, locked)
  <2>1. Run(e).pc \in {"synced", "failed"} /\ UNCHANGED <<log, newest>>
    BY <1>5 DEF Complete, ReportFailure, At
  <2>2. log'[Row(e)] # "running" /\ newest' # None
    BY <2>1 DEF RowInv, Ended, RunInv, BeforeLogs
  <2> QED BY <1>3, <1>5, <2>1, <2>2 DEF AtWork
<1>6. CASE Release(e) /\ Becomes(e, "over", FALSE)
  <2>1. Run(e).pc = "releasing" /\ UNCHANGED <<log, newest, syncStatus>>
    BY <1>6 DEF Release, At
  <2>2. Run(e).pc \notin Live /\ Run(e).pc \notin {"dead", "skipped"}
    BY <2>1 DEF Live
  <2>3. \A q \in Requests : Keeps(q)
    BY <1>0, <1>6, <2>2, BecomesKeeps
  <2> QED BY <1>0, <2>1, <2>3, OthersRun
<1>7. CASE Skip(e) /\ Becomes(e, "skipped", Run(e).locked)
  <2>1. \A q \in Requests : q # Row(e) => Keeps(q)
    BY <1>0, <1>7, BecomesKeeps DEF Skip, Due, At
  <2> QED BY <1>0, <1>7, <2>1, SkipExplained, OthersRun
<1>8. Due(e) => Run(e).pc = "queued"
  BY DEF Due, At
<1>9. RetryAfterError(e) \/ RetryAfterConnect(e) => Run(e).pc \in AtWork
  BY DEF RetryAfterError, RetryAfterConnect, At, AtWork
<1>10. Acquire(e) \/ GoWithoutLock(e) \/ Begin(e) \/ Link(e) \/ WorkerStops(e) \/ WorkerBreaks(e) =>
         Run(e).pc \notin {"dead", "skipped"}
  BY <1>8 DEF Acquire, GoWithoutLock, Begin, Link, WorkerStops, WorkerBreaks, At, AtWork
<1> QED BY <1>0, <1>1, <1>2, <1>4, <1>5, <1>6, <1>7, <1>9, <1>10 DEF Shape

LEMMA BeforeLogsQuiet ==
    ASSUME TypeInv, PlanInv, RunInv, UNCHANGED <<exec, lock>>,
           newest # None => newest' # None,
           \A q \in Requests :
              /\ sender'[q] \in {"none", "asking", "accepted", "due", "planned"} => log'[q] = "none"
              /\ sender[q] = "over" => log'[q] = log[q]
              /\ log'[q] # "none" \/ sender'[q] \in {"inline", "synced", "unsynced"} => newest' # None
    PROVE  BeforeLogs'
<1>1. /\ Execs' = Execs
      /\ \A d \in Execs : /\ Run(d)' = Run(d) /\ At(d, "queued")' = At(d, "queued")
                          /\ Row(d) \in Requests /\ sender[Row(d)] = "over"
  BY TypeParts, ExecFacts DEF Execs, Run, At, PlanInv, SentWhenOver
<1>2. \A e \in Execs' : At(e, "queued")' /\ Run(e)'.retries = 0 =>
        log'[Row(e)] = "none" /\ \A d \in Execs' : Row(d) = Row(e) => d = e
  BY <1>1 DEF RunInv, BeforeLogs
<1>3. newest' = None => \A e \in Execs' : Run(e)'.pc \in {"queued", "acquired", "skipped", "dead"}
  BY <1>1 DEF RunInv, BeforeLogs
<1>4. (lock # None => Run(lock).pc \notin {"queued", "skipped"})'
  BY DEF RunInv, BeforeLogs, Run
<1> QED BY <1>2, <1>3, <1>4 DEF BeforeLogs

LEMMA RunningProduces ==
    ASSUME TypeInv, PlanInv, RowInv, RunInv, NEW r \in Requests, Produces(r)
    PROVE  RunInv'
<1> DEFINE Opened == log[r] # "none" \/ sender[r] \in {"inline", "synced", "unsynced"}
<1>0. UNCHANGED <<exec, lock>> /\ (Opened => newest # None)
  BY QuietExecs DEF RunInv, BeforeLogs
<1>1. ASSUME NEW label \in {"asking", "due", "planned"}, sender[r] \in {"none"},
             sender' = [sender EXCEPT ![r] = label], UNCHANGED <<syncStatus, log, newest, firing>>
      PROVE  RunInv'
  <2>1. \A q \in Requests : Keeps(q)
    BY <1>0, <1>1, SenderKeeps
  <2>2. BeforeLogs'
    BY <1>0, <1>1, BeforeLogsQuiet DEF RunInv, BeforeLogs
  <2> QED BY <1>1, <2>1, <2>2, OthersRun
<1>2. ASSUME NEW label \in {"accepted", "inline", "lost"}, sender[r] # "lost", sender[r] # "over",
             sender' = [sender EXCEPT ![r] = label], UNCHANGED firing,
             LogOpened(r) \/ UNCHANGED <<log, newest>>,
             label = "inline" => LogOpened(r) /\ sender[r] = "accepted",
             label = "accepted" => sender[r] = "asking" /\ UNCHANGED <<log, newest>>
      PROVE  RunInv'
  <2>1. /\ \A q \in Requests : q # r => Keeps(q)
        /\ Alive(r)' \/ Lost(r)'
    BY <1>0, <1>2, SenderKeeps
  <2>2. \A q \in Requests : q # r => log'[q] = log[q]
    BY <1>2, LogsOfOthers
  <2>3. /\ sender'[r] = label /\ \A q \in Requests : q # r => sender'[q] = sender[q]
        /\ newest # None => newest' # None
    BY <1>2, TypeParts, LogsOfOthers DEF RequestTypes
  <2>4. log'[r] # "none" \/ label = "inline" => newest' # None
    BY <1>0, <1>2, LogsOfOthers DEF RunInv, BeforeLogs
  <2>5. label = "accepted" => log'[r] = "none"
    BY <1>2 DEF RunInv, BeforeLogs
  <2>6. BeforeLogs'
    BY <1>0, <1>2, <2>2, <2>3, <2>4, <2>5, BeforeLogsQuiet DEF RunInv, BeforeLogs
  <2> QED BY <2>1, <2>2, <2>6, OthersRun
<1>3. ASSUME NEW label \in {"synced", "unsynced", "over"}, sender[r] \in {"inline", "synced", "unsynced"},
             sender' = [sender EXCEPT ![r] = label], UNCHANGED <<newest, firing>>,
             Synced(r) \/ log' = LogFailed(r) \/ UNCHANGED log,
             log'[r] # "running"
      PROVE  RunInv'
  <2>1. \A q \in Requests : q # r => Keeps(q)
    BY <1>0, <1>3, SenderKeeps
  <2>2. \A q \in Requests : q # r => log'[q] = log[q]
    BY <1>3, LogsOfOthers
  <2>3. sender'[r] = label /\ \A q \in Requests : q # r => sender'[q] = sender[q]
    BY <1>3, TypeParts DEF RequestTypes
  <2>4. newest' # None
    BY <1>0, <1>3
  <2>5. BeforeLogs'
    BY <1>0, <1>3, <2>2, <2>3, <2>4, BeforeLogsQuiet DEF RunInv, BeforeLogs
  <2> QED BY <1>3, <2>1, <2>2, <2>4, <2>5, OthersRun
<1>4. CASE Ask(r) \/ Beat(r) \/ Plan(r)
  <2>1. /\ sender[r] \in {"none"} /\ UNCHANGED <<syncStatus, log, newest, firing>>
        /\ \E label \in {"asking", "due", "planned"} : sender' = [sender EXCEPT ![r] = label]
    BY <1>4 DEF Ask, Beat, Plan, New, Sends, syncVars
  <2> QED BY <1>1, <2>1
<1>5. CASE Accept(r) \/ InlineBegin(r) \/ AcceptFails(r) \/ SubmitFails(r) \/ ApiDies(r)
  <2>1. /\ sender[r] # "lost" /\ sender[r] # "over" /\ UNCHANGED firing
        /\ LogOpened(r) \/ UNCHANGED <<log, newest>>
        /\ \E label \in {"accepted", "inline", "lost"} :
             /\ sender' = [sender EXCEPT ![r] = label]
             /\ label = "inline" => LogOpened(r) /\ sender[r] = "accepted"
             /\ label = "accepted" => sender[r] = "asking" /\ UNCHANGED <<log, newest>>
    BY <1>5 DEF Accept, InlineBegin, AcceptFails, SubmitFails, ApiDies, Sends
  <2> QED BY <1>2, <2>1
<1>6. CASE InlineEnd(r) \/ InlineFails(r) \/ InlineReport(r)
  <2>1. /\ sender[r] \in {"inline", "synced", "unsynced"} /\ UNCHANGED <<newest, firing>>
        /\ Synced(r) \/ log' = LogFailed(r) \/ UNCHANGED log
        /\ \E label \in {"synced", "unsynced", "over"} : sender' = [sender EXCEPT ![r] = label]
    BY <1>6 DEF InlineEnd, InlineFails, InlineReport, Sends
  <2>2. log'[r] # "running"
    <3>1. CASE InlineReport(r)
      BY <3>1 DEF InlineReport, RowInv, Ended
    <3>2. CASE Synced(r) \/ log' = LogFailed(r)
      BY <3>2, TypeParts DEF Synced, LogFailed, RowTypes
    <3> QED BY <1>6, <3>1, <3>2 DEF InlineEnd, InlineFails
  <2> QED BY <1>3, <2>1, <2>2
<1> QED BY <1>4, <1>5, <1>6 DEF Produces

\* The first message of a request, before which it had neither log nor execution.
LEMMA RunningSends ==
    ASSUME TypeInv, PlanInv, RunInv, NEW r \in Requests,
           Submit(r) \/ \E f \in Firings : Dispatch(f, r)
    PROVE  RunInv'
<1>1. /\ UNCHANGED <<lock, log, newest, syncStatus>>
      /\ sender[r] \in {"accepted", "due", "planned"} /\ sender' = [sender EXCEPT ![r] = "over"]
      /\ \A f \in Firings : firing[f].pc = "dead" => firing'[f] = firing[f]
  BY TypeParts DEF Submit, Dispatch, Sends, Firing, PlanInv, FiringsHold, RequestTypes
<1>2. PICK new : Adds({new}, r, 0)
  BY OpensTypes DEF Opens
<1>3. /\ Execs' = Execs \cup {new} /\ Row(new) = r /\ new \notin Execs
      /\ Run(new)'.pc = "queued"
  BY <1>2 DEF Adds, Message
<1>4. \A d \in Execs : Row(d) # r /\ Row(d) \in Requests /\ Run(d)' = Run(d)
  BY <1>1, FreshRequest, OpensTypes, TypeParts, ExecFacts DEF Opens
<1>5. sender'[r] = "over" /\ \A q \in Requests : q # r => sender'[q] = sender[q]
  BY <1>1, TypeParts DEF RequestTypes
<1>6. Alive(r)'
  BY <1>3, ExplanationsNext DEF Live
<1>7. \A q \in Requests : q # r => Keeps(q)
  BY <1>1, <1>3, <1>4, <1>5, Explanations, ExplanationsNext DEF Keeps
<1>8. log[r] = "none"
  BY <1>1 DEF RunInv, BeforeLogs
<1>9. BeforeLogs'
  <2>1. \A q \in Requests :
          /\ sender'[q] \in {"none", "asking", "accepted", "due", "planned"} => log'[q] = "none"
          /\ log'[q] # "none" \/ sender'[q] \in {"inline", "synced", "unsynced"} => newest' # None
    BY <1>1, <1>5 DEF RunInv, BeforeLogs
  <2>2. \A e \in Execs' : At(e, "queued")' /\ Run(e)'.retries = 0 =>
          log'[Row(e)] = "none" /\ \A d \in Execs' : Row(d) = Row(e) => d = e
    BY <1>1, <1>3, <1>4, <1>8 DEF RunInv, BeforeLogs, At
  <2>3. newest' = None => \A e \in Execs' : Run(e)'.pc \in {"queued", "acquired", "skipped", "dead"}
    BY <1>1, <1>3, <1>4 DEF RunInv, BeforeLogs
  <2>4. (lock # None => Run(lock).pc \notin {"queued", "skipped"})'
    <3>1. PICK l : l = lock
      OBVIOUS
    <3>2. l # None => l \in Execs /\ Run(l).pc \notin {"queued", "skipped"}
      BY <3>1, TypeParts DEF RunInv, BeforeLogs
    <3>3. l # None => Run(l)'.pc \notin {"queued", "skipped"}
      BY <1>4, <3>2
    <3> QED BY <1>1, <3>1, <3>3 DEF Run
  <2> QED BY <2>1, <2>2, <2>3, <2>4 DEF BeforeLogs
<1> QED BY <1>1, <1>6, <1>7, <1>8, <1>9, OthersRun

\* The steps of a firing, and of the views, touch no execution and no log.
LEMMA RunningQuiet ==
    ASSUME TypeInv, PlanInv, RunInv, UNCHANGED <<exec, log, newest>>,
           lock' = lock \/ lock' = None, syncStatus' \in {syncStatus, "resting"},
           \A q \in Requests : sender'[q] = sender[q] \/ (sender[q] = "planned" /\ sender'[q] = "over"),
           \A f \in Firings : firing[f].pc = "dead" => firing'[f] = firing[f]
    PROVE  RunInv'
<1>1. /\ Execs' = Execs
      /\ \A d \in Execs : Run(d)' = Run(d) /\ At(d, "queued")' = At(d, "queued")
  BY DEF Execs, Run, At
<1>2. \A q \in Requests : Keeps(q)
  BY <1>1, Explanations, ExplanationsNext DEF Keeps
<1>3. (lock # None => Run(lock).pc \notin {"queued", "skipped"})'
  BY DEF RunInv, BeforeLogs, Run
<1>4. BeforeLogs'
  <2>1. \A q \in Requests :
          /\ sender'[q] \in {"none", "asking", "accepted", "due", "planned"} => log'[q] = "none"
          /\ log'[q] # "none" \/ sender'[q] \in {"inline", "synced", "unsynced"} => newest' # None
    BY DEF RunInv, BeforeLogs
  <2>2. \A e \in Execs' : At(e, "queued")' /\ Run(e)'.retries = 0 =>
          log'[Row(e)] = "none" /\ \A d \in Execs' : Row(d) = Row(e) => d = e
    BY <1>1 DEF RunInv, BeforeLogs
  <2>3. newest' = None => \A e \in Execs' : Run(e)'.pc \in {"queued", "acquired", "skipped", "dead"}
    BY <1>1 DEF RunInv, BeforeLogs
  <2> QED BY <1>3, <2>1, <2>2, <2>3 DEF BeforeLogs
<1> QED BY <1>2, <1>4, RunningKept

LEMMA RunningFires ==
    ASSUME TypeInv, PlanInv, RunInv, NEW f \in Firings, Fires(f)
    PROVE  RunInv'
<1>1. UNCHANGED <<exec, lock, log, newest, syncStatus>>
  BY QuietExecs DEF Fires, Fire, TakeRows, FiringEnds, FiringDies, DispatchFails, syncVars
<1>2. \A q \in Requests : sender'[q] = sender[q] \/ (sender[q] = "planned" /\ sender'[q] = "over")
  BY TypeParts DEF Fires, Fire, TakeRows, FiringEnds, FiringDies, DispatchFails, Sends,
     RequestTypes, PlanInv, FiringsHold
<1>3. \E place : firing' = [firing EXCEPT ![f] = place] /\ firing[f].pc # "dead"
  BY DEF Fires, Fire, TakeRows, FiringEnds, FiringDies, DispatchFails, Firing
<1>4. \A g \in Firings : firing[g].pc = "dead" => firing'[g] = firing[g]
  BY <1>3, TypeParts DEF RequestTypes
<1> QED BY <1>1, <1>2, <1>4, RunningQuiet

LEMMA RunningStep ==
    ASSUME TypeInv, PlanInv, RowInv, RunInv, [Next]_vars
    PROVE  RunInv'
<1>1. CASE UNCHANGED vars \/ PlanLockExpires \/ (Expire /\ UNCHANGED requestVars) \/ Looks
  <2>1. UNCHANGED <<exec, log, newest, sender, firing>>
    BY <1>1 DEF vars, syncVars, requestVars, PlanLockExpires, Expire, Looks, Reconcile,
       LookAtConnection, AlignConnection, LookAtTasks, FailTasks, LookAtLog, Backfill
  <2>2. lock' = lock \/ lock' = None
    BY <1>1, QuietExecs DEF vars, syncVars, Expire
  <2>3. syncStatus' \in {syncStatus, "resting"}
    BY <1>1, TypeParts DEF vars, syncVars, PlanLockExpires, Expire, Looks, Reconcile, Writes,
       LookAtConnection, AlignConnection, LookAtTasks, FailTasks, LookAtLog, Backfill,
       RequestTypes, ViewFits
  <2> QED BY <2>1, <2>2, <2>3, RunningQuiet
<1> QED BY <1>1, NextSplit, RunningWorker, RunningProduces, RunningSends, RunningFires

LEMMA RunHolds == Spec => []RunInv
<1>1. Init => RunInv
  <2> SUFFICES ASSUME Init PROVE RunInv
    OBVIOUS
  <2>1. /\ Execs = {} /\ lock = None /\ newest = None /\ syncStatus = "resting"
        /\ \A r \in Requests : sender[r] = "none" /\ log[r] = "none"
    BY InitExecs DEF Init, SyncInit
  <2> QED BY <2>1 DEF RunInv, BeforeLogs, RunningLogIsExplained, FirstIsExplained
<1> QED BY <1>1, RunningStep, TypesHold, PlanHolds, RowsHold, PTL DEF Spec

(***************************************************************************)
(* What says running, a log or the connection, has an execution that will  *)
(* end it, or lost one, or a retry that was skipped; or the next look at   *)
(* the connections frees it (app/api/tableau.py:361-399).                  *)
(***************************************************************************)
THEOREM RunningExplained == Spec => []RunningIsExplained
<1>1. ASSUME TypeInv, RunInv, syncStatus = "running", newest # None, ~NewestEnded
      PROVE  log[newest] = "running" /\ newest \in Requests
  BY <1>1, TypeParts DEF NewestEnded, RowTypes
<1>2. TypeInv /\ RunInv => RunningIsExplained
  BY <1>1 DEF RunInv, RunningIsExplained, RunningLogIsExplained, FirstIsExplained,
     RunningConnectionIsExplained
<1> QED BY <1>2, TypesHold, RunHolds, PTL
=============================================================================

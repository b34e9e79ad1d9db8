-------------------------- MODULE DqcCycle_proofs --------------------------
(***************************************************************************)
(* Proofs about the quality cycles (DqcCycle): for any assets, rules,      *)
(* cycles and scopes and any number of faults, what a key protects, in     *)
(* which order snapshots follow each other, and what is announced of them. *)
(*                                                                         *)
(* What the signal of an asset is plays no part: it is any value.          *)
(***************************************************************************)
EXTENDS DqcCycle, FiniteSetTheorems, FunctionTheorems, WellFoundedInduction, TLAPS

IsSnapshot(s) ==
    /\ s = [cycle |-> s.cycle, asset |-> s.asset, at |-> s.at, scores |-> s.scores,
            signal |-> s.signal, prev |-> s.prev, prevAt |-> s.prevAt]
    /\ s.cycle \in Cycles /\ s.asset \in Assets /\ s.prevAt \in Nat /\ s.at \in 1..clock
Announced(s) == Announcements(s.prev, s.signal)

Places ==
    /\ stage \in [Cycles -> Stages] /\ todo \in [Cycles -> SUBSET Assets]
    /\ DOMAIN work = Cycles
Queues == due \in [Cycles -> Seq(EventKinds)]
Locks == DOMAIN lock = Keys /\ \A k \in Keys : lock[k] = NoOne \/ (lock[k] \in Cycles /\ Key(lock[k]) = k)
Counters == clock \in Nat /\ faults \in Nat
Histories == /\ hurt \subseteq Cycles /\ before \in [Cycles -> SUBSET Cycles]
             /\ events \subseteq Cycles \X Assets \X EventKinds

\* A task that runs holds its key, until Redis forgets one.
HoldsKey == \A c \in Cycles : Runs(c) => lost \/ lock[Key(c)] = c

\* The snapshots that are stored and those of open transactions, with their times.
Measured ==
    /\ \A s \in snaps : IsSnapshot(s)
    /\ \A s, t \in snaps : s.at = t.at => s = t
    /\ \A s \in snaps : s.prevAt # s.at
WorkAt ==
    \A c \in Cycles :
        /\ stage[c] \notin {"snapshot", "emit"} => work[c] = {}
        /\ stage[c] = "snapshot" => work[c] # {}
        /\ stage[c] \in {"snapshot", "emit"} => todo[c] # {}
        /\ \A s, t \in work[c] : s = t
        /\ \A s \in work[c] : IsSnapshot(s) /\ s.cycle = c /\ s.asset = Asset(c)
TimesDiffer ==
    /\ \A c \in Cycles : \A s \in work[c], t \in snaps : s.at # t.at
    /\ \A c, d \in Cycles : c # d => \A s \in work[c], t \in work[d] : s.at # t.at
DueAt ==
    \A c \in Cycles : stage[c] = "emit" =>
        \A s \in work[c] : due[c] = Announced(s) /\ s.prevAt # s.at

\* What was over before a cycle began stays over.
BeforeIsOver ==
    \A c \in Cycles : /\ before[c] \subseteq {d \in Cycles : stage[d] \in Over}
                      /\ c \notin before[c] /\ (stage[c] = "queued" => before[c] = {})

\* A snapshot that read its predecessor has not missed one it should have seen.
SeesBefore ==
    /\ \A c \in Cycles : stage[c] = "emit" =>
          \A t \in work[c], s \in snaps :
              s.asset = t.asset /\ s.cycle \in before[c] => t.prevAt >= s.at
SeesOwnKey ==
    /\ \A c \in Cycles : stage[c] = "emit" =>
          \A t \in work[c], s \in snaps :
              s.asset = t.asset /\ Key(s.cycle) = Key(c) => lost \/ t.prevAt >= s.at
Ordered ==
    \A s, t \in snaps : s.asset = t.asset /\ Key(s.cycle) = Key(t.cycle) =>
        s = t \/ lost \/ s.prevAt >= t.at \/ t.prevAt >= s.at

\* Until the snapshot of an asset is taken, its cycle has stored none of it.
OnceEach ==
    \A s \in snaps :
        /\ stage[s.cycle] \notin {"queued", "skipped", "create", "pick"}
        /\ stage[s.cycle] \in {"measure", "snapshot"} => s.asset \notin todo[s.cycle]
        /\ stage[s.cycle] = "emit" => s.asset \notin todo[s.cycle] \/ s.asset = Asset(s.cycle)

\* While a cycle emits: what is announced of its asset, and what is still due.
StillDue ==
    \A c \in Cycles \ hurt : stage[c] = "emit" =>
        /\ \A s \in snaps \cup work[c] : s.cycle = c /\ s.asset = Asset(c) =>
              \A kind \in Range(Announced(s)) :
                  kind \in Range(due[c]) \/ <<c, s.asset, kind>> \in events
        /\ \E s \in snaps \cup work[c] : /\ s.cycle = c /\ s.asset = Asset(c)
                                         /\ Range(due[c]) \subseteq Range(Announced(s))

IInv == /\ Places /\ Queues /\ Locks /\ Counters /\ Histories /\ HoldsKey /\ Measured /\ WorkAt /\ TimesDiffer /\ DueAt /\ BeforeIsOver
        /\ SeesBefore /\ SeesOwnKey /\ Ordered /\ OnceEach /\ StillDue
        /\ StoredIsAnnounced /\ NothingForgotten /\ UnhurtAnnouncesAll

-----------------------------------------------------------------------------
(* Least and latest elements, and the events of an asset.                  *)

LEMMA LeastExists ==
    ASSUME NEW S \in SUBSET Nat, S # {}
    PROVE  \E x \in S : \A y \in S : x <= y
<1> DEFINE R == OpToRel(<, Nat)
<1>1. IsWellFoundedOn(R, Nat)
  BY NatLessThanWellFounded
<1>2. \A x, y \in Nat : y < x => <<y, x>> \in R
  BY DEF OpToRel
<1> HIDE DEF R
<1>3. \E x \in S : \A y \in S : ~(<<y, x>> \in R)
  BY <1>1, WFMin
<1>4. PICK x \in S : \A y \in S : ~(<<y, x>> \in R)
  BY <1>3
<1>5. \A y \in S : ~(y < x)
  BY <1>2, <1>4
<1>6. \A y \in S : x <= y
  BY <1>5
<1> QED BY <1>6

LEMMA MinIsLeast ==
    ASSUME NEW S \in SUBSET Nat, S # {}
    PROVE  Min(S) \in S /\ \A y \in S : Min(S) <= y
BY LeastExists DEF Min

LEMMA GreatestExists ==
    ASSUME NEW n \in Nat, NEW S \in SUBSET (0..n), S # {}
    PROVE  \E x \in S : \A y \in S : y <= x
<1> DEFINE T == {n - x : x \in S}
<1>1. T \in SUBSET Nat /\ T # {}
  <2>1. \A x \in S : n - x \in Nat
    OBVIOUS
  <2>2. T \in SUBSET Nat
    BY <2>1, Zenon
  <2>3. PICK x \in S : TRUE
    OBVIOUS
  <2>4. n - x \in T
    BY Zenon
  <2> QED BY <2>2, <2>4, Zenon
<1>2. PICK t \in T : \A y \in T : t <= y
  BY <1>1, LeastExists
<1>3. PICK x \in S : t = n - x
  BY <1>2
<1>4. \A y \in S : n - x <= n - y
  BY <1>2, <1>3
<1>5. \A y \in S : y <= x
  BY <1>4
<1> QED BY <1>5

\* The snapshot before is none older than any stored one, and is a stored one.
LEMMA LatestIsLatest ==
    ASSUME Counters, Measured, NEW a
    PROVE  /\ TimeBefore(a) \in Nat
           /\ \A s \in snaps : s.asset = a => s.at <= TimeBefore(a)
           /\ TimeBefore(a) = 0 \/ \E s \in snaps : s.at = TimeBefore(a)
<1> DEFINE mine == {s \in snaps : s.asset = a}
           times == {s.at : s \in mine}
<1>1. clock \in Nat /\ \A s \in snaps : s.at \in 1..clock
  BY DEF Counters, Measured, IsSnapshot
<1>2. CASE mine = {}
  <2>1. Latest(a) = {}
    BY <1>2 DEF Latest
  <2> QED BY <1>2, <2>1 DEF TimeBefore
<1>3. CASE mine # {}
  <2>1. times \in SUBSET (0..clock) /\ times # {}
    BY <1>1, <1>3
  <2>2. PICK m \in times : \A y \in times : y <= m
    BY <1>1, <2>1, GreatestExists
  <2>3. Latest(a) # {}
    BY <2>2 DEF Latest
  <2>4. (CHOOSE s \in Latest(a) : TRUE) \in Latest(a)
    BY <2>3
  <2>5. PICK s \in Latest(a) : TimeBefore(a) = s.at
    BY <2>3, <2>4 DEF TimeBefore
  <2>6. s \in snaps /\ \A t \in snaps : t.asset = a => t.at <= s.at
    BY <2>5 DEF Latest
  <2> QED BY <1>1, <2>5, <2>6
<1> QED BY <1>2, <1>3

LEMMA AnnouncementsType ==
    ASSUME NEW prev, NEW now
    PROVE  Announcements(prev, now) \in Seq(EventKinds)
<1>1. <<>> \in Seq(EventKinds) /\ \A event \in EventKinds : <<event>> \in Seq(EventKinds)
  OBVIOUS
<1>2. /\ "signal_changed" \in EventKinds /\ "p0_triggered" \in EventKinds
      /\ "p1_triggered" \in EventKinds /\ "recovered" \in EventKinds
  BY DEF EventKinds
<1> DEFINE a == IF prev # "none" /\ prev # now THEN <<"signal_changed">> ELSE <<>>
           b == IF now = "P0" /\ prev # "P0" THEN <<"p0_triggered">> ELSE <<>>
           c == IF now = "P1" /\ prev # "P1" THEN <<"p1_triggered">> ELSE <<>>
           d == IF prev \in {"P0", "P1"} /\ now = "GREEN" THEN <<"recovered">> ELSE <<>>
<1>3. a \in Seq(EventKinds) /\ b \in Seq(EventKinds) /\ c \in Seq(EventKinds) /\ d \in Seq(EventKinds)
  BY ONLY <1>1, <1>2
<1>4. Announcements(prev, now) = a \o b \o c \o d
  BY DEF Announcements
<1> HIDE DEF a, b, c, d
<1> QED BY <1>3, <1>4

LEMMA HeadAndTail ==
    ASSUME NEW S, NEW q \in Seq(S), q # <<>>
    PROVE  /\ Tail(q) \in Seq(S) /\ Head(q) \in S /\ Head(q) \in Range(q)
           /\ Range(Tail(q)) \subseteq Range(q)
           /\ \A x \in Range(q) : x = Head(q) \/ x \in Range(Tail(q))
<1>1. /\ Len(q) \in Nat \ {0} /\ DOMAIN q = 1..Len(q) /\ q \in [1..Len(q) -> S]
      /\ Tail(q) \in Seq(S) /\ Head(q) = q[1] /\ Len(Tail(q)) = Len(q) - 1
      /\ DOMAIN Tail(q) = 1..(Len(q) - 1)
      /\ \A i \in 1..(Len(q) - 1) : Tail(q)[i] = q[i + 1]
  OBVIOUS
<1>2. \A i \in 1..(Len(q) - 1) : i + 1 \in 1..Len(q)
  BY <1>1
<1>3. Range(Tail(q)) \subseteq Range(q)
  BY <1>1, <1>2 DEF Range
<1>4. ASSUME NEW i \in 1..Len(q)
      PROVE  q[i] = Head(q) \/ q[i] \in Range(Tail(q))
  <2>1. CASE i = 1
    BY <1>1, <2>1
  <2>2. CASE i # 1
    <3>1. i - 1 \in 1..(Len(q) - 1) /\ Tail(q)[i - 1] = q[i]
      BY <1>1, <2>2
    <3> QED BY <1>1, <3>1 DEF Range
  <2> QED BY <2>1, <2>2
<1>5. \A x \in Range(q) : \E i \in 1..Len(q) : x = q[i]
  BY <1>1 DEF Range
<1>6. Head(q) \in S /\ Head(q) \in Range(q)
  BY <1>1 DEF Range
<1> QED BY <1>1, <1>3, <1>4, <1>5, <1>6

-----------------------------------------------------------------------------
(* The steps of a cycle.                                                   *)

LEMMA SnapshotStays ==
    ASSUME clock \in Nat, clock' \in Nat, clock <= clock', NEW s, IsSnapshot(s)
    PROVE  IsSnapshot(s)'
BY DEF IsSnapshot

LEMMA Basics ==
    ASSUME IInv
    PROVE  /\ stage \in [Cycles -> Stages] /\ todo \in [Cycles -> SUBSET Assets] /\ DOMAIN work = Cycles
           /\ DOMAIN due = Cycles /\ clock \in Nat /\ Assets \subseteq Nat /\ DOMAIN lock = Keys
           /\ \A d \in Cycles : Key(d) \in Keys /\ d # NoOne /\ AssetsOf(d) \subseteq Assets
           /\ \A s \in snaps : s.cycle \in Cycles
<1>1. /\ stage \in [Cycles -> Stages] /\ todo \in [Cycles -> SUBSET Assets] /\ DOMAIN work = Cycles
      /\ DOMAIN due = Cycles /\ clock \in Nat /\ DOMAIN lock = Keys
  BY DEF IInv, Places, Queues, Counters, Locks
<1>2. \A d \in Cycles : Key(d) \in Keys /\ d # NoOne
  BY NoOneAssumption DEF Keys, NoOne
<1>3. Assets \subseteq Nat /\ \A d \in Cycles : AssetsOf(d) \subseteq Assets
  BY CycleAssumption DEF AssetsOf
<1>4. \A s \in snaps : s.cycle \in Cycles
  BY DEF IInv, Measured, IsSnapshot
<1> QED BY <1>1, <1>2, <1>3, <1>4

LEMMA AssetIsTodo ==
    ASSUME IInv, NEW c \in Cycles, todo[c] # {}
    PROVE  Asset(c) \in todo[c] /\ Asset(c) \in Assets
<1>1. todo[c] \in SUBSET Nat /\ todo[c] \subseteq Assets
  BY Basics
<1> QED BY <1>1, MinIsLeast DEF Asset

LEMMA ScopeStepKeeps ==
    ASSUME IInv, NEW c \in Cycles, Start(c) \/ Create(c) \/ Pick(c) \/ Finish(c) \/ Raise(c) \/ Release(c) \/ Kill(c)
    PROVE  IInv'
<1>0. /\ Places /\ Queues /\ Locks /\ Counters /\ Histories /\ HoldsKey /\ Measured
      /\ WorkAt /\ TimesDiffer /\ DueAt /\ BeforeIsOver /\ SeesBefore /\ SeesOwnKey /\ Ordered
      /\ OnceEach /\ StillDue /\ StoredIsAnnounced /\ NothingForgotten /\ UnhurtAnnouncesAll
  BY DEF IInv
<1>t. /\ stage \in [Cycles -> Stages] /\ todo \in [Cycles -> SUBSET Assets] /\ DOMAIN work = Cycles
      /\ DOMAIN due = Cycles /\ clock \in Nat /\ Assets \subseteq Nat /\ DOMAIN lock = Keys
      /\ \A d \in Cycles : Key(d) \in Keys /\ d # NoOne /\ AssetsOf(d) \subseteq Assets
      /\ \A s \in snaps : s.cycle \in Cycles
  BY Basics
<1> USE DEF Stages, Idle, Over, Runs, Goto, Fault, CommitFails, Stored, NoWork
<1>1. CASE Start(c)
  <2>1. \A d \in Cycles : Asset(d)' = Asset(d)
    BY <1>1 DEF Start, taskVars, dbVars, IsFree, Asset
  <2>2. clock' \in Nat /\ clock <= clock'
    BY <1>1, <1>t DEF Start, taskVars, dbVars, IsFree
  <2>3. Places'
    BY <1>1, <1>0, <1>t, <2>1 DEF Start, taskVars, dbVars, IsFree, Places
  <2>4. Queues'
    BY <1>1, <1>0, <1>t, <2>1 DEF Start, taskVars, dbVars, IsFree, Queues
  <2>5. Locks'
    BY <1>1, <1>0, <1>t, <2>1 DEF Start, taskVars, dbVars, IsFree, Locks
  <2>6. Counters'
    BY <1>1, <1>0, <1>t, <2>1 DEF Start, taskVars, dbVars, IsFree, Counters
  <2>7. Histories'
    BY <1>1, <1>0, <1>t, <2>1 DEF Start, taskVars, dbVars, IsFree, Histories
  <2>8. HoldsKey'
    BY <1>1, <1>0, <1>t, <2>1 DEF Start, taskVars, dbVars, IsFree, HoldsKey
  <2>9. Measured'
    BY <1>1, <1>0, <1>t, <2>1, <2>2, SnapshotStays DEF Start, taskVars, dbVars, IsFree, Measured, WorkAt, TimesDiffer, DueAt
  <2>10. WorkAt'
    BY <1>1, <1>0, <1>t, <2>1, <2>2, SnapshotStays DEF Start, taskVars, dbVars, IsFree, WorkAt
  <2>11. TimesDiffer'
    BY <1>1, <1>0, <1>t, <2>1 DEF Start, taskVars, dbVars, IsFree, TimesDiffer, WorkAt, Measured
  <2>12. DueAt'
    BY <1>1, <1>0, <1>t, <2>1 DEF Start, taskVars, dbVars, IsFree, DueAt, WorkAt
  <2>13. BeforeIsOver'
    BY <1>1, <1>0, <1>t, <2>1 DEF Start, taskVars, dbVars, IsFree, BeforeIsOver
  <2>14. SeesBefore'
    BY <1>1, <1>0, <1>t, <2>1 DEF Start, taskVars, dbVars, IsFree, SeesBefore, BeforeIsOver, WorkAt
  <2>15. SeesOwnKey'
    BY <1>1, <1>0, <1>t, <2>1 DEF Start, taskVars, dbVars, IsFree, SeesOwnKey, HoldsKey, WorkAt
  <2>16. Ordered'
    BY <1>1, <1>0, <1>t, <2>1 DEF Start, taskVars, dbVars, IsFree, Ordered, SeesOwnKey, WorkAt, HoldsKey
  <2>17. OnceEach'
    BY <1>1, <1>0, <1>t, <2>1 DEF Start, taskVars, dbVars, IsFree, OnceEach, WorkAt
  <2>18. StillDue'
    BY <1>1, <1>0, <1>t, <2>1 DEF Start, taskVars, dbVars, IsFree, StillDue, OnceEach, WorkAt, DueAt
  <2>19. StoredIsAnnounced'
    BY <1>1, <1>0, <1>t, <2>1 DEF Start, taskVars, dbVars, IsFree, StoredIsAnnounced, DueAt, WorkAt, Announced
  <2>20. NothingForgotten'
    BY <1>1, <1>0, <1>t, <2>1 DEF Start, taskVars, dbVars, IsFree, NothingForgotten, SeesBefore, BeforeIsOver, WorkAt, OnceEach
  <2>21. UnhurtAnnouncesAll'
    BY <1>1, <1>0, <1>t, <2>1 DEF Start, taskVars, dbVars, IsFree, UnhurtAnnouncesAll, StillDue, WorkAt, OnceEach, Announced
  <2> QED BY <2>3, <2>4, <2>5, <2>6, <2>7, <2>8, <2>9, <2>10, <2>11, <2>12, <2>13, <2>14, <2>15, <2>16, <2>17, <2>18, <2>19, <2>20, <2>21 DEF IInv
<1>2. CASE Create(c)
  <2>1. \A d \in Cycles : Asset(d)' = Asset(d)
    BY <1>2 DEF Create, Asset
  <2>2. clock' \in Nat /\ clock <= clock'
    BY <1>2, <1>t DEF Create
  <2>3. Places'
    BY <1>2, <1>0, <1>t, <2>1 DEF Create, Places
  <2>4. Queues'
    BY <1>2, <1>0, <1>t, <2>1 DEF Create, Queues
  <2>5. Locks'
    BY <1>2, <1>0, <1>t, <2>1 DEF Create, Locks
  <2>6. Counters'
    BY <1>2, <1>0, <1>t, <2>1 DEF Create, Counters
  <2>7. Histories'
    BY <1>2, <1>0, <1>t, <2>1 DEF Create, Histories
  <2>8. HoldsKey'
    BY <1>2, <1>0, <1>t, <2>1 DEF Create, HoldsKey
  <2>9. Measured'
    BY <1>2, <1>0, <1>t, <2>1, <2>2, SnapshotStays DEF Create, Measured, WorkAt, TimesDiffer, DueAt
  <2>10. WorkAt'
    BY <1>2, <1>0, <1>t, <2>1, <2>2, SnapshotStays DEF Create, WorkAt
  <2>11. TimesDiffer'
    BY <1>2, <1>0, <1>t, <2>1 DEF Create, TimesDiffer, WorkAt, Measured
  <2>12. DueAt'
    BY <1>2, <1>0, <1>t, <2>1 DEF Create, DueAt, WorkAt
  <2>13. BeforeIsOver'
    BY <1>2, <1>0, <1>t, <2>1 DEF Create, BeforeIsOver
  <2>14. SeesBefore'
    BY <1>2, <1>0, <1>t, <2>1 DEF Create, SeesBefore, BeforeIsOver, WorkAt
  <2>15. SeesOwnKey'
    BY <1>2, <1>0, <1>t, <2>1 DEF Create, SeesOwnKey, HoldsKey, WorkAt
  <2>16. Ordered'
    BY <1>2, <1>0, <1>t, <2>1 DEF Create, Ordered, SeesOwnKey, WorkAt, HoldsKey
  <2>17. OnceEach'
    BY <1>2, <1>0, <1>t, <2>1 DEF Create, OnceEach, WorkAt
  <2>18. StillDue'
    BY <1>2, <1>0, <1>t, <2>1 DEF Create, StillDue, OnceEach, WorkAt, DueAt
  <2>19. StoredIsAnnounced'
    BY <1>2, <1>0, <1>t, <2>1 DEF Create, StoredIsAnnounced, DueAt, WorkAt, Announced
  <2>20. NothingForgotten'
    BY <1>2, <1>0, <1>t, <2>1 DEF Create, NothingForgotten, SeesBefore, BeforeIsOver, WorkAt
  <2>21. UnhurtAnnouncesAll'
    BY <1>2, <1>0, <1>t, <2>1 DEF Create, UnhurtAnnouncesAll, StillDue, WorkAt, OnceEach, Announced
  <2> QED BY <2>3, <2>4, <2>5, <2>6, <2>7, <2>8, <2>9, <2>10, <2>11, <2>12, <2>13, <2>14, <2>15, <2>16, <2>17, <2>18, <2>19, <2>20, <2>21 DEF IInv
<1>3. CASE Pick(c)
  <2>1. \A d \in Cycles : d # c => Asset(d)' = Asset(d)
    BY <1>3, <1>t DEF Pick, Picked, Asset
  <2>2. clock' \in Nat /\ clock <= clock'
    BY <1>3, <1>t DEF Pick, Picked
  <2>3. Places'
    BY <1>3, <1>0, <1>t, <2>1 DEF Pick, Picked, Places
  <2>4. Queues'
    BY <1>3, <1>0, <1>t, <2>1 DEF Pick, Picked, Queues
  <2>5. Locks'
    BY <1>3, <1>0, <1>t, <2>1 DEF Pick, Picked, Locks
  <2>6. Counters'
    BY <1>3, <1>0, <1>t, <2>1 DEF Pick, Picked, Counters
  <2>7. Histories'
    BY <1>3, <1>0, <1>t, <2>1 DEF Pick, Picked, Histories
  <2>8. HoldsKey'
    BY <1>3, <1>0, <1>t, <2>1 DEF Pick, Picked, HoldsKey
  <2>9. Measured'
    BY <1>3, <1>0, <1>t, <2>1, <2>2, SnapshotStays DEF Pick, Picked, Measured, WorkAt, TimesDiffer, DueAt
  <2>10. WorkAt'
    BY <1>3, <1>0, <1>t, <2>1, <2>2, SnapshotStays DEF Pick, Picked, WorkAt
  <2>11. TimesDiffer'
    BY <1>3, <1>0, <1>t, <2>1 DEF Pick, Picked, TimesDiffer, WorkAt, Measured
  <2>12. DueAt'
    BY <1>3, <1>0, <1>t, <2>1 DEF Pick, Picked, DueAt, WorkAt
  <2>13. BeforeIsOver'
    BY <1>3, <1>0, <1>t, <2>1 DEF Pick, Picked, BeforeIsOver
  <2>14. SeesBefore'
    BY <1>3, <1>0, <1>t, <2>1 DEF Pick, Picked, SeesBefore, BeforeIsOver, WorkAt
  <2>15. SeesOwnKey'
    BY <1>3, <1>0, <1>t, <2>1 DEF Pick, Picked, SeesOwnKey, HoldsKey, WorkAt
  <2>16. Ordered'
    BY <1>3, <1>0, <1>t, <2>1 DEF Pick, Picked, Ordered, SeesOwnKey, WorkAt, HoldsKey
  <2>17. OnceEach'
    BY <1>3, <1>0, <1>t, <2>1 DEF Pick, Picked, OnceEach, WorkAt
  <2>18. StillDue'
    BY <1>3, <1>0, <1>t, <2>1 DEF Pick, Picked, StillDue, OnceEach, WorkAt, DueAt
  <2>19. StoredIsAnnounced'
    BY <1>3, <1>0, <1>t, <2>1 DEF Pick, Picked, StoredIsAnnounced, DueAt, WorkAt, Announced
  <2>20. NothingForgotten'
    BY <1>3, <1>0, <1>t, <2>1 DEF Pick, Picked, NothingForgotten, SeesBefore, BeforeIsOver, WorkAt
  <2>21. UnhurtAnnouncesAll'
    BY <1>3, <1>0, <1>t, <2>1 DEF Pick, Picked, UnhurtAnnouncesAll, StillDue, WorkAt, OnceEach, Announced
  <2> QED BY <2>3, <2>4, <2>5, <2>6, <2>7, <2>8, <2>9, <2>10, <2>11, <2>12, <2>13, <2>14, <2>15, <2>16, <2>17, <2>18, <2>19, <2>20, <2>21 DEF IInv
<1>4. CASE Finish(c)
  <2>1. \A d \in Cycles : Asset(d)' = Asset(d)
    BY <1>4 DEF Finish, Asset
  <2>2. clock' \in Nat /\ clock <= clock'
    BY <1>4, <1>t DEF Finish
  <2>3. Places'
    BY <1>4, <1>0, <1>t, <2>1 DEF Finish, Places
  <2>4. Queues'
    BY <1>4, <1>0, <1>t, <2>1 DEF Finish, Queues
  <2>5. Locks'
    BY <1>4, <1>0, <1>t, <2>1 DEF Finish, Locks
  <2>6. Counters'
    BY <1>4, <1>0, <1>t, <2>1 DEF Finish, Counters
  <2>7. Histories'
    BY <1>4, <1>0, <1>t, <2>1 DEF Finish, Histories
  <2>8. HoldsKey'
    BY <1>4, <1>0, <1>t, <2>1 DEF Finish, HoldsKey
  <2>9. Measured'
    BY <1>4, <1>0, <1>t, <2>1, <2>2, SnapshotStays DEF Finish, Measured, WorkAt, TimesDiffer, DueAt
  <2>10. WorkAt'
    BY <1>4, <1>0, <1>t, <2>1, <2>2, SnapshotStays DEF Finish, WorkAt
  <2>11. TimesDiffer'
    BY <1>4, <1>0, <1>t, <2>1 DEF Finish, TimesDiffer, WorkAt, Measured
  <2>12. DueAt'
    BY <1>4, <1>0, <1>t, <2>1 DEF Finish, DueAt, WorkAt
  <2>13. BeforeIsOver'
    BY <1>4, <1>0, <1>t, <2>1 DEF Finish, BeforeIsOver
  <2>14. SeesBefore'
    BY <1>4, <1>0, <1>t, <2>1 DEF Finish, SeesBefore, BeforeIsOver, WorkAt
  <2>15. SeesOwnKey'
    BY <1>4, <1>0, <1>t, <2>1 DEF Finish, SeesOwnKey, HoldsKey, WorkAt
  <2>16. Ordered'
    BY <1>4, <1>0, <1>t, <2>1 DEF Finish, Ordered, SeesOwnKey, WorkAt, HoldsKey
  <2>17. OnceEach'
    BY <1>4, <1>0, <1>t, <2>1 DEF Finish, OnceEach, WorkAt
  <2>18. StillDue'
    BY <1>4, <1>0, <1>t, <2>1 DEF Finish, StillDue, OnceEach, WorkAt, DueAt
  <2>19. StoredIsAnnounced'
    BY <1>4, <1>0, <1>t, <2>1 DEF Finish, StoredIsAnnounced, DueAt, WorkAt, Announced
  <2>20. NothingForgotten'
    BY <1>4, <1>0, <1>t, <2>1 DEF Finish, NothingForgotten, SeesBefore, BeforeIsOver, WorkAt
  <2>21. UnhurtAnnouncesAll'
    BY <1>4, <1>0, <1>t, <2>1 DEF Finish, UnhurtAnnouncesAll, StillDue, WorkAt, OnceEach, Announced
  <2> QED BY <2>3, <2>4, <2>5, <2>6, <2>7, <2>8, <2>9, <2>10, <2>11, <2>12, <2>13, <2>14, <2>15, <2>16, <2>17, <2>18, <2>19, <2>20, <2>21 DEF IInv
<1>5. CASE Raise(c)
  <2>1. \A d \in Cycles : Asset(d)' = Asset(d)
    BY <1>5 DEF Raise, Asset
  <2>2. clock' \in Nat /\ clock <= clock'
    BY <1>5, <1>t DEF Raise
  <2>3. Places'
    BY <1>5, <1>0, <1>t, <2>1 DEF Raise, Places
  <2>4. Queues'
    BY <1>5, <1>0, <1>t, <2>1 DEF Raise, Queues
  <2>5. Locks'
    BY <1>5, <1>0, <1>t, <2>1 DEF Raise, Locks
  <2>6. Counters'
    BY <1>5, <1>0, <1>t, <2>1 DEF Raise, Counters
  <2>7. Histories'
    BY <1>5, <1>0, <1>t, <2>1 DEF Raise, Histories
  <2>8. HoldsKey'
    BY <1>5, <1>0, <1>t, <2>1 DEF Raise, HoldsKey
  <2>9. Measured'
    BY <1>5, <1>0, <1>t, <2>1, <2>2, SnapshotStays DEF Raise, Measured, WorkAt, TimesDiffer, DueAt
  <2>10. WorkAt'
    BY <1>5, <1>0, <1>t, <2>1, <2>2, SnapshotStays DEF Raise, WorkAt
  <2>11. TimesDiffer'
    BY <1>5, <1>0, <1>t, <2>1 DEF Raise, TimesDiffer, WorkAt, Measured
  <2>12. DueAt'
    BY <1>5, <1>0, <1>t, <2>1 DEF Raise, DueAt, WorkAt
  <2>13. BeforeIsOver'
    BY <1>5, <1>0, <1>t, <2>1 DEF Raise, BeforeIsOver
  <2>14. SeesBefore'
    BY <1>5, <1>0, <1>t, <2>1 DEF Raise, SeesBefore, BeforeIsOver, WorkAt
  <2>15. SeesOwnKey'
    BY <1>5, <1>0, <1>t, <2>1 DEF Raise, SeesOwnKey, HoldsKey, WorkAt
  <2>16. Ordered'
    BY <1>5, <1>0, <1>t, <2>1 DEF Raise, Ordered, SeesOwnKey, WorkAt, HoldsKey
  <2>17. OnceEach'
    BY <1>5, <1>0, <1>t, <2>1 DEF Raise, OnceEach, WorkAt
  <2>18. StillDue'
    BY <1>5, <1>0, <1>t, <2>1 DEF Raise, StillDue, OnceEach, WorkAt, DueAt
  <2>19. StoredIsAnnounced'
    BY <1>5, <1>0, <1>t, <2>1 DEF Raise, StoredIsAnnounced, DueAt, WorkAt, Announced
  <2>20. NothingForgotten'
    BY <1>5, <1>0, <1>t, <2>1 DEF Raise, NothingForgotten, SeesBefore, BeforeIsOver, WorkAt
  <2>21. UnhurtAnnouncesAll'
    BY <1>5, <1>0, <1>t, <2>1 DEF Raise, UnhurtAnnouncesAll, StillDue, WorkAt, OnceEach, Announced
  <2> QED BY <2>3, <2>4, <2>5, <2>6, <2>7, <2>8, <2>9, <2>10, <2>11, <2>12, <2>13, <2>14, <2>15, <2>16, <2>17, <2>18, <2>19, <2>20, <2>21 DEF IInv
<1>6. CASE Release(c)
  <2>1. \A d \in Cycles : Asset(d)' = Asset(d)
    BY <1>6 DEF Release, OwnToken, dbVars, historyVars, Asset
  <2>2. clock' \in Nat /\ clock <= clock'
    BY <1>6, <1>t DEF Release, OwnToken, dbVars, historyVars
  <2>3. Places'
    BY <1>6, <1>0, <1>t, <2>1 DEF Release, OwnToken, dbVars, historyVars, Places
  <2>4. Queues'
    BY <1>6, <1>0, <1>t, <2>1 DEF Release, OwnToken, dbVars, historyVars, Queues
  <2>5. Locks'
    BY <1>6, <1>0, <1>t, <2>1 DEF Release, OwnToken, dbVars, historyVars, Locks
  <2>6. Counters'
    BY <1>6, <1>0, <1>t, <2>1 DEF Release, OwnToken, dbVars, historyVars, Counters
  <2>7. Histories'
    BY <1>6, <1>0, <1>t, <2>1 DEF Release, OwnToken, dbVars, historyVars, Histories
  <2>8. HoldsKey'
    BY <1>6, <1>0, <1>t, <2>1 DEF Release, OwnToken, dbVars, historyVars, HoldsKey
  <2>9. Measured'
    BY <1>6, <1>0, <1>t, <2>1, <2>2, SnapshotStays DEF Release, OwnToken, dbVars, historyVars, Measured, WorkAt, TimesDiffer, DueAt
  <2>10. WorkAt'
    BY <1>6, <1>0, <1>t, <2>1, <2>2, SnapshotStays DEF Release, OwnToken, dbVars, historyVars, WorkAt
  <2>11. TimesDiffer'
    BY <1>6, <1>0, <1>t, <2>1 DEF Release, OwnToken, dbVars, historyVars, TimesDiffer, WorkAt, Measured
  <2>12. DueAt'
    BY <1>6, <1>0, <1>t, <2>1 DEF Release, OwnToken, dbVars, historyVars, DueAt, WorkAt
  <2>13. BeforeIsOver'
    BY <1>6, <1>0, <1>t, <2>1 DEF Release, OwnToken, dbVars, historyVars, BeforeIsOver
  <2>14. SeesBefore'
    BY <1>6, <1>0, <1>t, <2>1 DEF Release, OwnToken, dbVars, historyVars, SeesBefore, BeforeIsOver, WorkAt
  <2>15. SeesOwnKey'
    BY <1>6, <1>0, <1>t, <2>1 DEF Release, OwnToken, dbVars, historyVars, SeesOwnKey, HoldsKey, WorkAt
  <2>16. Ordered'
    BY <1>6, <1>0, <1>t, <2>1 DEF Release, OwnToken, dbVars, historyVars, Ordered, SeesOwnKey, WorkAt, HoldsKey
  <2>17. OnceEach'
    BY <1>6, <1>0, <1>t, <2>1 DEF Release, OwnToken, dbVars, historyVars, OnceEach, WorkAt
  <2>18. StillDue'
    BY <1>6, <1>0, <1>t, <2>1 DEF Release, OwnToken, dbVars, historyVars, StillDue, OnceEach, WorkAt, DueAt
  <2>19. StoredIsAnnounced'
    BY <1>6, <1>0, <1>t, <2>1 DEF Release, OwnToken, dbVars, historyVars, StoredIsAnnounced, DueAt, WorkAt, Announced
  <2>20. NothingForgotten'
    BY <1>6, <1>0, <1>t, <2>1 DEF Release, OwnToken, dbVars, historyVars, NothingForgotten, SeesBefore, BeforeIsOver, WorkAt
  <2>21. UnhurtAnnouncesAll'
    BY <1>6, <1>0, <1>t, <2>1 DEF Release, OwnToken, dbVars, historyVars, UnhurtAnnouncesAll, StillDue, WorkAt, OnceEach, Announced
  <2> QED BY <2>3, <2>4, <2>5, <2>6, <2>7, <2>8, <2>9, <2>10, <2>11, <2>12, <2>13, <2>14, <2>15, <2>16, <2>17, <2>18, <2>19, <2>20, <2>21 DEF IInv
<1>7. CASE Kill(c)
  <2>1. \A d \in Cycles : Asset(d)' = Asset(d)
    BY <1>7 DEF Kill, dbVars, historyVars, Asset
  <2>2. clock' \in Nat /\ clock <= clock'
    BY <1>7, <1>t DEF Kill, dbVars, historyVars
  <2>3. Places'
    BY <1>7, <1>0, <1>t, <2>1 DEF Kill, dbVars, historyVars, Places
  <2>4. Queues'
    BY <1>7, <1>0, <1>t, <2>1 DEF Kill, dbVars, historyVars, Queues
  <2>5. Locks'
    BY <1>7, <1>0, <1>t, <2>1 DEF Kill, dbVars, historyVars, Locks
  <2>6. Counters'
    BY <1>7, <1>0, <1>t, <2>1 DEF Kill, dbVars, historyVars, Counters
  <2>7. Histories'
    BY <1>7, <1>0, <1>t, <2>1 DEF Kill, dbVars, historyVars, Histories
  <2>8. HoldsKey'
    BY <1>7, <1>0, <1>t, <2>1 DEF Kill, dbVars, historyVars, HoldsKey
  <2>9. Measured'
    BY <1>7, <1>0, <1>t, <2>1, <2>2, SnapshotStays DEF Kill, dbVars, historyVars, Measured, WorkAt, TimesDiffer, DueAt
  <2>10. WorkAt'
    BY <1>7, <1>0, <1>t, <2>1, <2>2, SnapshotStays DEF Kill, dbVars, historyVars, WorkAt
  <2>11. TimesDiffer'
    BY <1>7, <1>0, <1>t, <2>1 DEF Kill, dbVars, historyVars, TimesDiffer, WorkAt, Measured
  <2>12. DueAt'
    BY <1>7, <1>0, <1>t, <2>1 DEF Kill, dbVars, historyVars, DueAt, WorkAt
  <2>13. BeforeIsOver'
    BY <1>7, <1>0, <1>t, <2>1 DEF Kill, dbVars, historyVars, BeforeIsOver
  <2>14. SeesBefore'
    BY <1>7, <1>0, <1>t, <2>1 DEF Kill, dbVars, historyVars, SeesBefore, BeforeIsOver, WorkAt
  <2>15. SeesOwnKey'
    BY <1>7, <1>0, <1>t, <2>1 DEF Kill, dbVars, historyVars, SeesOwnKey, HoldsKey, WorkAt
  <2>16. Ordered'
    BY <1>7, <1>0, <1>t, <2>1 DEF Kill, dbVars, historyVars, Ordered, SeesOwnKey, WorkAt, HoldsKey
  <2>17. OnceEach'
    BY <1>7, <1>0, <1>t, <2>1 DEF Kill, dbVars, historyVars, OnceEach, WorkAt
  <2>18. StillDue'
    BY <1>7, <1>0, <1>t, <2>1 DEF Kill, dbVars, historyVars, StillDue, OnceEach, WorkAt, DueAt
  <2>19. StoredIsAnnounced'
    BY <1>7, <1>0, <1>t, <2>1 DEF Kill, dbVars, historyVars, StoredIsAnnounced, DueAt, WorkAt, Announced
  <2>20. NothingForgotten'
    BY <1>7, <1>0, <1>t, <2>1 DEF Kill, dbVars, historyVars, NothingForgotten, SeesBefore, BeforeIsOver, WorkAt
  <2>21. UnhurtAnnouncesAll'
    BY <1>7, <1>0, <1>t, <2>1 DEF Kill, dbVars, historyVars, UnhurtAnnouncesAll, StillDue, WorkAt, OnceEach, Announced
  <2> QED BY <2>3, <2>4, <2>5, <2>6, <2>7, <2>8, <2>9, <2>10, <2>11, <2>12, <2>13, <2>14, <2>15, <2>16, <2>17, <2>18, <2>19, <2>20, <2>21 DEF IInv
<1> QED BY <1>1, <1>2, <1>3, <1>4, <1>5, <1>6, <1>7

LEMMA AssetStepKeeps ==
    ASSUME IInv, NEW c \in Cycles, Measure(c) \/ Snapshot(c) \/ Emit(c) \/ Commit(c) \/ AssetFails(c) \/ SessionBreaks(c)
    PROVE  IInv'
<1>0. /\ Places /\ Queues /\ Locks /\ Counters /\ Histories /\ HoldsKey /\ Measured
      /\ WorkAt /\ TimesDiffer /\ DueAt /\ BeforeIsOver /\ SeesBefore /\ SeesOwnKey /\ Ordered
      /\ OnceEach /\ StillDue /\ StoredIsAnnounced /\ NothingForgotten /\ UnhurtAnnouncesAll
  BY DEF IInv
<1>t. /\ stage \in [Cycles -> Stages] /\ todo \in [Cycles -> SUBSET Assets] /\ DOMAIN work = Cycles
      /\ DOMAIN due = Cycles /\ clock \in Nat /\ Assets \subseteq Nat /\ DOMAIN lock = Keys
      /\ \A d \in Cycles : Key(d) \in Keys /\ d # NoOne /\ AssetsOf(d) \subseteq Assets
      /\ \A s \in snaps : s.cycle \in Cycles
  BY Basics
<1> USE DEF Stages, Idle, Over, Runs, Goto, Fault, CommitFails, Stored, NoWork
<1>1. CASE Measure(c)
  <2>1. \A d \in Cycles : Asset(d)' = Asset(d)
    BY <1>1 DEF Measure, dbVars, historyVars, Asset
  <2>2. clock' \in Nat /\ clock <= clock'
    BY <1>1, <1>t DEF Measure, dbVars, historyVars
  <2>x. PICK s : /\ work' = [work EXCEPT ![c] = {s}] /\ clock' = clock + 1
                 /\ s.cycle = c /\ s.asset = Asset(c) /\ s.at = clock + 1 /\ IsSnapshot(s)'
    <3>1. /\ todo[c] # {} /\ clock' = clock + 1
          /\ \E scores, signal : work' = [work EXCEPT ![c] =
                {[cycle |-> c, asset |-> Asset(c), at |-> clock + 1, scores |-> scores,
                  signal |-> signal, prev |-> "none", prevAt |-> 0]}]
      BY <1>1 DEF Measure
    <3>2. Asset(c) \in Assets /\ clock + 1 \in 1..clock'
      BY <3>1, <1>t, AssetIsTodo
    <3>3. PICK a, at, scores, signal, s :
             /\ a = Asset(c) /\ at = clock + 1
             /\ s = [cycle |-> c, asset |-> a, at |-> at, scores |-> scores,
                     signal |-> signal, prev |-> "none", prevAt |-> 0]
             /\ work' = [work EXCEPT ![c] = {s}]
      BY <3>1
    <3>4. IsSnapshot(s)'
      BY <3>2, <3>3 DEF IsSnapshot
    <3> QED BY <3>1, <3>3, <3>4
  <2>3. Places'
    BY <1>1, <1>0, <1>t, <2>1, <2>x DEF Measure, dbVars, historyVars, Places
  <2>4. Queues'
    BY <1>1, <1>0, <1>t, <2>1, <2>x DEF Measure, dbVars, historyVars, Queues
  <2>5. Locks'
    BY <1>1, <1>0, <1>t, <2>1, <2>x DEF Measure, dbVars, historyVars, Locks
  <2>6. Counters'
    BY <1>1, <1>0, <1>t, <2>1, <2>x DEF Measure, dbVars, historyVars, Counters
  <2>7. Histories'
    BY <1>1, <1>0, <1>t, <2>1, <2>x DEF Measure, dbVars, historyVars, Histories
  <2>8. HoldsKey'
    BY <1>1, <1>0, <1>t, <2>1, <2>x DEF Measure, dbVars, historyVars, HoldsKey
  <2>9. Measured'
    BY <1>1, <1>0, <1>t, <2>1, <2>x, <2>2, SnapshotStays DEF Measure, dbVars, historyVars, Measured, WorkAt, TimesDiffer, DueAt
  <2>10. WorkAt'
    BY <1>1, <1>0, <1>t, <2>1, <2>x, <2>2, SnapshotStays DEF Measure, dbVars, historyVars, WorkAt
  <2>11. TimesDiffer'
    <3>1. \A t \in snaps : t.at \in 1..clock
      BY <1>0 DEF Measured, IsSnapshot
    <3>2. \A d \in Cycles : \A t \in work[d] : t.at \in 1..clock
      BY <1>0 DEF WorkAt, IsSnapshot
    <3>3. snaps' = snaps
      BY <1>1 DEF Measure, dbVars
    <3> QED BY <1>0, <1>t, <2>x, <3>1, <3>2, <3>3 DEF TimesDiffer
  <2>12. DueAt'
    BY <1>1, <1>0, <1>t, <2>1, <2>x DEF Measure, dbVars, historyVars, DueAt, WorkAt
  <2>13. BeforeIsOver'
    BY <1>1, <1>0, <1>t, <2>1, <2>x DEF Measure, dbVars, historyVars, BeforeIsOver
  <2>14. SeesBefore'
    BY <1>1, <1>0, <1>t, <2>1, <2>x DEF Measure, dbVars, historyVars, SeesBefore, BeforeIsOver, WorkAt
  <2>15. SeesOwnKey'
    BY <1>1, <1>0, <1>t, <2>1, <2>x DEF Measure, dbVars, historyVars, SeesOwnKey, HoldsKey, WorkAt
  <2>16. Ordered'
    BY <1>1, <1>0, <1>t, <2>1, <2>x DEF Measure, dbVars, historyVars, Ordered, SeesOwnKey, WorkAt, HoldsKey
  <2>17. OnceEach'
    BY <1>1, <1>0, <1>t, <2>1, <2>x DEF Measure, dbVars, historyVars, OnceEach, WorkAt
  <2>18. StillDue'
    BY <1>1, <1>0, <1>t, <2>1, <2>x DEF Measure, dbVars, historyVars, StillDue, OnceEach, WorkAt, DueAt
  <2>19. StoredIsAnnounced'
    BY <1>1, <1>0, <1>t, <2>1, <2>x DEF Measure, dbVars, historyVars, StoredIsAnnounced, DueAt, WorkAt, Announced
  <2>20. NothingForgotten'
    BY <1>1, <1>0, <1>t, <2>1, <2>x DEF Measure, dbVars, historyVars, NothingForgotten, SeesBefore, BeforeIsOver, WorkAt
  <2>21. UnhurtAnnouncesAll'
    BY <1>1, <1>0, <1>t, <2>1, <2>x DEF Measure, dbVars, historyVars, UnhurtAnnouncesAll, StillDue, WorkAt, OnceEach, Announced
  <2> QED BY <2>3, <2>4, <2>5, <2>6, <2>7, <2>8, <2>9, <2>10, <2>11, <2>12, <2>13, <2>14, <2>15, <2>16, <2>17, <2>18, <2>19, <2>20, <2>21 DEF IInv
<1>2. CASE Snapshot(c)
  <2>1. \A d \in Cycles : Asset(d)' = Asset(d)
    BY <1>2 DEF Snapshot, dbVars, historyVars, Asset
  <2>2. clock' \in Nat /\ clock <= clock'
    <3>1. clock' = clock
      BY <1>2 DEF Snapshot
    <3> QED BY <3>1, <1>t
  <2>x. PICK s, n : /\ s \in work[c] /\ work[c] = {s} /\ work' = [work EXCEPT ![c] = {n}]
                    /\ due' = [due EXCEPT ![c] = Announced(n)]
                    /\ n.cycle = c /\ n.asset = Asset(c) /\ s.asset = Asset(c) /\ n.at = s.at
                    /\ n.prevAt = TimeBefore(Asset(c)) /\ n.prevAt # n.at /\ IsSnapshot(n)'
    <3>1. PICK s \in work[c] :
             /\ work' = [work EXCEPT ![c] = {[s EXCEPT !.prev = SignalBefore(Asset(c)),
                                                       !.prevAt = TimeBefore(Asset(c))]}]
             /\ due' = [due EXCEPT ![c] = Announcements(SignalBefore(Asset(c)), s.signal)]
      BY <1>2 DEF Snapshot
    <3>2. work[c] = {s} /\ IsSnapshot(s) /\ s.cycle = c /\ s.asset = Asset(c)
      BY <1>0 DEF WorkAt
    <3>3. TimeBefore(Asset(c)) \in Nat /\ TimeBefore(Asset(c)) # s.at
      <4>1. \A t \in snaps : t.at # s.at
        BY <1>0 DEF TimesDiffer
      <4>2. s.at # 0
        BY <3>2, <1>t DEF IsSnapshot
      <4> QED BY <4>1, <4>2, <1>0, LatestIsLatest
    <3>4. clock' = clock
      BY <1>2 DEF Snapshot
    <3>5. PICK p, q, n : /\ p = SignalBefore(Asset(c)) /\ q = TimeBefore(Asset(c))
                         /\ n = [s EXCEPT !.prev = p, !.prevAt = q]
      OBVIOUS
    <3>6. n = [cycle |-> s.cycle, asset |-> s.asset, at |-> s.at, scores |-> s.scores,
               signal |-> s.signal, prev |-> p, prevAt |-> q]
      <4>1. PICK cycle, asset, at, scores, signal, prev, prevAt :
               s = [cycle |-> cycle, asset |-> asset, at |-> at, scores |-> scores,
                    signal |-> signal, prev |-> prev, prevAt |-> prevAt]
        BY <3>2 DEF IsSnapshot
      <4> QED BY ONLY <3>5, <4>1
    <3>7. IsSnapshot(n)'
      BY <3>2, <3>3, <3>4, <3>5, <3>6 DEF IsSnapshot
    <3>8. work' = [work EXCEPT ![c] = {n}] /\ due' = [due EXCEPT ![c] = Announced(n)]
      BY <3>1, <3>5, <3>6 DEF Announced
    <3>9. n.cycle = c /\ n.asset = Asset(c) /\ n.at = s.at /\ n.prevAt = TimeBefore(Asset(c))
      BY <3>2, <3>5, <3>6
    <3> QED BY <3>2, <3>3, <3>7, <3>8, <3>9
  <2>y. /\ UNCHANGED <<todo, snaps, events, hurt, before, lost, lock>> /\ clock' = clock
        /\ stage[c] = "snapshot" /\ stage' = [stage EXCEPT ![c] = "emit"]
    BY <1>2 DEF Snapshot, dbVars, historyVars
  <2>z. \A t \in snaps : t.asset = Asset(c) => t.at <= TimeBefore(Asset(c))
    BY <1>0, LatestIsLatest
  <2>3. Places'
    BY <1>2, <1>0, <1>t, <2>1, <2>x DEF Snapshot, dbVars, historyVars, Places
  <2>4. Queues'
    BY <1>0, <1>t, <2>1, <2>x, <2>y, AnnouncementsType DEF Queues, Announced
  <2>5. Locks'
    BY <1>2, <1>0, <1>t, <2>1, <2>x DEF Snapshot, dbVars, historyVars, Locks
  <2>6. Counters'
    BY <1>2, <1>0, <1>t, <2>1, <2>x DEF Snapshot, dbVars, historyVars, Counters
  <2>7. Histories'
    BY <1>2, <1>0, <1>t, <2>1, <2>x DEF Snapshot, dbVars, historyVars, Histories
  <2>8. HoldsKey'
    BY <1>2, <1>0, <1>t, <2>1, <2>x DEF Snapshot, dbVars, historyVars, HoldsKey
  <2>9. Measured'
    BY <1>2, <1>0, <1>t, <2>1, <2>x, <2>2, SnapshotStays DEF Snapshot, dbVars, historyVars, Measured, WorkAt, TimesDiffer, DueAt
  <2>10. WorkAt'
    BY <1>0, <1>t, <2>1, <2>x, <2>y, <2>2, SnapshotStays DEF WorkAt
  <2>11. TimesDiffer'
    BY <1>0, <1>t, <2>1, <2>x, <2>y DEF TimesDiffer
  <2>12. DueAt'
    BY <1>0, <1>t, <2>1, <2>x, <2>y DEF DueAt
  <2>13. BeforeIsOver'
    BY <1>2, <1>0, <1>t, <2>1, <2>x DEF Snapshot, dbVars, historyVars, BeforeIsOver
  <2>14. SeesBefore'
    BY <1>0, <1>t, <2>1, <2>x, <2>y, <2>z DEF SeesBefore
  <2>15. SeesOwnKey'
    BY <1>0, <1>t, <2>1, <2>x, <2>y, <2>z DEF SeesOwnKey
  <2>16. Ordered'
    BY <1>2, <1>0, <1>t, <2>1, <2>x DEF Snapshot, dbVars, historyVars, Ordered, SeesOwnKey, WorkAt, HoldsKey
  <2>17. OnceEach'
    BY <1>2, <1>0, <1>t, <2>1, <2>x DEF Snapshot, dbVars, historyVars, OnceEach, WorkAt
  <2>18. StillDue'
    <3>1. \A s1 \in snaps : s1.cycle = c => s1.asset # Asset(c)
      BY <1>0, <2>y, AssetIsTodo DEF OnceEach, WorkAt
    <3>2. work'[c] = {n} /\ due'[c] = Announced(n)
      BY <1>t, <2>x
    <3>3. \A d \in Cycles : d # c => work'[d] = work[d] /\ due'[d] = due[d] /\ stage'[d] = stage[d]
      BY <1>t, <2>x, <2>y
    <3> QED BY <1>0, <2>1, <2>x, <2>y, <3>1, <3>2, <3>3 DEF StillDue
  <2>19. StoredIsAnnounced'
    BY <1>2, <1>0, <1>t, <2>1, <2>x DEF Snapshot, dbVars, historyVars, StoredIsAnnounced, DueAt, WorkAt, Announced
  <2>20. NothingForgotten'
    BY <1>2, <1>0, <1>t, <2>1, <2>x DEF Snapshot, dbVars, historyVars, NothingForgotten, SeesBefore, BeforeIsOver, WorkAt
  <2>21. UnhurtAnnouncesAll'
    BY <1>2, <1>0, <1>t, <2>1, <2>x DEF Snapshot, dbVars, historyVars, UnhurtAnnouncesAll, StillDue, WorkAt, OnceEach, Announced
  <2> QED BY <2>3, <2>4, <2>5, <2>6, <2>7, <2>8, <2>9, <2>10, <2>11, <2>12, <2>13, <2>14, <2>15, <2>16, <2>17, <2>18, <2>19, <2>20, <2>21 DEF IInv
<1>3. CASE Emit(c)
  <2>1. \A d \in Cycles : Asset(d)' = Asset(d)
    BY <1>3 DEF Emit, Remaining, Undone, Asset
  <2>2. clock' \in Nat /\ clock <= clock'
    BY <1>3, <1>t DEF Emit, Remaining, Undone
  <2>x. /\ Asset(c) \in Assets /\ Tail(due[c]) \in Seq(EventKinds) /\ Head(due[c]) \in EventKinds
        /\ Head(due[c]) \in Range(due[c]) /\ Range(Tail(due[c])) \subseteq Range(due[c])
        /\ \A kind \in Range(due[c]) : kind = Head(due[c]) \/ kind \in Range(Tail(due[c]))
    <3>1. todo[c] # {} /\ due[c] \in Seq(EventKinds) /\ due[c] # <<>>
      BY <1>3, <1>0 DEF Emit, WorkAt, Queues
    <3> QED BY <3>1, AssetIsTodo, HeadAndTail
  <2>3. Places'
    BY <1>3, <1>0, <1>t, <2>1, <2>x DEF Emit, Remaining, Undone, Places
  <2>4. Queues'
    BY <1>3, <1>0, <1>t, <2>1, <2>x DEF Emit, Remaining, Undone, Queues
  <2>5. Locks'
    BY <1>3, <1>0, <1>t, <2>1, <2>x DEF Emit, Remaining, Undone, Locks
  <2>6. Counters'
    BY <1>3, <1>0, <1>t, <2>1, <2>x DEF Emit, Remaining, Undone, Counters
  <2>7. Histories'
    BY <1>3, <1>0, <1>t, <2>1, <2>x DEF Emit, Remaining, Undone, Histories
  <2>8. HoldsKey'
    BY <1>3, <1>0, <1>t, <2>1, <2>x DEF Emit, Remaining, Undone, HoldsKey
  <2>9. Measured'
    BY <1>3, <1>0, <1>t, <2>1, <2>x, <2>2, SnapshotStays DEF Emit, Remaining, Undone, Measured, WorkAt, TimesDiffer, DueAt
  <2>10. WorkAt'
    BY <1>3, <1>0, <1>t, <2>1, <2>x, <2>2, SnapshotStays DEF Emit, Remaining, Undone, WorkAt
  <2>11. TimesDiffer'
    <3>1. work' = [work EXCEPT ![c] = {}] /\ snaps' \subseteq snaps \cup work[c]
      BY <1>3 DEF Emit, Undone
    <3> QED BY <1>0, <1>t, <3>1 DEF TimesDiffer
  <2>12. DueAt'
    BY <1>3, <1>0, <1>t, <2>1, <2>x DEF Emit, Remaining, Undone, DueAt, WorkAt
  <2>13. BeforeIsOver'
    BY <1>3, <1>0, <1>t, <2>1, <2>x DEF Emit, Remaining, Undone, BeforeIsOver
  <2>14. SeesBefore'
    BY <1>3, <1>0, <1>t, <2>1, <2>x DEF Emit, Remaining, Undone, SeesBefore, BeforeIsOver, WorkAt
  <2>15. SeesOwnKey'
    BY <1>3, <1>0, <1>t, <2>1, <2>x DEF Emit, Remaining, Undone, SeesOwnKey, HoldsKey, WorkAt
  <2>16. Ordered'
    BY <1>3, <1>0, <1>t, <2>1, <2>x DEF Emit, Remaining, Undone, Ordered, SeesOwnKey, WorkAt, HoldsKey
  <2>17. OnceEach'
    BY <1>3, <1>0, <1>t, <2>1, <2>x DEF Emit, Remaining, Undone, OnceEach, WorkAt
  <2>18. StillDue'
    <3>1. CASE c \in hurt'
      <4>1. \A d \in Cycles \ hurt' : d # c /\ d \notin hurt /\ (stage'[d] = "emit" => stage[d] = "emit")
        BY <3>1, <1>3 DEF Emit, Undone
      <4>2. \A d \in Cycles : d # c => work'[d] = work[d] /\ due'[d] = due[d]
        BY <1>3, <1>t DEF Emit, Undone
      <4>3. events \subseteq events' /\ snaps \subseteq snaps' /\ snaps' \subseteq snaps \cup work[c]
        BY <1>3 DEF Emit, Undone
      <4>4. \A s \in work[c] : s.cycle = c
        BY <1>0 DEF WorkAt
      <4> QED BY <1>0, <2>1, <4>1, <4>2, <4>3, <4>4 DEF StillDue
    <3>2. CASE c \notin hurt'
      <4>1. /\ snaps' = snaps \cup work[c] /\ work' = [work EXCEPT ![c] = {}] /\ hurt' = hurt /\ stage' = stage
            /\ events' = events \cup {<<c, Asset(c), Head(due[c])>>}
            /\ due' = [due EXCEPT ![c] = Tail(due[c])]
        BY <3>2, <1>3 DEF Emit, Remaining
      <4>2. \A s \in work[c] : s.cycle = c
        BY <1>0 DEF WorkAt
      <4>3. ASSUME NEW d \in Cycles \ hurt, stage[d] = "emit", d # c
            PROVE  /\ \A s \in snaps' \cup work'[d] : s.cycle = d /\ s.asset = Asset(d) =>
                        \A kind \in Range(Announced(s)) :
                            kind \in Range(due'[d]) \/ <<d, s.asset, kind>> \in events'
                   /\ \E s \in snaps' \cup work'[d] : /\ s.cycle = d /\ s.asset = Asset(d)
                                                      /\ Range(due'[d]) \subseteq Range(Announced(s))
        BY <1>0, <1>t, <4>1, <4>2, <4>3 DEF StillDue
      <4>4. ASSUME stage[c] = "emit", c \notin hurt
            PROVE  /\ \A s \in snaps' \cup work'[c] : s.cycle = c /\ s.asset = Asset(c) =>
                        \A kind \in Range(Announced(s)) :
                            kind \in Range(due'[c]) \/ <<c, s.asset, kind>> \in events'
                   /\ \E s \in snaps' \cup work'[c] : /\ s.cycle = c /\ s.asset = Asset(c)
                                                      /\ Range(due'[c]) \subseteq Range(Announced(s))
        <5>1. /\ \A s \in snaps \cup work[c] : s.cycle = c /\ s.asset = Asset(c) =>
                   \A kind \in Range(Announced(s)) :
                       kind \in Range(due[c]) \/ <<c, s.asset, kind>> \in events
              /\ \E s \in snaps \cup work[c] : /\ s.cycle = c /\ s.asset = Asset(c)
                                               /\ Range(due[c]) \subseteq Range(Announced(s))
          BY <1>0, <4>4 DEF StillDue
        <5>2. due'[c] = Tail(due[c]) /\ work'[c] = {}
          BY <1>t, <4>1
        <5> QED BY <5>1, <5>2, <4>1, <2>x
      <4> QED BY <4>1, <4>3, <4>4, <2>1 DEF StillDue
    <3> QED BY <3>1, <3>2
  <2>19. StoredIsAnnounced'
    BY <1>3, <1>0, <1>t, <2>1, <2>x DEF Emit, Remaining, Undone, StoredIsAnnounced, DueAt, WorkAt, Announced
  <2>20. NothingForgotten'
    BY <1>3, <1>0, <1>t, <2>1, <2>x DEF Emit, Remaining, Undone, NothingForgotten, SeesBefore, BeforeIsOver, WorkAt
  <2>21. UnhurtAnnouncesAll'
    <3>1. todo' = todo /\ stage' = stage /\ stage[c] = "emit" /\ hurt \subseteq hurt'
      BY <1>3 DEF Emit
    <3>2. \A s \in work[c] : s.cycle = c /\ s.asset \in todo[c]
      BY <1>0, AssetIsTodo DEF WorkAt, Emit
    <3>3. snaps \subseteq snaps' /\ snaps' \subseteq snaps \cup work[c] /\ events \subseteq events'
      BY <1>3 DEF Emit, Undone
    <3>4. ASSUME NEW s \in snaps'
          PROVE  s.cycle \in hurt' \/ stage'[s.cycle] = "killed" \/ s.asset \in todo'[s.cycle]
                 \/ \A kind \in Range(Announced(s)) : <<s.cycle, s.asset, kind>> \in events'
      <4>1. CASE s \in snaps
        BY <4>1, <1>0, <3>1, <3>3 DEF UnhurtAnnouncesAll, Announced
      <4>2. CASE s \in work[c]
        BY <4>2, <3>1, <3>2
      <4> QED BY <4>1, <4>2, <3>3
    <3>5. ASSUME NEW e \in events', e[1] \notin hurt'
          PROVE  \E s \in snaps' : s.cycle = e[1] /\ s.asset = e[2] /\ e[3] \in Range(Announced(s))
      <4>1. CASE e \in events
        <5>1. \E s \in snaps : s.cycle = e[1] /\ s.asset = e[2] /\ e[3] \in Range(Announced(s))
          BY <1>0, <3>1, <3>5, <4>1 DEF UnhurtAnnouncesAll, Announced
        <5> QED BY <5>1, <3>3
      <4>2. CASE e \notin events
        <5>1. e = <<c, Asset(c), Head(due[c])>> /\ snaps' = snaps \cup work[c]
          BY <1>3, <4>2 DEF Emit
        <5>2. e[1] = c /\ e[2] = Asset(c) /\ e[3] = Head(due[c])
          BY <5>1
        <5>3. PICK s \in snaps \cup work[c] : /\ s.cycle = c /\ s.asset = Asset(c)
                                              /\ Range(due[c]) \subseteq Range(Announced(s))
          BY <1>0, <3>1, <3>5, <5>2 DEF StillDue
        <5> QED BY <5>1, <5>2, <5>3, <2>x
      <4> QED BY <4>1, <4>2
    <3> QED BY <3>4, <3>5 DEF UnhurtAnnouncesAll, Announced
  <2> QED BY <2>3, <2>4, <2>5, <2>6, <2>7, <2>8, <2>9, <2>10, <2>11, <2>12, <2>13, <2>14, <2>15, <2>16, <2>17, <2>18, <2>19, <2>20, <2>21 DEF IInv
<1>4. CASE Commit(c)
  <2>1. \A d \in Cycles : d # c => Asset(d)' = Asset(d)
    BY <1>4, <1>t DEF Commit, Finished, Asset
  <2>2. clock' \in Nat /\ clock <= clock'
    BY <1>4, <1>t DEF Commit, Finished
  <2>x. todo[c] # {} /\ Range(<<>>) = {}
    BY <1>4, <1>0 DEF Commit, WorkAt, Range
  <2>3. Places'
    BY <1>4, <1>0, <1>t, <2>1, <2>x DEF Commit, Finished, Places
  <2>4. Queues'
    BY <1>4, <1>0, <1>t, <2>1, <2>x DEF Commit, Finished, Queues
  <2>5. Locks'
    BY <1>4, <1>0, <1>t, <2>1, <2>x DEF Commit, Finished, Locks
  <2>6. Counters'
    BY <1>4, <1>0, <1>t, <2>1, <2>x DEF Commit, Finished, Counters
  <2>7. Histories'
    BY <1>4, <1>0, <1>t, <2>1, <2>x DEF Commit, Finished, Histories
  <2>8. HoldsKey'
    BY <1>4, <1>0, <1>t, <2>1, <2>x DEF Commit, Finished, HoldsKey
  <2>9. Measured'
    BY <1>4, <1>0, <1>t, <2>1, <2>x, <2>2, SnapshotStays DEF Commit, Finished, Measured, WorkAt, TimesDiffer, DueAt
  <2>10. WorkAt'
    BY <1>4, <1>0, <1>t, <2>1, <2>x, <2>2, SnapshotStays DEF Commit, Finished, WorkAt
  <2>11. TimesDiffer'
    BY <1>4, <1>0, <1>t, <2>1, <2>x DEF Commit, Finished, TimesDiffer, WorkAt, Measured
  <2>12. DueAt'
    BY <1>4, <1>0, <1>t, <2>1, <2>x DEF Commit, Finished, DueAt, WorkAt
  <2>13. BeforeIsOver'
    BY <1>4, <1>0, <1>t, <2>1, <2>x DEF Commit, Finished, BeforeIsOver
  <2>14. SeesBefore'
    BY <1>4, <1>0, <1>t, <2>1, <2>x DEF Commit, Finished, SeesBefore, BeforeIsOver, WorkAt
  <2>15. SeesOwnKey'
    BY <1>4, <1>0, <1>t, <2>1, <2>x DEF Commit, Finished, SeesOwnKey, HoldsKey, WorkAt
  <2>16. Ordered'
    BY <1>4, <1>0, <1>t, <2>1, <2>x DEF Commit, Finished, Ordered, SeesOwnKey, WorkAt, HoldsKey
  <2>17. OnceEach'
    BY <1>4, <1>0, <1>t, <2>1, <2>x DEF Commit, Finished, OnceEach, WorkAt
  <2>18. StillDue'
    BY <1>4, <1>0, <1>t, <2>1, <2>x DEF Commit, Finished, StillDue, OnceEach, WorkAt, DueAt
  <2>19. StoredIsAnnounced'
    BY <1>4, <1>0, <1>t, <2>1, <2>x DEF Commit, Finished, StoredIsAnnounced, DueAt, WorkAt, Announced
  <2>20. NothingForgotten'
    BY <1>4, <1>0, <1>t, <2>1, <2>x DEF Commit, Finished, NothingForgotten, SeesBefore, BeforeIsOver, WorkAt
  <2>21. UnhurtAnnouncesAll'
    BY <1>4, <1>0, <1>t, <2>1, <2>x DEF Commit, Finished, UnhurtAnnouncesAll, StillDue, WorkAt, OnceEach, Announced
  <2> QED BY <2>3, <2>4, <2>5, <2>6, <2>7, <2>8, <2>9, <2>10, <2>11, <2>12, <2>13, <2>14, <2>15, <2>16, <2>17, <2>18, <2>19, <2>20, <2>21 DEF IInv
<1>5. CASE AssetFails(c)
  <2>1. \A d \in Cycles : d # c => Asset(d)' = Asset(d)
    BY <1>5, <1>t DEF AssetFails, Finished, dbVars, historyVars, Asset
  <2>2. clock' \in Nat /\ clock <= clock'
    BY <1>5, <1>t DEF AssetFails, Finished, dbVars, historyVars
  <2>3. Places'
    BY <1>5, <1>0, <1>t, <2>1 DEF AssetFails, Finished, dbVars, historyVars, Places
  <2>4. Queues'
    BY <1>5, <1>0, <1>t, <2>1 DEF AssetFails, Finished, dbVars, historyVars, Queues
  <2>5. Locks'
    BY <1>5, <1>0, <1>t, <2>1 DEF AssetFails, Finished, dbVars, historyVars, Locks
  <2>6. Counters'
    BY <1>5, <1>0, <1>t, <2>1 DEF AssetFails, Finished, dbVars, historyVars, Counters
  <2>7. Histories'
    BY <1>5, <1>0, <1>t, <2>1 DEF AssetFails, Finished, dbVars, historyVars, Histories
  <2>8. HoldsKey'
    BY <1>5, <1>0, <1>t, <2>1 DEF AssetFails, Finished, dbVars, historyVars, HoldsKey
  <2>9. Measured'
    BY <1>5, <1>0, <1>t, <2>1, <2>2, SnapshotStays DEF AssetFails, Finished, dbVars, historyVars, Measured, WorkAt, TimesDiffer, DueAt
  <2>10. WorkAt'
    BY <1>5, <1>0, <1>t, <2>1, <2>2, SnapshotStays DEF AssetFails, Finished, dbVars, historyVars, WorkAt
  <2>11. TimesDiffer'
    BY <1>5, <1>0, <1>t, <2>1 DEF AssetFails, Finished, dbVars, historyVars, TimesDiffer, WorkAt, Measured
  <2>12. DueAt'
    BY <1>5, <1>0, <1>t, <2>1 DEF AssetFails, Finished, dbVars, historyVars, DueAt, WorkAt
  <2>13. BeforeIsOver'
    BY <1>5, <1>0, <1>t, <2>1 DEF AssetFails, Finished, dbVars, historyVars, BeforeIsOver
  <2>14. SeesBefore'
    BY <1>5, <1>0, <1>t, <2>1 DEF AssetFails, Finished, dbVars, historyVars, SeesBefore, BeforeIsOver, WorkAt
  <2>15. SeesOwnKey'
    BY <1>5, <1>0, <1>t, <2>1 DEF AssetFails, Finished, dbVars, historyVars, SeesOwnKey, HoldsKey, WorkAt
  <2>16. Ordered'
    BY <1>5, <1>0, <1>t, <2>1 DEF AssetFails, Finished, dbVars, historyVars, Ordered, SeesOwnKey, WorkAt, HoldsKey
  <2>17. OnceEach'
    BY <1>5, <1>0, <1>t, <2>1 DEF AssetFails, Finished, dbVars, historyVars, OnceEach, WorkAt
  <2>18. StillDue'
    BY <1>5, <1>0, <1>t, <2>1 DEF AssetFails, Finished, dbVars, historyVars, StillDue, OnceEach, WorkAt, DueAt
  <2>19. StoredIsAnnounced'
    BY <1>5, <1>0, <1>t, <2>1 DEF AssetFails, Finished, dbVars, historyVars, StoredIsAnnounced, DueAt, WorkAt, Announced
  <2>20. NothingForgotten'
    BY <1>5, <1>0, <1>t, <2>1 DEF AssetFails, Finished, dbVars, historyVars, NothingForgotten, SeesBefore, BeforeIsOver, WorkAt
  <2>21. UnhurtAnnouncesAll'
    BY <1>5, <1>0, <1>t, <2>1 DEF AssetFails, Finished, dbVars, historyVars, UnhurtAnnouncesAll, StillDue, WorkAt, OnceEach, Announced
  <2> QED BY <2>3, <2>4, <2>5, <2>6, <2>7, <2>8, <2>9, <2>10, <2>11, <2>12, <2>13, <2>14, <2>15, <2>16, <2>17, <2>18, <2>19, <2>20, <2>21 DEF IInv
<1>6. CASE SessionBreaks(c)
  <2>1. \A d \in Cycles : d # c => Asset(d)' = Asset(d)
    BY <1>6, <1>t DEF SessionBreaks, Finished, dbVars, CountsFailure, Counts, Asset
  <2>2. clock' \in Nat /\ clock <= clock'
    BY <1>6, <1>t DEF SessionBreaks, Finished, dbVars, CountsFailure, Counts
  <2>3. Places'
    BY <1>6, <1>0, <1>t, <2>1 DEF SessionBreaks, Finished, dbVars, CountsFailure, Counts, Places
  <2>4. Queues'
    BY <1>6, <1>0, <1>t, <2>1 DEF SessionBreaks, Finished, dbVars, CountsFailure, Counts, Queues
  <2>5. Locks'
    BY <1>6, <1>0, <1>t, <2>1 DEF SessionBreaks, Finished, dbVars, CountsFailure, Counts, Locks
  <2>6. Counters'
    BY <1>6, <1>0, <1>t, <2>1 DEF SessionBreaks, Finished, dbVars, CountsFailure, Counts, Counters
  <2>7. Histories'
    BY <1>6, <1>0, <1>t, <2>1 DEF SessionBreaks, Finished, dbVars, CountsFailure, Counts, Histories
  <2>8. HoldsKey'
    BY <1>6, <1>0, <1>t, <2>1 DEF SessionBreaks, Finished, dbVars, CountsFailure, Counts, HoldsKey
  <2>9. Measured'
    BY <1>6, <1>0, <1>t, <2>1, <2>2, SnapshotStays DEF SessionBreaks, Finished, dbVars, CountsFailure, Counts, Measured, WorkAt, TimesDiffer, DueAt
  <2>10. WorkAt'
    BY <1>6, <1>0, <1>t, <2>1, <2>2, SnapshotStays DEF SessionBreaks, Finished, dbVars, CountsFailure, Counts, WorkAt
  <2>11. TimesDiffer'
    BY <1>6, <1>0, <1>t, <2>1 DEF SessionBreaks, Finished, dbVars, CountsFailure, Counts, TimesDiffer, WorkAt, Measured
  <2>12. DueAt'
    BY <1>6, <1>0, <1>t, <2>1 DEF SessionBreaks, Finished, dbVars, CountsFailure, Counts, DueAt, WorkAt
  <2>13. BeforeIsOver'
    BY <1>6, <1>0, <1>t, <2>1 DEF SessionBreaks, Finished, dbVars, CountsFailure, Counts, BeforeIsOver
  <2>14. SeesBefore'
    BY <1>6, <1>0, <1>t, <2>1 DEF SessionBreaks, Finished, dbVars, CountsFailure, Counts, SeesBefore, BeforeIsOver, WorkAt
  <2>15. SeesOwnKey'
    BY <1>6, <1>0, <1>t, <2>1 DEF SessionBreaks, Finished, dbVars, CountsFailure, Counts, SeesOwnKey, HoldsKey, WorkAt
  <2>16. Ordered'
    BY <1>6, <1>0, <1>t, <2>1 DEF SessionBreaks, Finished, dbVars, CountsFailure, Counts, Ordered, SeesOwnKey, WorkAt, HoldsKey
  <2>17. OnceEach'
    BY <1>6, <1>0, <1>t, <2>1 DEF SessionBreaks, Finished, dbVars, CountsFailure, Counts, OnceEach, WorkAt
  <2>18. StillDue'
    BY <1>6, <1>0, <1>t, <2>1 DEF SessionBreaks, Finished, dbVars, CountsFailure, Counts, StillDue, OnceEach, WorkAt, DueAt
  <2>19. StoredIsAnnounced'
    BY <1>6, <1>0, <1>t, <2>1 DEF SessionBreaks, Finished, dbVars, CountsFailure, Counts, StoredIsAnnounced, DueAt, WorkAt, Announced
  <2>20. NothingForgotten'
    BY <1>6, <1>0, <1>t, <2>1 DEF SessionBreaks, Finished, dbVars, CountsFailure, Counts, NothingForgotten, SeesBefore, BeforeIsOver, WorkAt
  <2>21. UnhurtAnnouncesAll'
    BY <1>6, <1>0, <1>t, <2>1 DEF SessionBreaks, Finished, dbVars, CountsFailure, Counts, UnhurtAnnouncesAll, StillDue, WorkAt, OnceEach, Announced
  <2> QED BY <2>3, <2>4, <2>5, <2>6, <2>7, <2>8, <2>9, <2>10, <2>11, <2>12, <2>13, <2>14, <2>15, <2>16, <2>17, <2>18, <2>19, <2>20, <2>21 DEF IInv
<1> QED BY <1>1, <1>2, <1>3, <1>4, <1>5, <1>6

LEMMA LockKeeps ==
    ASSUME IInv, NEW k \in Keys, Expire(k) \/ Forget(k)
    PROVE  IInv'
<1>0. /\ Places /\ Queues /\ Locks /\ Counters /\ Histories /\ HoldsKey /\ Measured
      /\ WorkAt /\ TimesDiffer /\ DueAt /\ BeforeIsOver /\ SeesBefore /\ SeesOwnKey /\ Ordered
      /\ OnceEach /\ StillDue /\ StoredIsAnnounced /\ NothingForgotten /\ UnhurtAnnouncesAll
  BY DEF IInv
<1>t. /\ stage \in [Cycles -> Stages] /\ todo \in [Cycles -> SUBSET Assets] /\ DOMAIN work = Cycles
      /\ DOMAIN due = Cycles /\ clock \in Nat /\ Assets \subseteq Nat /\ DOMAIN lock = Keys
      /\ \A d \in Cycles : Key(d) \in Keys /\ d # NoOne /\ AssetsOf(d) \subseteq Assets
      /\ \A s \in snaps : s.cycle \in Cycles
  BY Basics
<1>1. /\ UNCHANGED <<taskVars, dbVars, clock, hurt, before>>
      /\ lock' = [lock EXCEPT ![k] = NoOne] /\ (lost' = lost \/ lost' = TRUE) /\ faults' \in Nat
  BY <1>0 DEF Expire, Forget, historyVars, Fault, Counters
<1>2. \A d \in Cycles : Asset(d)' = Asset(d)
  BY <1>1 DEF Asset, taskVars
<1>3. \A s : IsSnapshot(s) => IsSnapshot(s)'
  BY <1>1, <1>t, SnapshotStays
<1> USE DEF taskVars, dbVars
<1>4. HoldsKey'
  BY <1>0, <1>t DEF Expire, Forget, historyVars, HoldsKey, Outlives, Runs, Locks
<1>5. Places'
  BY <1>0, <1>1, <1>2, <1>3, <1>t DEF Places
<1>6. Queues'
  BY <1>0, <1>1, <1>2, <1>3, <1>t DEF Queues
<1>7. Locks'
  BY <1>0, <1>1, <1>2, <1>3, <1>t DEF Locks
<1>8. Counters'
  BY <1>0, <1>1, <1>2, <1>3, <1>t DEF Counters
<1>9. Histories'
  BY <1>0, <1>1, <1>2, <1>3, <1>t DEF Histories
<1>10. Measured'
  BY <1>0, <1>1, <1>2, <1>3, <1>t DEF Measured
<1>11. WorkAt'
  BY <1>0, <1>1, <1>2, <1>3, <1>t DEF WorkAt
<1>12. TimesDiffer'
  BY <1>0, <1>1, <1>2, <1>3, <1>t DEF TimesDiffer
<1>13. DueAt'
  BY <1>0, <1>1, <1>2, <1>3, <1>t DEF DueAt
<1>14. BeforeIsOver'
  BY <1>0, <1>1, <1>2, <1>3, <1>t DEF BeforeIsOver, Runs
<1>15. SeesBefore'
  BY <1>0, <1>1, <1>2, <1>3, <1>t DEF SeesBefore
<1>16. SeesOwnKey'
  BY <1>0, <1>1, <1>2, <1>3, <1>t DEF SeesOwnKey
<1>17. Ordered'
  BY <1>0, <1>1, <1>2, <1>3, <1>t DEF Ordered
<1>18. OnceEach'
  BY <1>0, <1>1, <1>2, <1>3, <1>t DEF OnceEach
<1>19. StillDue'
  BY <1>0, <1>1, <1>2, <1>3, <1>t DEF StillDue
<1>20. StoredIsAnnounced'
  BY <1>0, <1>1, <1>2, <1>3, <1>t DEF StoredIsAnnounced
<1>21. NothingForgotten'
  BY <1>0, <1>1, <1>2, <1>3, <1>t DEF NothingForgotten
<1>22. UnhurtAnnouncesAll'
  BY <1>0, <1>1, <1>2, <1>3, <1>t DEF UnhurtAnnouncesAll
<1> QED BY <1>4, <1>5, <1>6, <1>7, <1>8, <1>9, <1>10, <1>11, <1>12, <1>13, <1>14, <1>15, <1>16, <1>17, <1>18, <1>19, <1>20, <1>21, <1>22 DEF IInv

-----------------------------------------------------------------------------
LEMMA InitHolds == Init => IInv
<1> SUFFICES ASSUME Init PROVE IInv
  OBVIOUS
<1>1. /\ \A c \in Cycles : /\ stage[c] = "queued" /\ todo[c] = {} /\ work[c] = {}
                           /\ due[c] = <<>> /\ before[c] = {}
      /\ snaps = {} /\ events = {} /\ clock = 0 /\ faults = 0 /\ hurt = {}
  BY DEF Init
<1>2. Places /\ Queues /\ Locks /\ Counters /\ Histories
  BY DEF Init, Places, Queues, Locks, Counters, Histories, Stages, Idle
<1>3. HoldsKey /\ Measured /\ WorkAt /\ TimesDiffer /\ DueAt /\ BeforeIsOver
  BY <1>1 DEF HoldsKey, Measured, WorkAt, TimesDiffer, DueAt, BeforeIsOver, Runs, Idle
<1>4. SeesBefore /\ SeesOwnKey /\ Ordered /\ OnceEach /\ StillDue
  BY <1>1 DEF SeesBefore, SeesOwnKey, Ordered, OnceEach, StillDue
<1>5. StoredIsAnnounced /\ NothingForgotten /\ UnhurtAnnouncesAll
  BY <1>1 DEF StoredIsAnnounced, NothingForgotten, UnhurtAnnouncesAll
<1> QED BY <1>2, <1>3, <1>4, <1>5 DEF IInv

LEMMA StutterKeeps == IInv /\ UNCHANGED vars => IInv'
<1> SUFFICES ASSUME IInv, UNCHANGED vars PROVE IInv'
  OBVIOUS
<1> USE DEF vars, taskVars, dbVars, historyVars, IInv
<1>1. \A d \in Cycles : Asset(d)' = Asset(d)
  BY DEF Asset
<1>2. \A s : IsSnapshot(s) => IsSnapshot(s)'
  BY DEF IsSnapshot
<1>3. Places' /\ Queues' /\ Locks' /\ Counters' /\ Histories'
  BY DEF Places, Queues, Locks, Counters, Histories
<1>4. HoldsKey' /\ Measured' /\ WorkAt' /\ TimesDiffer' /\ DueAt' /\ BeforeIsOver'
  BY <1>1, <1>2 DEF HoldsKey, Measured, WorkAt, TimesDiffer, DueAt, BeforeIsOver, Runs
<1>5. SeesBefore' /\ SeesOwnKey' /\ Ordered' /\ OnceEach' /\ StillDue'
  BY <1>1, Basics DEF SeesBefore, SeesOwnKey, Ordered, OnceEach, StillDue
<1>6. StoredIsAnnounced' /\ NothingForgotten' /\ UnhurtAnnouncesAll'
  BY DEF StoredIsAnnounced, NothingForgotten, UnhurtAnnouncesAll
<1> QED BY <1>3, <1>4, <1>5, <1>6

\* The inductive invariant, for all scopes and schedules of the cycles.
THEOREM CycleInvariant == Spec => []IInv
<1>1. IInv /\ [Next]_vars => IInv'
  BY ScopeStepKeeps, AssetStepKeeps, LockKeeps, StutterKeeps DEF Next, Step
<1> QED BY <1>1, InitHolds, PTL DEF Spec

\* Cycles of one scope exclude each other unless Redis forgets a key, whatever dies.
THEOREM CyclesExclude == Spec => []OneCyclePerKey
<1>1. IInv => OneCyclePerKey
  BY DEF IInv, HoldsKey, OneCyclePerKey
<1> QED BY <1>1, CycleInvariant, PTL

OwnKeyStep == \A k \in Keys : \/ lock[k] = NoOne \/ lock'[k] = lock[k]
                              \/ stage'[lock[k]] \in Idle \/ faults' # faults

LEMMA OwnKeySteps == IInv /\ Next => OwnKeyStep
<1> SUFFICES ASSUME IInv, Next PROVE OwnKeyStep
  OBVIOUS
<1> USE DEF Goto, Fault
<1>0. /\ stage \in [Cycles -> Stages] /\ DOMAIN lock = Keys /\ faults \in Nat
      /\ \A k \in Keys : lock[k] = NoOne \/ lock[k] \in Cycles
  BY DEF IInv, Places, Locks, Counters
<1>1. ASSUME NEW c \in Cycles, Start(c) PROVE OwnKeyStep
  BY <1>0, <1>1, Basics DEF Start, IsFree, OwnKeyStep
<1>2. ASSUME NEW c \in Cycles, Release(c) PROVE OwnKeyStep
  BY <1>0, <1>2, Basics DEF Release, OwnToken, Idle, OwnKeyStep
<1>3. ASSUME NEW c \in Cycles, Kill(c) \/ (Step(c) /\ ~Release(c)) PROVE lock' = lock
  BY <1>3 DEF Kill, Step, Create, Pick, Finish, Raise, Measure, Snapshot, Emit, Commit,
              AssetFails, SessionBreaks
<1>4. ASSUME NEW k \in Keys, Expire(k) PROVE OwnKeyStep
  BY <1>0, <1>4 DEF Expire, Outlives, Runs, taskVars, OwnKeyStep
<1>5. ASSUME NEW k \in Keys, Forget(k) PROVE faults' # faults
  BY <1>0, <1>5 DEF Forget
<1> QED BY <1>1, <1>2, <1>3, <1>4, <1>5 DEF Next, OwnKeyStep

\* No step of a cycle frees a key that another one holds and needs.
THEOREM KeysAreOwn == Spec => OwnKeyOnly
<1>1. IInv /\ [Next]_vars =>
         [\A k \in Keys : \/ lock[k] = NoOne \/ lock'[k] = lock[k]
                          \/ stage'[lock[k]] \in Idle \/ faults' # faults]_vars
  BY OwnKeySteps DEF OwnKeyStep
<1> QED BY <1>1, CycleInvariant, PTL DEF Spec, OwnKeyOnly

\* Whatever fails, no change of signal is stored silently.
THEOREM NoSilentChange == Spec => []StoredIsAnnounced
<1>1. IInv => StoredIsAnnounced
  BY DEF IInv
<1> QED BY <1>1, CycleInvariant, PTL

\* A cycle of which no commit failed announces all of its changes and nothing else.
THEOREM UnhurtCyclesAnnounce == Spec => []UnhurtAnnouncesAll
<1>1. IInv => UnhurtAnnouncesAll
  BY DEF IInv
<1> QED BY <1>1, CycleInvariant, PTL

\* No change of signal is stored without the events that tell of it, as far as commits hold.
THEOREM ChangesAnnounced == Spec => []ChangesAreAnnounced
<1>1. StoredIsAnnounced /\ UnhurtAnnouncesAll => ChangesAreAnnounced
  BY DEF ChangesAreAnnounced
<1> QED BY <1>1, NoSilentChange, UnhurtCyclesAnnounce, PTL

\* What was stored by a cycle that was over is seen by those that begin later.
THEOREM LaterSeesEarlier == Spec => []NothingForgotten
<1>1. IInv => NothingForgotten
  BY DEF IInv
<1> QED BY <1>1, CycleInvariant, PTL

\* The snapshots of an asset taken under one key are a chain, unless Redis forgot the key.
THEOREM ChainsFork == Spec => []ForksNeedTwoKeys
<1>1. IInv => ForksNeedTwoKeys
  <2> SUFFICES ASSUME IInv, NEW s \in snaps, NEW t \in snaps, s.asset = t.asset,
                      s.prevAt = t.prevAt, ~(s.prevAt > Min({s.at, t.at})),
                      s # t, Key(s.cycle) = Key(t.cycle), ~lost
               PROVE  FALSE
    BY DEF ForksNeedTwoKeys
  <2>1. s.prevAt >= t.at \/ t.prevAt >= s.at
    BY DEF IInv, Ordered
  <2>2. /\ s.at \in Nat /\ t.at \in Nat /\ s.prevAt \in Nat
        /\ s.prevAt # s.at /\ t.prevAt # t.at
    BY DEF IInv, Measured, IsSnapshot, Counters
  <2>3. Min({s.at, t.at}) \in {s.at, t.at} /\ Min({s.at, t.at}) <= s.at /\ Min({s.at, t.at}) <= t.at
    BY <2>2, MinIsLeast
  <2> QED BY <2>1, <2>2, <2>3
<1> QED BY <1>1, CycleInvariant, PTL


-----------------------------------------------------------------------------
(* The types, and what a cycle reports.                                    *)

RowStates == {"none", "pending", "running"} \cup Finals
Tallies == [processed : Nat, failed : Nat]

\* What TypeOK adds to the invariant.
Typed == /\ row \in [Cycles -> RowStates] /\ counts \in [Cycles -> Tallies]
         /\ \A c \in Cycles : todo[c] \subseteq AssetsOf(c) /\ work[c] \subseteq Snapshots
         /\ snaps \subseteq Snapshots /\ faults \in 0..MaxFaults /\ lost \in BOOLEAN

LEMMA SignalType ==
    ASSUME NEW scores, NEW prev
    PROVE  AssetSignal(scores, prev) \in Signals
<1> DEFINE all == {ConfidenceSignal(scores)} \cup {DimensionSignal(d, scores, prev) : d \in Dims}
<1>1. ConfidenceSignal(scores) \in Signals /\ \A d \in Dims : DimensionSignal(d, scores, prev) \in Signals
  BY DEF ConfidenceSignal, DimensionSignal, Signals
<1>2. all \subseteq Signals /\ all # {}
  BY <1>1
<1> HIDE DEF all
<1>3. \E s \in all : \A t \in all : Priority[t] <= Priority[s]
  <2>1. CASE "P0" \in all
    BY <1>2, <2>1 DEF Signals, Priority
  <2>2. CASE "P0" \notin all /\ "P1" \in all
    BY <1>2, <2>2 DEF Signals, Priority
  <2>3. CASE "P0" \notin all /\ "P1" \notin all
    <3>1. \A t \in all : t = "GREEN"
      BY <1>2, <2>3 DEF Signals
    <3> QED BY <1>2, <3>1 DEF Priority
  <2> QED BY <2>1, <2>2, <2>3
<1>4. Worst(all) \in all
  BY <1>3 DEF Worst
<1>5. AssetSignal(scores, prev) = Worst(all)
  BY DEF AssetSignal, all
<1> QED BY <1>2, <1>4, <1>5

LEMMA SignalBeforeType ==
    ASSUME IInv, Typed, NEW a
    PROVE  SignalBefore(a) \in Signals \cup {"none"} /\ TimeBefore(a) \in Nat
<1>1. TimeBefore(a) \in Nat
  BY LatestIsLatest DEF IInv
<1>2. CASE Latest(a) = {}
  BY <1>1, <1>2 DEF SignalBefore
<1>3. CASE Latest(a) # {}
  <2>1. (CHOOSE s \in Latest(a) : TRUE) \in Snapshots
    BY <1>3 DEF Latest, Typed
  <2> QED BY <1>1, <1>3, <2>1 DEF SignalBefore, Snapshots
<1> QED BY <1>2, <1>3

LEMMA FoundType ==
    ASSUME NEW c \in Cycles, NEW truth \in Truths
    PROVE  Found(c, truth) \in [Dims -> 0..100]
BY CycleAssumption DEF Found

LEMMA CountsRight ==
    ASSUME counts \in [Cycles -> Tallies], NEW c \in Cycles, NEW p \in Nat, NEW f \in Nat, Counts(c, p, f)
    PROVE  /\ counts' \in [Cycles -> Tallies] /\ \A d \in Cycles \ {c} : counts'[d] = counts[d]
           /\ counts'[c].processed = counts[c].processed + p /\ counts'[c].failed = counts[c].failed + f
<1> DEFINE new == [processed |-> counts[c].processed + p, failed |-> counts[c].failed + f]
<1>1. counts[c].processed \in Nat /\ counts[c].failed \in Nat
      /\ counts[c] = [processed |-> counts[c].processed, failed |-> counts[c].failed]
  BY DEF Tallies
<1>2. new \in Tallies
  BY <1>1 DEF Tallies
<1>3. counts' = [counts EXCEPT ![c] = new]
  BY <1>1 DEF Counts
<1>4. new.processed = counts[c].processed + p /\ new.failed = counts[c].failed + f
  OBVIOUS
<1> HIDE DEF new
<1> QED BY <1>2, <1>3, <1>4

LEMMA TypedSteps ==
    ASSUME IInv, Typed, NEW c \in Cycles, Start(c) \/ Step(c) \/ Kill(c)
    PROVE  Typed'
<1> USE DEF Goto, Fault, CommitFails, Stored, NoWork, taskVars, dbVars, historyVars
<1>t. /\ row \in [Cycles -> RowStates] /\ counts \in [Cycles -> Tallies] /\ faults \in 0..MaxFaults
      /\ DOMAIN work = Cycles /\ \A d \in Cycles : work[d] \subseteq Snapshots /\ todo[d] \subseteq AssetsOf(d)
      /\ snaps \subseteq Snapshots /\ todo \in [Cycles -> SUBSET Assets] /\ clock \in Nat
  BY Basics DEF Typed
<1>f. ASSUME Fault PROVE faults' \in 0..MaxFaults
  BY <1>t, <1>f, CycleAssumption
<1>1. CASE Start(c)
  BY <1>1 DEF Start, Typed
<1>2. CASE Create(c)
  BY <1>2, <1>t, <1>f DEF Create, Typed, RowStates
<1>3. CASE Pick(c)
  BY <1>3, <1>t, <1>f DEF Pick, Picked, Typed, RowStates
<1>4. CASE Finish(c)
  <2>1. Status(c) \in RowStates
    BY DEF Status, RowStates, Finals
  <2> QED BY <1>4, <1>t, <1>f, <2>1 DEF Finish, Typed
<1>5. CASE Raise(c)
  BY <1>5, <1>t, <1>f DEF Raise, Typed, RowStates, Finals, Tallies
<1>6. CASE Release(c)
  BY <1>6, <1>t, <1>f DEF Release, OwnToken, Typed
<1>7. CASE Kill(c)
  BY <1>7, <1>t, <1>f DEF Kill, Typed
<1>8. CASE Measure(c)
  <2>1. PICK truth \in Truths :
          work' = [work EXCEPT ![c] =
              {[cycle |-> c, asset |-> Asset(c), at |-> clock', scores |-> Found(c, truth),
               signal |-> AssetSignal(Found(c, truth), ScoresBefore(Asset(c))),
                prev |-> "none", prevAt |-> 0]}]
    BY <1>8 DEF Measure
  <2>2. Asset(c) \in Assets /\ clock' \in Nat
    BY <1>8, <1>t, AssetIsTodo DEF Measure
  <2>3. work'[c] \subseteq Snapshots
    BY <1>t, <2>1, <2>2, FoundType, SignalType DEF Snapshots
  <2>4. \A d \in Cycles : work'[d] \subseteq Snapshots
    BY <1>t, <2>1, <2>3
  <2> QED BY <1>8, <1>t, <2>4 DEF Measure, Typed, AssetsOf
<1>9. CASE Snapshot(c)
  <2>1. PICK s \in work[c] :
          work' = [work EXCEPT ![c] = {[s EXCEPT !.prev = SignalBefore(Asset(c)), !.prevAt = TimeBefore(Asset(c))]}]
    BY <1>9 DEF Snapshot
  <2>2. s \in Snapshots
    BY <1>t
  <2>3. [s EXCEPT !.prev = SignalBefore(Asset(c)), !.prevAt = TimeBefore(Asset(c))] \in Snapshots
    BY <2>2, SignalBeforeType DEF Snapshots
  <2>4. \A d \in Cycles : work'[d] \subseteq Snapshots
    BY <1>t, <2>1, <2>3
  <2> QED BY <1>9, <1>t, <2>4 DEF Snapshot, Typed, AssetsOf
<1>10. CASE Emit(c)
  BY <1>10, <1>t, <1>f DEF Emit, Undone, Typed
<1>11. CASE Commit(c)
  <2>1. counts' \in [Cycles -> Tallies]
    BY <1>11, <1>t, CountsRight DEF Commit
  <2>2. \A d \in Cycles : todo'[d] \subseteq AssetsOf(d)
    BY <1>11, <1>t DEF Commit, Finished
  <2> QED BY <1>11, <1>t, <1>f, <2>1, <2>2 DEF Commit, Typed, AssetsOf
<1>12. CASE AssetFails(c) \/ SessionBreaks(c)
  <2>1. counts' \in [Cycles -> Tallies]
    BY <1>12, <1>t, CountsRight DEF AssetFails, SessionBreaks, CountsFailure
  <2>2. \A d \in Cycles : todo'[d] \subseteq AssetsOf(d)
    BY <1>12, <1>t DEF AssetFails, SessionBreaks, Finished
  <2> QED BY <1>12, <1>t, <1>f, <2>1, <2>2 DEF AssetFails, SessionBreaks, Typed, AssetsOf
<1> QED BY <1>1, <1>2, <1>3, <1>4, <1>5, <1>6, <1>7, <1>8, <1>9, <1>10, <1>11, <1>12 DEF Step

LEMMA TypedLocks ==
    ASSUME Typed, NEW k \in Keys, Expire(k) \/ Forget(k)
    PROVE  Typed'
<1>1. faults' \in 0..MaxFaults
  BY CycleAssumption DEF Expire, Forget, Fault, Typed, historyVars
<1>2. lost' = lost \/ lost' = TRUE
  BY DEF Expire, Forget, historyVars
<1>3. lost' \in BOOLEAN
  BY <1>2, Zenon DEF Typed
<1> QED BY <1>1, <1>3 DEF Expire, Forget, Typed, taskVars, dbVars

LEMMA TypedInvariant == Spec => []Typed
<1>1. Init => Typed
  <2> SUFFICES ASSUME Init PROVE Typed
    OBVIOUS
  <2>1. row \in [Cycles -> RowStates] /\ counts \in [Cycles -> Tallies] /\ faults \in 0..MaxFaults
    BY CycleAssumption DEF Init, RowStates, Tallies
  <2>2. lost \in BOOLEAN
    BY Zenon DEF Init
  <2>3. \A c \in Cycles : todo[c] = {} /\ work[c] = {}
    BY DEF Init
  <2>4. snaps = {}
    BY DEF Init
  <2> QED BY <2>1, <2>2, <2>3, <2>4 DEF Typed
<1>2. IInv /\ Typed /\ [Next]_vars => Typed'
  <2> SUFFICES ASSUME IInv, Typed, [Next]_vars PROVE Typed'
    OBVIOUS
  <2>1. CASE UNCHANGED vars
    BY <2>1 DEF Typed, vars, taskVars, dbVars, historyVars
  <2> QED BY <2>1, TypedSteps, TypedLocks DEF Next
<1> QED BY <1>1, <1>2, CycleInvariant, PTL DEF Spec

\* Every cycle works on its own assets only and stores what is a snapshot of one, with its
\* time to itself (orchestrator.py:319).
THEOREM CycleTypes == Spec => []TypeOK
<1>1. IInv /\ Typed => TypeOK
  <2> SUFFICES ASSUME IInv, Typed PROVE TypeOK
    OBVIOUS
  <2>1. \A k \in Keys : lock[k] \in {c \in Cycles : Key(c) = k} \cup {NoOne}
    BY DEF IInv, Locks
  <2>2. stage \in [Cycles -> Stages] /\ \A c \in Cycles : due[c] \in Seq(EventKinds)
    BY DEF IInv, Places, Queues
  <2>3. \A s, t \in snaps : s.at = t.at => s = t
    BY DEF IInv, Measured
  <2>4. clock \in Nat /\ hurt \subseteq Cycles /\ before \in [Cycles -> SUBSET Cycles]
        /\ events \subseteq Cycles \X Assets \X EventKinds
    BY DEF IInv, Counters, Histories
  <2> QED BY <2>1, <2>2, <2>3, <2>4 DEF Typed, TypeOK, RowStates, Tallies
<1> QED BY <1>1, CycleInvariant, TypedInvariant, PTL

\* The assets of which a cycle has stored a snapshot.
StoredAssets(c) == {s.asset : s \in StoredBy(c)}

\* While no commit of a cycle fails, it has counted each asset it is done with once: as
\* processed if it stored a snapshot of it, and as failed otherwise.
CountedOf(c) ==
    /\ stage[c] \notin {"raise", "release", "raised"}
    /\ stage[c] \in {"queued", "create", "pick"} => counts[c].processed = 0 /\ counts[c].failed = 0
    /\ stage[c] \in {"measure", "snapshot", "emit", "return", "returned"} =>
          /\ counts[c].processed = Cardinality(StoredAssets(c) \ todo[c])
          /\ counts[c].failed = Cardinality((AssetsOf(c) \ todo[c]) \ StoredAssets(c))
          /\ StoredAssets(c) \subseteq AssetsOf(c)
    /\ stage[c] \in {"return", "returned"} => todo[c] = {} /\ row[c] = Status(c)
    /\ stage[c] = "emit" => (work[c] = {} <=> Asset(c) \in StoredAssets(c))
    /\ \A s, t \in StoredBy(c) : s.asset = t.asset => s = t
Counted == \A c \in Cycles \ hurt : CountedOf(c)

LEMMA AssetsFinite ==
    ASSUME NEW c \in Cycles, NEW S \in SUBSET AssetsOf(c)
    PROVE  IsFiniteSet(S) /\ Cardinality(S) \in Nat /\ IsFiniteSet(AssetsOf(c))
<1>1. AssetsOf(c) \subseteq Assets /\ IsFiniteSet(Assets)
  BY CycleAssumption DEF AssetsOf
<1>2. IsFiniteSet(S) /\ IsFiniteSet(AssetsOf(c))
  BY <1>1, FS_Subset
<1> QED BY <1>2, FS_CardinalityType

\* What a step of one cycle leaves of the others, and stores.
LEMMA StepsOfOne ==
    ASSUME IInv, Typed, NEW c \in Cycles, Start(c) \/ Step(c) \/ Kill(c)
    PROVE  /\ \A d \in Cycles \ {c} : /\ stage'[d] = stage[d] /\ counts'[d] = counts[d] /\ todo'[d] = todo[d]
                                      /\ row'[d] = row[d] /\ work'[d] = work[d]
           /\ snaps' = snaps \/ (snaps' = snaps \cup work[c] /\ stage[c] = "emit")
           /\ hurt \subseteq hurt'
           /\ \A s \in work[c] : s.cycle = c /\ (stage[c] = "emit" => s.asset = Asset(c))
<1>t. DOMAIN work = Cycles /\ \A s \in work[c] : s.cycle = c /\ s.asset = Asset(c)
  BY Basics DEF IInv, WorkAt
<1>u. /\ stage \in [Cycles -> Stages] /\ todo \in [Cycles -> SUBSET Assets]
      /\ counts \in [Cycles -> Tallies] /\ row \in [Cycles -> RowStates]
  BY Basics DEF Typed
<1> USE <1>t, <1>u DEF Goto, CommitFails, Stored, NoWork, taskVars, dbVars, historyVars
<1>1. CASE Start(c) \/ Create(c) \/ Pick(c) \/ Finish(c) \/ Release(c) \/ Kill(c)
  BY <1>1 DEF Start, Create, Pick, Finish, Release, Kill
<1>2. CASE Raise(c)
  BY <1>2 DEF Raise
<1>3. CASE Measure(c) \/ Snapshot(c)
  BY <1>3 DEF Measure, Snapshot
<1>4. CASE Emit(c)
  BY <1>4 DEF Emit, Undone
<1>5. CASE Commit(c)
  <2>1. \A d \in Cycles \ {c} : counts'[d] = counts[d]
    BY <1>5, CountsRight DEF Commit
  <2> QED BY <1>5, <2>1 DEF Commit, Finished
<1>6. CASE AssetFails(c) \/ SessionBreaks(c)
  <2>1. \A d \in Cycles \ {c} : counts'[d] = counts[d]
    BY <1>6, CountsRight DEF AssetFails, SessionBreaks, CountsFailure
  <2> QED BY <1>6, <2>1 DEF AssetFails, SessionBreaks, Finished
<1> QED BY <1>1, <1>2, <1>3, <1>4, <1>5, <1>6 DEF Step

LEMMA OthersCounted ==
    ASSUME IInv, Typed, Counted, NEW c \in Cycles, Start(c) \/ Step(c) \/ Kill(c),
           NEW d \in Cycles \ hurt', d # c
    PROVE  CountedOf(d)'
<1>1. /\ stage'[d] = stage[d] /\ counts'[d] = counts[d] /\ todo'[d] = todo[d]
      /\ row'[d] = row[d] /\ work'[d] = work[d] /\ d \notin hurt
      /\ snaps' = snaps \/ snaps' = snaps \cup work[c]
      /\ \A s \in work[c] : s.cycle = c
  BY StepsOfOne
<1>2. StoredBy(d)' = StoredBy(d)
  BY <1>1 DEF StoredBy
<1>3. StoredAssets(d)' = StoredAssets(d)
  BY <1>2 DEF StoredAssets
<1>4. Asset(d)' = Asset(d) /\ Status(d)' = Status(d)
  BY <1>1 DEF Asset, Status
<1>5. CountedOf(d)
  BY <1>1 DEF Counted
<1> QED BY <1>1, <1>2, <1>3, <1>4, <1>5 DEF CountedOf

\* What a cycle stores: the asset it works on, once.
LEMMA StoresOne ==
    ASSUME IInv, Typed, NEW c \in Cycles, CountedOf(c), stage[c] = "emit", snaps' = snaps \cup work[c]
    PROVE  /\ StoredAssets(c)' = StoredAssets(c) \cup {Asset(c)}
           /\ Asset(c) \in StoredAssets(c)'
           /\ \A s, t \in StoredBy(c)' : s.asset = t.asset => s = t
<1>1. /\ \A s \in work[c] : s.cycle = c /\ s.asset = Asset(c)
      /\ \A s, t \in work[c] : s = t
  BY DEF IInv, WorkAt
<1>2. StoredBy(c)' = StoredBy(c) \cup work[c]
  BY <1>1 DEF StoredBy
<1>3. StoredAssets(c)' = StoredAssets(c) \cup {s.asset : s \in work[c]}
  BY <1>2 DEF StoredAssets
<1>4. CASE work[c] = {}
  <2>1. StoredBy(c)' = StoredBy(c) /\ StoredAssets(c)' = StoredAssets(c)
    BY <1>2, <1>3, <1>4
  <2>2. Asset(c) \in StoredAssets(c)
    BY <1>4 DEF CountedOf
  <2>3. StoredAssets(c)' = StoredAssets(c) \cup {Asset(c)}
    BY <2>1, <2>2
  <2> QED BY <2>1, <2>2, <2>3 DEF CountedOf
<1>5. CASE work[c] # {}
  <2>1. {s.asset : s \in work[c]} = {Asset(c)} /\ Asset(c) \notin StoredAssets(c)
    BY <1>1, <1>5 DEF CountedOf
  <2>2. \A s, t \in StoredBy(c) : s.asset = t.asset => s = t
    BY DEF CountedOf
  <2>3. \A s \in StoredBy(c) : s.asset # Asset(c)
    BY <2>1 DEF StoredAssets
  <2>4. \A s, t \in StoredBy(c)' : s.asset = t.asset => s = t
    BY <1>1, <1>2, <2>2, <2>3
  <2>5. StoredAssets(c)' = StoredAssets(c) \cup {Asset(c)}
    BY <1>3, <2>1
  <2>6. Asset(c) \in StoredAssets(c)'
    BY <2>5
  <2> QED BY <2>4, <2>5, <2>6, Zenon
<1> QED BY <1>4, <1>5

\* Until it emits, nothing of the asset is stored.
LEMMA NothingYet ==
    ASSUME IInv, NEW c \in Cycles, stage[c] \in {"measure", "snapshot"}, todo[c] # {}
    PROVE  Asset(c) \in todo[c] /\ Asset(c) \notin StoredAssets(c)
<1>1. Asset(c) \in todo[c]
  BY AssetIsTodo
<1>2. \A s \in StoredBy(c) : s.asset \notin todo[c]
  BY DEF IInv, OnceEach, StoredBy
<1> QED BY <1>1, <1>2 DEF StoredAssets

\* An asset is done: it was stored, or it was not.
LEMMA OneStored ==
    ASSUME Typed, NEW c \in Cycles, NEW a \in todo[c], NEW S \in SUBSET AssetsOf(c), NEW T,
           T = S \cup {a}
    PROVE  /\ Cardinality(T \ (todo[c] \ {a})) = Cardinality(S \ todo[c]) + 1
           /\ (AssetsOf(c) \ (todo[c] \ {a})) \ T = (AssetsOf(c) \ todo[c]) \ S
<1> DEFINE rest == S \ todo[c]
<1>1. rest \in SUBSET AssetsOf(c) /\ a \notin rest
  OBVIOUS
<1>2. T \ (todo[c] \ {a}) = rest \cup {a}
  OBVIOUS
<1>3. (AssetsOf(c) \ (todo[c] \ {a})) \ T = (AssetsOf(c) \ todo[c]) \ S
  OBVIOUS
<1> HIDE DEF rest
<1>4. IsFiniteSet(rest)
  BY <1>1, AssetsFinite
<1>5. Cardinality(rest \cup {a}) = Cardinality(rest) + 1
  BY <1>1, <1>4, FS_AddElement
<1>6. Cardinality(T \ (todo[c] \ {a})) = Cardinality(rest) + 1
  BY <1>2, <1>5
<1> QED BY <1>3, <1>6 DEF rest

LEMMA OneFailed ==
    ASSUME Typed, NEW c \in Cycles, NEW a \in todo[c], NEW S \in SUBSET AssetsOf(c), a \notin S
    PROVE  /\ S \ (todo[c] \ {a}) = S \ todo[c]
           /\ Cardinality((AssetsOf(c) \ (todo[c] \ {a})) \ S) = Cardinality((AssetsOf(c) \ todo[c]) \ S) + 1
<1> DEFINE rest == (AssetsOf(c) \ todo[c]) \ S
<1>1. rest \in SUBSET AssetsOf(c) /\ a \notin rest /\ a \in AssetsOf(c)
  BY DEF Typed
<1>2. (AssetsOf(c) \ (todo[c] \ {a})) \ S = rest \cup {a}
  BY <1>1
<1>3. S \ (todo[c] \ {a}) = S \ todo[c]
  OBVIOUS
<1> HIDE DEF rest
<1>4. IsFiniteSet(rest)
  BY <1>1, AssetsFinite
<1>5. Cardinality(rest \cup {a}) = Cardinality(rest) + 1
  BY <1>1, <1>4, FS_AddElement
<1>6. Cardinality((AssetsOf(c) \ (todo[c] \ {a})) \ S) = Cardinality(rest) + 1
  BY <1>2, <1>5
<1> QED BY <1>3, <1>6 DEF rest

LEMMA OwnCounted ==
    ASSUME IInv, Typed, NEW c \in Cycles \ hurt', CountedOf(c), Start(c) \/ Step(c) \/ Kill(c), hurt \subseteq hurt'
    PROVE  CountedOf(c)'
<1> USE DEF Goto, CommitFails, NoWork, taskVars, dbVars, historyVars
<1>t. /\ stage \in [Cycles -> Stages] /\ todo \in [Cycles -> SUBSET Assets] /\ DOMAIN work = Cycles
      /\ counts \in [Cycles -> Tallies] /\ row \in [Cycles -> RowStates] /\ c \notin hurt
  BY Basics DEF Typed
<1>s. ASSUME snaps' = snaps
      PROVE  /\ StoredBy(c)' = StoredBy(c) /\ StoredAssets(c)' = StoredAssets(c)
  <2>1. StoredBy(c)' = StoredBy(c)
    BY <1>s DEF StoredBy
  <2> QED BY <2>1 DEF StoredAssets
<1>w. StoredAssets(c) \subseteq AssetsOf(c) \/ stage[c] \notin {"measure", "snapshot", "emit", "return", "returned"}
  BY DEF CountedOf
<1>1. CASE Start(c)
  BY <1>1, <1>s, <1>t DEF Start, CountedOf
<1>2. CASE Create(c)
  BY <1>2, <1>s, <1>t DEF Create, CountedOf
<1>3. CASE Pick(c)
  <2>1. todo'[c] = AssetsOf(c) /\ stage'[c] = "measure" /\ stage[c] = "pick" /\ counts' = counts /\ snaps' = snaps
    BY <1>3, <1>t DEF Pick, Picked
  <2>2. StoredBy(c) = {}
    BY <2>1 DEF IInv, OnceEach, StoredBy
  <2>3. StoredAssets(c) = {}
    BY <2>2 DEF StoredAssets
  <2>4. StoredAssets(c)' \ todo'[c] = {} /\ (AssetsOf(c) \ todo'[c]) \ StoredAssets(c)' = {}
    BY <1>s, <2>1, <2>3
  <2>5. counts[c].processed = 0 /\ counts[c].failed = 0
    BY <2>1 DEF CountedOf
  <2> QED BY <1>s, <2>1, <2>2, <2>3, <2>4, <2>5, FS_EmptySet DEF CountedOf
<1>4. CASE Finish(c)
  <2>1. /\ row'[c] = Status(c) /\ stage'[c] = "return" /\ stage[c] = "measure" /\ counts' = counts /\ snaps' = snaps
        /\ todo' = todo /\ todo[c] = {}
    BY <1>4, <1>t DEF Finish
  <2>2. Status(c)' = Status(c)
    BY <2>1 DEF Status
  <2> QED BY <1>s, <2>1, <2>2 DEF CountedOf
<1>5. CASE Raise(c)
  BY <1>5 DEF Raise, CountedOf
<1>6. CASE Release(c)
  <2>1. stage[c] = "return" /\ stage'[c] = "returned" /\ UNCHANGED <<counts, todo, work, due, row, snaps>>
    BY <1>6, <1>t DEF Release, CountedOf
  <2>2. Status(c)' = Status(c)
    BY <2>1 DEF Status
  <2> QED BY <1>s, <2>1, <2>2 DEF CountedOf
<1>7. CASE Kill(c)
  BY <1>7, <1>s, <1>t DEF Kill, CountedOf
<1>8. CASE Measure(c)
  <2>1. stage[c] = "measure" /\ stage'[c] = "snapshot" /\ UNCHANGED <<counts, todo, row, snaps>>
    BY <1>8, <1>t DEF Measure
  <2> QED BY <1>s, <2>1 DEF CountedOf
<1>9. CASE Snapshot(c)
  <2>1. stage[c] = "snapshot" /\ stage'[c] = "emit" /\ UNCHANGED <<counts, todo, row, snaps>> /\ work'[c] # {}
    BY <1>9, <1>t DEF Snapshot
  <2>2. todo[c] # {}
    BY <2>1 DEF IInv, WorkAt
  <2>3. Asset(c)' = Asset(c) /\ Asset(c) \notin StoredAssets(c)
    BY <2>1, <2>2, NothingYet DEF Asset
  <2> QED BY <1>s, <2>1, <2>3 DEF CountedOf
<1>10. CASE Emit(c)
  <2>1. stage[c] = "emit" /\ stage'[c] = "emit" /\ UNCHANGED <<counts, todo, row>> /\ work'[c] = {}
        /\ snaps' = snaps \cup work[c]
    BY <1>10, <1>t DEF Emit, Stored
  <2>2. Asset(c)' = Asset(c) /\ todo[c] # {} /\ Asset(c) \in todo[c] /\ todo[c] \subseteq AssetsOf(c)
    BY <2>1, AssetIsTodo DEF Asset, IInv, WorkAt, Typed
  <2>3. /\ StoredAssets(c)' \ todo[c] = StoredAssets(c) \ todo[c]
        /\ (AssetsOf(c) \ todo[c]) \ StoredAssets(c)' = (AssetsOf(c) \ todo[c]) \ StoredAssets(c)
        /\ StoredAssets(c)' \subseteq AssetsOf(c) /\ Asset(c) \in StoredAssets(c)'
        /\ \A s, t \in StoredBy(c)' : s.asset = t.asset => s = t
    BY <1>w, <2>1, <2>2, StoresOne
  <2> QED BY <2>1, <2>2, <2>3 DEF CountedOf
<1>11. CASE Commit(c)
  <2>1. /\ stage[c] = "emit" /\ stage'[c] = "measure" /\ todo'[c] = todo[c] \ {Asset(c)} /\ row' = row
        /\ snaps' = snaps \cup work[c] /\ Counts(c, 1, 0)
    BY <1>11, <1>t DEF Commit, Stored, Finished
  <2>2. todo[c] # {} /\ Asset(c) \in todo[c] /\ todo[c] \subseteq AssetsOf(c)
    BY <2>1, AssetIsTodo DEF IInv, WorkAt, Typed
  <2>3. counts'[c].processed = counts[c].processed + 1 /\ counts'[c].failed = counts[c].failed + 0
    BY <1>t, <2>1, CountsRight
  <2>4. /\ Cardinality(StoredAssets(c)' \ todo'[c]) = Cardinality(StoredAssets(c) \ todo[c]) + 1
        /\ (AssetsOf(c) \ todo'[c]) \ StoredAssets(c)' = (AssetsOf(c) \ todo[c]) \ StoredAssets(c)
    <3>1. StoredAssets(c)' = StoredAssets(c) \cup {Asset(c)}
      BY <2>1, StoresOne DEF CountedOf
    <3>2. StoredAssets(c) \in SUBSET AssetsOf(c)
      BY <1>w, <2>1
    <3>3. todo'[c] = todo[c] \ {Asset(c)}
      BY <2>1
    <3> QED BY <2>2, <3>1, <3>2, <3>3, OneStored
  <2>5. StoredAssets(c)' \subseteq AssetsOf(c) /\ \A s, t \in StoredBy(c)' : s.asset = t.asset => s = t
    BY <1>w, <2>1, <2>2, StoresOne
  <2>6. counts[c].failed \in Nat
    BY <1>t DEF Tallies
  <2>7. /\ counts[c].processed = Cardinality(StoredAssets(c) \ todo[c])
        /\ counts[c].failed = Cardinality((AssetsOf(c) \ todo[c]) \ StoredAssets(c))
    BY <2>1 DEF CountedOf
  <2>8. counts'[c].processed = Cardinality(StoredAssets(c)' \ todo'[c])
    BY <2>3, <2>4, <2>7
  <2>9. counts'[c].failed = Cardinality((AssetsOf(c) \ todo'[c]) \ StoredAssets(c)')
    <3>1. counts'[c].failed = counts[c].failed
      BY <2>3, <2>6
    <3> QED BY <2>4, <2>7, <3>1, Zenon
  <2>10. AssetsOf(c)' = AssetsOf(c)
    BY DEF AssetsOf
  <2> QED BY <2>1, <2>5, <2>8, <2>9, <2>10 DEF CountedOf
<1>12. CASE AssetFails(c)
  <2>1. /\ stage[c] \in {"measure", "snapshot"} /\ stage'[c] = "measure" /\ todo'[c] = todo[c] \ {Asset(c)} /\ row' = row
        /\ snaps' = snaps /\ Counts(c, 0, 1) /\ todo[c] # {}
    BY <1>12, <1>t DEF AssetFails, Finished, CountsFailure
  <2>2. Asset(c) \in todo[c] /\ Asset(c) \notin StoredAssets(c)
    BY <2>1, NothingYet
  <2>3. counts'[c].processed = counts[c].processed + 0 /\ counts'[c].failed = counts[c].failed + 1
    BY <1>t, <2>1, CountsRight
  <2>4. /\ StoredAssets(c) \ todo'[c] = StoredAssets(c) \ todo[c]
        /\ Cardinality((AssetsOf(c) \ todo'[c]) \ StoredAssets(c)) = Cardinality((AssetsOf(c) \ todo[c]) \ StoredAssets(c)) + 1
    <3>1. StoredAssets(c) \in SUBSET AssetsOf(c)
      BY <1>w, <2>1
    <3>2. todo'[c] = todo[c] \ {Asset(c)}
      BY <2>1
    <3> QED BY <2>2, <3>1, <3>2, OneFailed
  <2>5. counts[c].processed \in Nat
    BY <1>t DEF Tallies
  <2>6. /\ counts[c].processed = Cardinality(StoredAssets(c) \ todo[c])
        /\ counts[c].failed = Cardinality((AssetsOf(c) \ todo[c]) \ StoredAssets(c))
        /\ \A s, t \in StoredBy(c) : s.asset = t.asset => s = t
    BY <2>1 DEF CountedOf
  <2>7. StoredAssets(c)' = StoredAssets(c) /\ StoredBy(c)' = StoredBy(c)
    BY <1>s, <2>1
  <2>8. counts'[c].processed = Cardinality(StoredAssets(c)' \ todo'[c])
    <3>1. counts'[c].processed = counts[c].processed
      BY <2>3, <2>5
    <3> QED BY <2>4, <2>6, <2>7, <3>1, Zenon
  <2>9. counts'[c].failed = Cardinality((AssetsOf(c) \ todo'[c]) \ StoredAssets(c)')
    BY <2>3, <2>4, <2>6, <2>7
  <2>10. AssetsOf(c)' = AssetsOf(c)
    BY DEF AssetsOf
  <2> QED BY <1>w, <2>1, <2>6, <2>7, <2>8, <2>9, <2>10 DEF CountedOf
<1>13. CASE SessionBreaks(c)
  BY <1>13 DEF SessionBreaks
<1> QED BY <1>1, <1>2, <1>3, <1>4, <1>5, <1>6, <1>7, <1>8, <1>9, <1>10, <1>11, <1>12, <1>13 DEF Step

LEMMA CountedStep ==
    ASSUME IInv, Typed, Counted, [Next]_vars
    PROVE  Counted'
<1>1. ASSUME NEW c \in Cycles, Start(c) \/ Step(c) \/ Kill(c)
      PROVE  Counted'
  <2> SUFFICES ASSUME NEW d \in Cycles \ hurt' PROVE CountedOf(d)'
    BY DEF Counted
  <2>1. hurt \subseteq hurt'
    BY <1>1, StepsOfOne
  <2>2. CASE d = c
    <3>1. CountedOf(c)
      BY <2>1, <2>2 DEF Counted
    <3> QED BY <1>1, <2>1, <2>2, <3>1, OwnCounted
  <2>3. CASE d # c
    BY <1>1, <2>3, OthersCounted
  <2> QED BY <2>2, <2>3
<1>2. ASSUME UNCHANGED <<taskVars, dbVars, hurt>>
      PROVE  Counted'
  <2>1. \A c \in Cycles : StoredBy(c)' = StoredBy(c)
    BY <1>2 DEF StoredBy, dbVars
  <2>2. \A c \in Cycles : StoredAssets(c)' = StoredAssets(c)
    BY <2>1 DEF StoredAssets
  <2>3. \A c \in Cycles : Asset(c)' = Asset(c) /\ Status(c)' = Status(c)
    BY <1>2 DEF Asset, Status, taskVars
  <2>4. UNCHANGED <<stage, counts, todo, work, row, hurt>>
    BY <1>2 DEF taskVars, dbVars
  <2>5. ASSUME NEW c \in Cycles \ hurt', CountedOf(c) PROVE CountedOf(c)'
    BY <2>1, <2>2, <2>3, <2>4, <2>5 DEF CountedOf
  <2> QED BY <2>4, <2>5 DEF Counted
<1>3. ASSUME NEW k \in Keys, Expire(k) \/ Forget(k)
      PROVE  Counted'
  BY <1>2, <1>3 DEF Expire, Forget, historyVars
<1>4. CASE UNCHANGED vars
  BY <1>2, <1>4 DEF vars, historyVars
<1> QED BY <1>1, <1>3, <1>4 DEF Next

LEMMA CountedInvariant == Spec => []Counted
<1>1. Init => Counted
  <2> SUFFICES ASSUME Init, NEW c \in Cycles PROVE CountedOf(c)
    BY DEF Counted
  <2>1. stage[c] = "queued" /\ counts[c].processed = 0 /\ counts[c].failed = 0
    BY DEF Init
  <2>2. StoredBy(c) = {}
    BY DEF Init, StoredBy
  <2> QED BY <2>1, <2>2 DEF CountedOf
<1> QED BY <1>1, CountedStep, CycleInvariant, TypedInvariant, PTL DEF Spec

\* Each stored asset has one snapshot of the cycle.
LEMMA OneSnapshotEach ==
    ASSUME NEW c \in Cycles, StoredAssets(c) \subseteq AssetsOf(c),
           \A s, t \in StoredBy(c) : s.asset = t.asset => s = t
    PROVE  Cardinality(StoredBy(c)) = Cardinality(StoredAssets(c))
<1> DEFINE S == StoredBy(c)
           T == StoredAssets(c)
           f == [s \in S |-> s.asset]
<1>1. f \in Bijection(S, T)
  <2>1. f \in [S -> T]
    BY DEF StoredAssets
  <2>2. \A s, t \in S : f[s] = f[t] => s = t
    OBVIOUS
  <2>3. \A a \in T : \E s \in S : f[s] = a
    BY DEF StoredAssets
  <2> QED BY <2>1, <2>2, <2>3, Fun_IsBij
<1>2. IsFiniteSet(T)
  BY AssetsFinite
<1> HIDE DEF S, T, f
<1>3. ExistsBijection(S, T)
  BY <1>1 DEF ExistsBijection
<1>4. ExistsBijection(T, S)
  BY <1>3, Fun_ExistsBijSymmetric
<1>5. Cardinality(S) = Cardinality(T)
  BY <1>2, <1>4, FS_Bijection
<1> QED BY <1>5 DEF S, T

\* A cycle of which no commit failed reports exactly what it stored (orchestrator.py:255).
THEOREM ReportsAreExact == Spec => []ReportIsExact
<1>1. Counted /\ Typed => ReportIsExact
  <2> SUFFICES ASSUME Counted, Typed, NEW c \in Cycles \ hurt, stage[c] \in {"returned", "raised"}
               PROVE  /\ row[c] \in Finals
                      /\ counts[c].processed = Cardinality(StoredBy(c))
                      /\ counts[c].processed + counts[c].failed = Cardinality(AssetsOf(c))
                      /\ row[c] = "completed" <=> {s.asset : s \in StoredBy(c)} = AssetsOf(c)
    BY DEF ReportIsExact
  <2> DEFINE S == StoredAssets(c)
             A == AssetsOf(c)
  <2>1. /\ counts[c].processed = Cardinality(S) /\ counts[c].failed = Cardinality(A \ S)
        /\ S \subseteq A /\ row[c] = Status(c) /\ \A s, t \in StoredBy(c) : s.asset = t.asset => s = t
    <3>1. CountedOf(c) /\ stage[c] = "returned"
      BY DEF Counted, CountedOf
    <3>2. todo[c] = {} /\ row[c] = Status(c)
      BY <3>1 DEF CountedOf
    <3>3. S \ todo[c] = S /\ A \ todo[c] = A
      BY <3>2
    <3> QED BY <3>1, <3>2, <3>3 DEF CountedOf
  <2>2. Cardinality(StoredBy(c)) = Cardinality(S)
    BY <2>1, OneSnapshotEach
  <2>3. IsFiniteSet(A) /\ IsFiniteSet(S) /\ IsFiniteSet(A \ S)
    BY <2>1, AssetsFinite
  <2>4. {s.asset : s \in StoredBy(c)} = S
    BY DEF StoredAssets
  <2> HIDE DEF S, A
  <2>5. Cardinality(A) = Cardinality(S) + Cardinality(A \ S)
    <3>1. A = S \cup (A \ S) /\ S \cap (A \ S) = {}
      BY <2>1
    <3>2. Cardinality(S \cup (A \ S)) = Cardinality(S) + Cardinality(A \ S) - Cardinality(S \cap (A \ S))
      BY <2>3, FS_Union
    <3>3. Cardinality(S \cap (A \ S)) = 0
      BY <3>1, FS_EmptySet
    <3>4. Cardinality(S) \in Nat /\ Cardinality(A \ S) \in Nat
      BY <2>3, FS_CardinalityType
    <3>5. Cardinality(S \cup (A \ S)) = Cardinality(S) + Cardinality(A \ S)
      BY <3>2, <3>3, <3>4
    <3> QED BY <3>1, <3>5
  <2>6. row[c] = "completed" <=> counts[c].failed = 0
    BY <2>1 DEF Status
  <2>7. Cardinality(A \ S) = 0 <=> A \ S = {}
    BY <2>3, FS_EmptySet
  <2>8. A \ S = {} <=> S = A
    BY <2>1
  <2>9. row[c] \in Finals
    BY <2>1 DEF Status, Finals
  <2>10. Cardinality(A) = Cardinality(AssetsOf(c))
    BY DEF A
  <2>11. row[c] = "completed" <=> S = A
    BY <2>1, <2>6, <2>7, <2>8
  <2>12. row[c] = "completed" <=> {s.asset : s \in StoredBy(c)} = AssetsOf(c)
    BY <2>4, <2>11 DEF A
  <2> QED BY <2>1, <2>2, <2>5, <2>9, <2>10, <2>12
<1> QED BY <1>1, CountedInvariant, TypedInvariant, PTL
=============================================================================

------------------------------ MODULE DqcCycle ------------------------------
(***************************************************************************)
(* The quality cycles (services/dqc/orchestrator.py) on Celery workers: a  *)
(* Redis lock per scope, the row of the cycle, and asset after asset its   *)
(* scores, its snapshot with the signal before, and the events of a change.*)
(*                                                                         *)
(* All of an asset's work is one transaction that emit_event commits in    *)
(* passing, with its own first event.  A commit of emit_event that fails   *)
(* is swallowed: the work is gone, the cycle does not know.  The time      *)
(* limit of a task is the time to live of its lock, so that a lock runs    *)
(* out only on a worker that is dead, or when Redis forgets.               *)
(***************************************************************************)
EXTENDS DqcScorer, TLC

CONSTANTS Assets,     \* numbers: a cycle takes the enabled ones by their id
          Cycles,     \* the tasks that were queued
          Scope,      \* of each task: what it runs, and the asset if it is one's
          LightDims,  \* the dimensions of HOURLY_LIGHT_RULE_TYPES
          Truths,     \* what the rules of all dimensions may find
          MaxFaults   \* bound: failing commits, rules and releases, kills, losses of Redis

ASSUME CycleAssumption ==
    /\ Assets \subseteq Nat \ {0} /\ IsFiniteSet(Assets) /\ LightDims \subseteq Dims
    /\ Truths \subseteq [Dims -> 0..100] /\ MaxFaults \in Nat
    /\ Scope \in [Cycles -> ({"full", "hourly"} \X {0}) \cup ({"asset"} \X Assets)]

ASSUME NoOneAssumption == "nobody" \notin Cycles

VARIABLES stage,    \* where the task of each cycle is
          row,      \* the status of its row
          counts,   \* assets_processed and assets_failed
          todo,     \* the assets it has not finished
          work,     \* the snapshot of its open transaction, if there is one
          due,      \* the events it has still to emit
          lock,     \* of each key: the task whose token it holds
          snaps,    \* snapshots stored, each with the scores of its dimensions
          events,   \* asset events stored
          clock,    \* the time of the last measurement
          faults,   \* faults so far
          hurt,     \* history: cycles of which a commit failed
          lost,     \* history: Redis has forgotten a lock
          before    \* history: the cycles that were over when each began

taskVars == <<stage, counts, todo, work, due>>
dbVars == <<row, snaps, events>>
historyVars == <<hurt, lost, before>>
vars == <<taskVars, dbVars, lock, clock, faults, historyVars>>
----------------------------------------------------------------------------
NoOne == "nobody"

Key(c) == Scope[c]
Keys == {Key(c) : c \in Cycles}
AssetsOf(c) == IF Scope[c][1] = "asset" THEN {Scope[c][2]} ELSE Assets

Idle == {"queued", "skipped", "returned", "raised", "killed"}
Over == {"skipped", "returned", "raised", "killed"}
Finals == {"completed", "partial", "failed"}
Runs(c) == stage[c] \notin Idle

Init ==
    /\ stage = [c \in Cycles |-> "queued"] /\ row = [c \in Cycles |-> "none"]
    /\ counts = [c \in Cycles |-> [processed |-> 0, failed |-> 0]]
    /\ todo = [c \in Cycles |-> {}] /\ work = [c \in Cycles |-> {}]
    /\ due = [c \in Cycles |-> <<>>]
    /\ lock = [k \in Keys |-> NoOne] /\ snaps = {} /\ events = {} /\ clock = 0 /\ faults = 0
    /\ hurt = {} /\ lost = FALSE /\ before = [c \in Cycles |-> {}]

Goto(c, place) == stage' = [stage EXCEPT ![c] = place]
Fault == faults < MaxFaults /\ faults' = faults + 1

\* The open transaction is stored, or gone.
Stored(c) == snaps' = snaps \cup work[c]
NoWork(c) == work' = [work EXCEPT ![c] = {}]
CommitFails(c) == Fault /\ hurt' = hurt \cup {c}

\* Mutant: the order by time is ascending.
Earliest(a) == {s \in snaps : s.asset = a /\ \A t \in snaps : t.asset = a => s.at <= t.at}

Latest(a) == {s \in snaps : s.asset = a /\ \A t \in snaps : t.asset = a => t.at <= s.at}
ScoresBefore(a) == IF Latest(a) = {} THEN NoScores ELSE (CHOOSE s \in Latest(a) : TRUE).scores
SignalBefore(a) == IF Latest(a) = {} THEN "none" ELSE (CHOOSE s \in Latest(a) : TRUE).signal
TimeBefore(a) == IF Latest(a) = {} THEN 0 ELSE (CHOOSE s \in Latest(a) : TRUE).at

Asset(c) == Min(todo[c])
----------------------------------------------------------------------------
(* _run_cycle *)
\* Mutant: the key is set, whoever has set it.
Anyway(k) == TRUE

IsFree(k) == lock[k] = NoOne

Start(c) ==
    /\ stage[c] = "queued"
    /\ before' = [before EXCEPT ![c] = {d \in Cycles : stage[d] \in Over}]
    /\ IF IsFree(Key(c))
       THEN lock' = [lock EXCEPT ![Key(c)] = c] /\ Goto(c, "create")
       ELSE Goto(c, "skipped") /\ UNCHANGED lock
    /\ UNCHANGED <<counts, todo, work, due, dbVars, clock, faults, hurt, lost>>

Create(c) ==
    /\ stage[c] = "create"
    /\ \/ row' = [row EXCEPT ![c] = "pending"] /\ Goto(c, "pick") /\ UNCHANGED <<faults, hurt>>
       \/ CommitFails(c) /\ Goto(c, "raise") /\ UNCHANGED row
    /\ UNCHANGED <<counts, todo, work, due, snaps, events, lock, clock, lost, before>>

\* Mutant: a run of one asset takes them all.
AllAssets(c) == Assets

Picked(c) == AssetsOf(c)

Pick(c) ==
    /\ stage[c] = "pick"
    /\ \/ /\ row' = [row EXCEPT ![c] = "running"] /\ todo' = [todo EXCEPT ![c] = Picked(c)]
          /\ Goto(c, "measure") /\ UNCHANGED <<faults, hurt>>
       \/ CommitFails(c) /\ Goto(c, "raise") /\ UNCHANGED <<row, todo>>
    /\ UNCHANGED <<counts, work, due, snaps, events, lock, clock, lost, before>>

\* All assets are done: the row's last status, flushed.
Status(c) == IF counts[c].failed = 0 THEN "completed"
             ELSE IF counts[c].processed = 0 THEN "failed" ELSE "partial"

\* emit_event stores it with the event; when its commit is swallowed, nothing is left to
\* store; when the session is broken by it, the cycle's own commit raises.
Finish(c) ==
    /\ stage[c] = "measure" /\ todo[c] = {}
    /\ \/ row' = [row EXCEPT ![c] = Status(c)] /\ Goto(c, "return") /\ UNCHANGED <<faults, hurt>>
       \/ /\ CommitFails(c)
          /\ \/ UNCHANGED row /\ (Goto(c, "return") \/ Goto(c, "raise"))
             \/ row' = [row EXCEPT ![c] = Status(c)] /\ Goto(c, "raise")
    /\ UNCHANGED <<counts, todo, work, due, snaps, events, lock, clock, lost, before>>

\* The exception of a cycle marks a row that there is, unless that fails too.
Raise(c) ==
    /\ stage[c] = "raise"
    /\ \/ /\ row' = IF row[c] = "none" THEN row ELSE [row EXCEPT ![c] = "failed"]
          /\ counts' = [counts EXCEPT ![c] = [processed |-> 0, failed |-> 0]]
          /\ UNCHANGED <<faults, hurt>>
       \/ CommitFails(c) /\ UNCHANGED <<row, counts>>
    /\ Goto(c, "release")
    /\ UNCHANGED <<todo, work, due, snaps, events, lock, clock, lost, before>>

\* The script compares the token.
OwnToken(c) == lock' = [lock EXCEPT ![Key(c)] = IF @ = c THEN NoOne ELSE @]

Release(c) ==
    /\ stage[c] \in {"return", "release"}
    /\ Goto(c, IF stage[c] = "return" THEN "returned" ELSE "raised")
    /\ \/ OwnToken(c) /\ UNCHANGED faults
       \/ Fault /\ UNCHANGED lock
    /\ UNCHANGED <<counts, todo, work, due, dbVars, clock, historyVars>>
----------------------------------------------------------------------------
(* _process_asset *)
\* A light cycle finds nothing wrong where it has no rule.
Found(c, truth) ==
    [d \in Dims |-> IF Scope[c][1] = "hourly" /\ d \notin LightDims THEN 100 ELSE truth[d]]

\* The rules' results, the time, and the scores before.
Measure(c) ==
    /\ stage[c] = "measure" /\ todo[c] # {}
    /\ clock' = clock + 1 /\ Goto(c, "snapshot")
    /\ \E truth \in Truths :
          work' = [work EXCEPT ![c] =
              {[cycle |-> c, asset |-> Asset(c), at |-> clock', scores |-> Found(c, truth),
               signal |-> AssetSignal(Found(c, truth), ScoresBefore(Asset(c))),
                prev |-> "none", prevAt |-> 0]}]
    /\ UNCHANGED <<counts, todo, due, dbVars, lock, faults, historyVars>>

\* The snapshot before, read after the scores before.
Snapshot(c) ==
    /\ stage[c] = "snapshot"
    /\ \E s \in work[c] : LET prev == SignalBefore(Asset(c)) IN
          /\ work' = [work EXCEPT ![c] = {[s EXCEPT !.prev = prev, !.prevAt = TimeBefore(Asset(c))]}]
          /\ due' = [due EXCEPT ![c] = Announcements(prev, s.signal)]
    /\ Goto(c, "emit")
    /\ UNCHANGED <<counts, todo, dbVars, lock, clock, faults, historyVars>>

\* Mutant: a failed commit undoes the event only.
Kept(c) == UNCHANGED work

Undone(c) == NoWork(c)

\* Mutant: an asset has one event (elif).
NoMore(c) == <<>>

Remaining(c) == Tail(due[c])

\* emit_event's commit stores what is open, and is swallowed when it fails.
Emit(c) ==
    /\ stage[c] = "emit" /\ due[c] # <<>>
    /\ due' = [due EXCEPT ![c] = Remaining(c)]
    /\ \/ /\ events' = events \cup {<<c, Asset(c), Head(due[c])>>}
          /\ Stored(c) /\ NoWork(c) /\ UNCHANGED <<faults, hurt>>
       \/ CommitFails(c) /\ Undone(c) /\ UNCHANGED <<events, snaps>>
    /\ UNCHANGED <<stage, counts, todo, row, lock, clock, lost, before>>

Finished(c) == todo' = [todo EXCEPT ![c] = @ \ {Asset(c)}] /\ Goto(c, "measure")
Counts(c, processed, failed) ==
    counts' = [counts EXCEPT ![c] = [processed |-> @.processed + processed, failed |-> @.failed + failed]]

\* The asset is counted before its commit.
Commit(c) ==
    /\ stage[c] = "emit" /\ due[c] = <<>>
    /\ \/ Stored(c) /\ Counts(c, 1, 0) /\ UNCHANGED <<faults, hurt>>
       \/ CommitFails(c) /\ Counts(c, 1, 1) /\ UNCHANGED snaps
    /\ NoWork(c) /\ Finished(c)
    /\ UNCHANGED <<due, row, events, lock, clock, lost, before>>

\* Mutant: a failure is not counted.
Uncounted(c) == Counts(c, 0, 0)

CountsFailure(c) == Counts(c, 0, 1)

\* An exception ends the asset.
AssetFails(c) ==
    /\ stage[c] \in {"measure", "snapshot"} /\ todo[c] # {} /\ Fault
    /\ NoWork(c) /\ CountsFailure(c) /\ Finished(c)
    /\ UNCHANGED <<due, dbVars, lock, clock, historyVars>>

\* So does a session that an event's commit broke, also after that had stored the work;
\* with the database away the handler raises in its turn.
SessionBreaks(c) ==
    /\ stage[c] = "emit" /\ CommitFails(c)
    /\ NoWork(c) /\ due' = [due EXCEPT ![c] = <<>>]
    /\ \/ CountsFailure(c) /\ Finished(c)
       \/ Goto(c, "raise") /\ UNCHANGED <<counts, todo>>
    /\ UNCHANGED <<dbVars, lock, clock, lost, before>>
----------------------------------------------------------------------------
\* The worker dies, or the time limit kills it.
Kill(c) ==
    /\ Runs(c) /\ Fault
    /\ Goto(c, "killed") /\ NoWork(c)
    /\ UNCHANGED <<counts, todo, due, dbVars, lock, clock, historyVars>>

\* Mutant: keys live for ever.
Endless(k) == FALSE

\* Keys live as long as a task may run.
Outlives(k) == ~Runs(lock[k])

Expire(k) ==
    /\ lock[k] # NoOne /\ Outlives(k)
    /\ lock' = [lock EXCEPT ![k] = NoOne]
    /\ UNCHANGED <<taskVars, dbVars, clock, faults, historyVars>>

\* Redis starts again without the key.
Forget(k) ==
    /\ lock[k] # NoOne /\ Fault
    /\ lock' = [lock EXCEPT ![k] = NoOne] /\ lost' = TRUE
    /\ UNCHANGED <<taskVars, dbVars, clock, hurt, before>>

Step(c) == \/ Create(c) \/ Pick(c) \/ Finish(c) \/ Raise(c) \/ Release(c)
           \/ Measure(c) \/ Snapshot(c) \/ Emit(c) \/ Commit(c) \/ AssetFails(c) \/ SessionBreaks(c)

Next == \/ \E c \in Cycles : Start(c) \/ Step(c) \/ Kill(c)
        \/ \E k \in Keys : Expire(k) \/ Forget(k)

\* A task that has begun runs on, and Redis expires keys.
Spec == /\ Init /\ [][Next]_vars
        /\ \A c \in Cycles : WF_vars(Step(c))
        /\ \A k \in Keys : WF_vars(Expire(k))
----------------------------------------------------------------------------
Stages == Idle \cup {"create", "pick", "measure", "snapshot", "emit", "return", "raise", "release"}
Snapshots == [cycle : Cycles, asset : Assets, at : Nat, scores : [Dims -> 0..100],
              signal : Signals, prev : Signals \cup {"none"}, prevAt : Nat]
EventKinds == {"signal_changed", "p0_triggered", "p1_triggered", "recovered"}

TypeOK ==
    /\ stage \in [Cycles -> Stages] /\ row \in [Cycles -> {"none", "pending", "running"} \cup Finals]
    /\ counts \in [Cycles -> [processed : Nat, failed : Nat]]
    /\ \A c \in Cycles : todo[c] \subseteq AssetsOf(c) /\ work[c] \subseteq Snapshots
    /\ \A c \in Cycles : due[c] \in Seq(EventKinds)
    /\ \A k \in Keys : lock[k] \in {c \in Cycles : Key(c) = k} \cup {NoOne}
    /\ snaps \subseteq Snapshots /\ events \subseteq Cycles \X Assets \X EventKinds
    /\ \A s, t \in snaps : s.at = t.at => s = t
    /\ clock \in Nat /\ faults \in 0..MaxFaults
    /\ hurt \subseteq Cycles /\ lost \in BOOLEAN /\ before \in [Cycles -> SUBSET Cycles]

\* `Redis lock against concurrency' (orchestrator.py:4): two cycles of one scope run beside
\* each other only if Redis forgot a lock: no key runs out on a task that still runs.
OneCyclePerKey ==
    \A c, d \in Cycles : Runs(c) /\ Runs(d) /\ Key(c) = Key(d) => c = d \/ lost

\* The end of a cycle never frees the key of another (orchestrator.py:53), even if it has
\* lost its own to that one.
OwnKeyOnly == [][\A k \in Keys : \/ lock[k] = NoOne \/ lock'[k] = lock[k]
                                 \/ stage'[lock[k]] \in Idle \/ faults' # faults]_vars

\* A stored snapshot has told at least its first event, whatever failed or died since, as
\* emit_event commits both (events/models.py:141): no stored change is silent.
StoredIsAnnounced ==
    \A s \in snaps : LET all == Announcements(s.prev, s.signal) IN
        all # <<>> => <<s.cycle, s.asset, Head(all)>> \in events

\* A cycle of which no commit failed announces all of what it stored (spec 31:2652), once it
\* is done with the asset, and nothing else.
UnhurtAnnouncesAll ==
    /\ \A s \in snaps : s.cycle \in hurt \/ stage[s.cycle] = "killed" \/ s.asset \in todo[s.cycle]
          \/ \A kind \in Range(Announcements(s.prev, s.signal)) : <<s.cycle, s.asset, kind>> \in events
    /\ \A e \in events : e[1] \in hurt
          \/ \E s \in snaps : /\ s.cycle = e[1] /\ s.asset = e[2]
                              /\ e[3] \in Range(Announcements(s.prev, s.signal))

\* Whatever is stored is announced: the first event always, all of them unless a commit
\* failed (orchestrator.py:430).
ChangesAreAnnounced == StoredIsAnnounced /\ UnhurtAnnouncesAll

\* A cycle of which no commit failed reports exactly what it stored: its counts are those of
\* its snapshots, and it is completed if every asset has one.
StoredBy(c) == {s \in snaps : s.cycle = c}
ReportIsExact ==
    \A c \in Cycles \ hurt : stage[c] \in {"returned", "raised"} =>
        /\ row[c] \in Finals
        /\ counts[c].processed = Cardinality(StoredBy(c))
        /\ counts[c].processed + counts[c].failed = Cardinality(AssetsOf(c))
        /\ row[c] = "completed" <=> {s.asset : s \in StoredBy(c)} = AssetsOf(c)

\* A cycle that begins when another is over compares with nothing older than what that one
\* stored, in whatever order cycles of other scopes store theirs.
NothingForgotten ==
    \A s, t \in snaps : s.asset = t.asset /\ s.cycle \in before[t.cycle] => t.prevAt >= s.at

\* Two snapshots follow the same earlier one, and a change may be announced twice, only under
\* different keys, or when Redis forgot one (orchestrator.py:407).
ForksNeedTwoKeys ==
    \A s, t \in snaps :
        \/ s.asset # t.asset \/ s.prevAt # t.prevAt \/ s.prevAt > Min({s.at, t.at})
        \/ s = t \/ Key(s.cycle) # Key(t.cycle) \/ lost

\* After cycles, a moment comes when every key is free, though workers die.
KeysAreFreed == (\E c \in Cycles : Runs(c)) ~> (\A k \in Keys : lock[k] = NoOne)
=============================================================================

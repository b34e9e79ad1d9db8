------------------------- MODULE CapabilityBreaker -------------------------
(***************************************************************************)
(* The circuit breaker of one capability, as its callers really meet it    *)
(* (services/capability/circuit_breaker.py and wrapper.py).                *)
(*                                                                         *)
(* A CapabilityWrapper is made for each request (app/api/search.py,        *)
(* services/data_agent/factory.py) and makes one breaker per capability.   *)
(* The breaker loads and saves its state in bi_capability_circuit_state,   *)
(* a table no migration creates: every load and every save fails and is    *)
(* logged, so a new wrapper starts from CLOSED.  Within a wrapper the      *)
(* calls follow one another; requests share the result cache (Redis) only. *)
(*                                                                         *)
(* `invoke` has one await, the dispatch: what comes before it is one step  *)
(* and what comes after it is another.  What it writes to the cost meter   *)
(* and the audit log is not modelled.                                      *)
(***************************************************************************)
EXTENDS Naturals, Integers, FiniteSets

CONSTANTS Wrappers,    \* the live requests, each with its CapabilityWrapper
          Threshold,   \* circuit_breaker.failure_threshold of the capability
          Recovery,    \* circuit_breaker.recovery_seconds
          MaxTime      \* bound: the clock stops here

ASSUME ThresholdAssumption == Threshold \in Nat \ {0}
ASSUME RecoveryAssumption == Recovery \in Nat \ {0}
ASSUME MaxTimeAssumption == MaxTime \in Nat

VARIABLES breaker,   \* breaker[w]: the wrapper's CircuitBreaker
          call,      \* call[w]: the invoke that is awaiting its backend, or how the last one ended
          cached,    \* the result cache holds the answer to this request
          now,       \* time.time()
          streak     \* history: failures recorded in a row by w, capped at Threshold

breakerVars == <<breaker, call, cached, now, streak>>

Never == -1          \* None, for a time
Times == 0..MaxTime

Breakers == [state : {"closed", "open", "half_open"}, failures : 0..(Threshold - 1),
             lastFailure : Times \cup {Never}, openedAt : Times \cup {Never},
             probed : BOOLEAN]

\* _load_from_db always fails: what __init__ set remains.
NewBreaker == [state |-> "closed", failures |-> 0, lastFailure |-> Never,
               openedAt |-> Never, probed |-> FALSE]

Results == {"none", "waiting", "limited", "refused", "cached", "ok",
            "failed", "rejected", "cancelled"}

BreakerInit == /\ breaker = [w \in Wrappers |-> NewBreaker]
               /\ call = [w \in Wrappers |-> "none"]
               /\ cached = FALSE
               /\ now = 0
               /\ streak = [w \in Wrappers |-> 0]

-----------------------------------------------------------------------------
\* _transition_to, one operator for each target.
Opened(b) == [b EXCEPT !.state = "open", !.openedAt = now, !.failures = 0]
HalfOpened(b) == [b EXCEPT !.state = "half_open", !.probed = FALSE]
Closed(b) == [b EXCEPT !.state = "closed", !.failures = 0, !.probed = FALSE,
                       !.openedAt = Never]

\* Mutant: the time of opening is not looked at.
ElapsedAtOnce(b) == b.state = "open"

RecoveryElapsed(b) == b.state = "open" /\ now - b.openedAt >= Recovery

\* _ensure_state_transition
Ensured(b) == IF RecoveryElapsed(b) THEN HalfOpened(b) ELSE b

Refuses(b) == b.state = "open" \/ (b.state = "half_open" /\ b.probed)

\* A half-open breaker marks its one probe.
Admitted(b) == IF b.state = "half_open" THEN [b EXCEPT !.probed = TRUE] ELSE b

\* Mutant: a success does not clear the count of a closed breaker.
SuccessKeepsCount(b) == IF b.state = "half_open" THEN Closed(b) ELSE b

Successful(b) == IF b.state = "half_open" THEN Closed(b) ELSE [b EXCEPT !.failures = 0]

Counted(b) == [b EXCEPT !.failures = @ + 1, !.lastFailure = now]

Failed(b) == IF b.state = "half_open" \/ b.failures + 1 >= Threshold
             THEN Opened(Counted(b)) ELSE Counted(b)

-----------------------------------------------------------------------------
Idle(w) == call[w] # "waiting"

\* invoke, up to the dispatch: the rate limiter refuses before the breaker is asked.
LimitRate(w) ==
    /\ Idle(w)
    /\ call' = [call EXCEPT ![w] = "limited"]
    /\ UNCHANGED <<breaker, cached, now, streak>>

Refuse(w) ==
    /\ Idle(w)
    /\ Refuses(Ensured(breaker[w]))
    /\ breaker' = [breaker EXCEPT ![w] = Ensured(breaker[w])]
    /\ call' = [call EXCEPT ![w] = "refused"]
    /\ UNCHANGED <<cached, now, streak>>

\* A hit returns at once; no result is recorded in the breaker that admitted it.
\* A Redis error reads as a miss, so a dispatch is possible with cached = TRUE.
Hit(w) ==
    /\ Idle(w)
    /\ ~Refuses(Ensured(breaker[w]))
    /\ cached
    /\ breaker' = [breaker EXCEPT ![w] = Admitted(Ensured(breaker[w]))]
    /\ call' = [call EXCEPT ![w] = "cached"]
    /\ UNCHANGED <<cached, now, streak>>

Dispatch(w) ==
    /\ Idle(w)
    /\ ~Refuses(Ensured(breaker[w]))
    /\ breaker' = [breaker EXCEPT ![w] = Admitted(Ensured(breaker[w]))]
    /\ call' = [call EXCEPT ![w] = "waiting"]
    /\ UNCHANGED <<cached, now, streak>>

\* The backend answered; caching the answer is best effort.
Succeed(w) ==
    /\ call[w] = "waiting"
    /\ breaker' = [breaker EXCEPT ![w] = Successful(breaker[w])]
    /\ cached' \in {cached, TRUE}
    /\ call' = [call EXCEPT ![w] = "ok"]
    /\ streak' = [streak EXCEPT ![w] = 0]
    /\ UNCHANGED now

\* Any exception but a CapabilityError counts against the backend.
Fail(w) ==
    /\ call[w] = "waiting"
    /\ breaker' = [breaker EXCEPT ![w] = Failed(breaker[w])]
    /\ call' = [call EXCEPT ![w] = "failed"]
    /\ streak' = [streak EXCEPT ![w] = IF @ < Threshold THEN @ + 1 ELSE @]
    /\ UNCHANGED <<cached, now>>

\* A CapabilityError from a nested invoke, or the cancellation of the task by a
\* timeout or a client that left: the except clauses record nothing.
Abandon(w) ==
    /\ call[w] = "waiting"
    /\ \E result \in {"rejected", "cancelled"} : call' = [call EXCEPT ![w] = result]
    /\ UNCHANGED <<breaker, cached, now, streak>>

\* The request ends, and a later one makes a wrapper of its own.
Renew(w) ==
    /\ Idle(w)
    /\ breaker' = [breaker EXCEPT ![w] = NewBreaker]
    /\ call' = [call EXCEPT ![w] = "none"]
    /\ streak' = [streak EXCEPT ![w] = 0]
    /\ UNCHANGED <<cached, now>>

Expire == cached /\ cached' = FALSE /\ UNCHANGED <<breaker, call, now, streak>>

Tick == now < MaxTime /\ now' = now + 1 /\ UNCHANGED <<breaker, call, cached, streak>>

BreakerNext == \/ \E w \in Wrappers : \/ LimitRate(w) \/ Refuse(w) \/ Hit(w) \/ Dispatch(w)
                                      \/ Succeed(w) \/ Fail(w) \/ Abandon(w) \/ Renew(w)
               \/ Expire
               \/ Tick

BreakerSpec == BreakerInit /\ [][BreakerNext]_breakerVars

-----------------------------------------------------------------------------
BreakerTypeOK == /\ breaker \in [Wrappers -> Breakers]
                 /\ call \in [Wrappers -> Results]
                 /\ cached \in BOOLEAN
                 /\ now \in Times
                 /\ streak \in [Wrappers -> 0..Threshold]

\* A closed breaker has counted exactly the failures since the last success,
\* through every trip and recovery, and fewer than the threshold of them: no
\* earlier outage shortens or lengthens the patience with the next one
\* (circuit_breaker.py, the resets in record_success and _transition_to).
ClosedCountsStreak ==
    \A w \in Wrappers : breaker[w].state = "closed" =>
        breaker[w].failures = streak[w] /\ streak[w] < Threshold

DispatchedBy(w) == call[w] # "waiting" /\ call'[w] = "waiting"

\* After `threshold` failures in a row a wrapper sends nothing to the backend
\* until the recovery time has passed since the last of them (allow,
\* record_failure: a failed probe starts the time anew).
RestsAfterFailures ==
    [][\A w \in Wrappers : DispatchedBy(w) =>
          \/ streak[w] < Threshold
          \/ now - breaker[w].lastFailure >= Recovery]_breakerVars

\* "Awaiting probe result" (circuit_breaker.py:97): a half-open breaker that
\* refuses because of its probe has a probe whose result is still to come.
ProbeIsAwaited ==
    \A w \in Wrappers :
        breaker[w].state = "half_open" /\ breaker[w].probed => call[w] = "waiting"

\* "OPEN: refuses every request" for the capability (circuit_breaker.py:5,
\* state kept in a table, circuit_breaker.py:8): nothing is sent to the backend
\* while a breaker of this capability is open and still recovering.
OpenRefusesAll ==
    [][\A w \in Wrappers : DispatchedBy(w) =>
          \A v \in Wrappers : ~(breaker[v].state = "open"
                                /\ now - breaker[v].openedAt < Recovery)]_breakerVars
=============================================================================

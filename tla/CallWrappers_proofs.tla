------------------------- MODULE CallWrappers_proofs -------------------------
(***************************************************************************)
(* What surrounds a call into the services, proved of each on its own: its *)
(* database session, the circuit breaker of its capability, the guard of   *)
(* its arguments.                                                          *)
(***************************************************************************)
EXTENDS SessionScope, CapabilityBreaker, ArgsGuardrail, FiniteSetTheorems, TLAPS

-----------------------------------------------------------------------------
(* What per-thread sessions still guarantee, for any number of requests,   *)
(* threads and sessions.  The inductive invariant adds to the two          *)
(* properties what an unmixed request has done so far (Atomic) and that it *)
(* runs alone (Alone).                                                     *)

Alone == \A r \in Live \ mixed : Live = {r}

\* The progress of an unmixed request.
Atomic == \A r \in Requests \ mixed :
    /\ pc[r] \in {"saved", "ok"} <=> r \in committed
    /\ pc[r] = "written" => r \in pending[session[r]]

SessionInv == TypeOK /\ NothingLeftBehind /\ Alone /\ Atomic

LEMMA SessionInitInv == Init => SessionInv
  BY DEF Init, SessionInv, TypeOK, NothingLeftBehind, Alone, Atomic, Live

\* What SessionLocal() returns is a Session, never None.
LEMMA GivenSession ==
  ASSUME TypeOK, NEW t \in Threads, NEW s \in Given(t)
  PROVE  s \in Sessions /\ s # NoSession
  BY NoSessionAssumption DEF TypeOK, Given

LEMMA EnterInv ==
  ASSUME SessionInv, NEW r \in Requests, NEW t \in Threads, Enter(r, t)
  PROVE  SessionInv'
<1>1. PICK s \in Given(t) : /\ registry' = [registry EXCEPT ![t] = s]
                            /\ session' = [session EXCEPT ![r] = s]
                            /\ pending' = [pending EXCEPT ![s] = {}]
  BY DEF Enter
<1>2. s \in Sessions /\ s # NoSession
  BY GivenSession DEF SessionInv
<1>3. Live' = Live \cup {r} /\ r \notin Live
  BY DEF Enter, Live, SessionInv, TypeOK
<1>4. TypeOK'
  BY <1>1, <1>2, <1>3 DEF Enter, SessionInv, TypeOK, Live
<1>5. NothingLeftBehind'
  BY <1>1, <1>2, <1>3 DEF SessionInv, TypeOK, NothingLeftBehind
<1>6. Live # {} => Live \cup {r} \subseteq mixed'
  BY DEF Enter
<1>7. Alone'
  BY <1>3, <1>6 DEF Alone
<1>8. Atomic'
  <2> SUFFICES ASSUME NEW q \in Requests, q \notin mixed'
               PROVE  /\ pc'[q] \in {"saved", "ok"} <=> q \in committed'
                      /\ pc'[q] = "written" => q \in pending'[session'[q]]
    BY DEF Atomic
  <2>1. q \notin mixed /\ committed' = committed
    BY DEF Enter
  <2>2. q # r => q \notin Live
    BY <1>6
  <2>3. pc'[q] \in {"saved", "ok"} <=> pc[q] \in {"saved", "ok"}
    BY DEF Enter, SessionInv, TypeOK
  <2>4. pc'[q] # "written"
    BY <2>2 DEF Enter, SessionInv, TypeOK, Live
  <2> QED BY <2>1, <2>3, <2>4 DEF SessionInv, Atomic
<1> QED BY <1>4, <1>5, <1>7, <1>8 DEF SessionInv

LEMMA WriteInv ==
  ASSUME SessionInv, NEW r \in Requests, Write(r)
  PROVE  SessionInv'
<1>1. Live' = Live /\ r \in Live /\ session[r] \in Sessions
  BY DEF Write, Live, SessionInv, TypeOK
<1>2. TypeOK'
  BY <1>1 DEF Write, SessionInv, TypeOK
<1>3. NothingLeftBehind'
  BY <1>1 DEF Write, SessionInv, TypeOK, NothingLeftBehind
<1>4. Alone'
  BY <1>1 DEF Write, SessionInv, Alone
<1>5. Atomic'
  BY <1>1 DEF Write, SessionInv, TypeOK, Atomic
<1> QED BY <1>2, <1>3, <1>4, <1>5 DEF SessionInv

LEMMA CommitInv ==
  ASSUME SessionInv, NEW r \in Requests, Commit(r)
  PROVE  SessionInv'
<1>1. Live' = Live /\ r \in Live /\ session[r] \in Sessions
  BY DEF Commit, Live, SessionInv, TypeOK
<1>2. pending[session[r]] \subseteq Live /\ committed' = committed \cup pending[session[r]]
  BY <1>1 DEF Commit, Flushed, SessionInv, NothingLeftBehind
<1>3. TypeOK'
  BY <1>1, <1>2 DEF Commit, SessionInv, TypeOK
<1>4. NothingLeftBehind'
  BY <1>1 DEF Commit, SessionInv, TypeOK, NothingLeftBehind
<1>5. Alone'
  BY <1>1 DEF Commit, SessionInv, Alone
<1>6. Atomic'
  <2> SUFFICES ASSUME NEW q \in Requests, q \notin mixed
               PROVE  /\ pc'[q] \in {"saved", "ok"} <=> q \in committed'
                      /\ pc'[q] = "written" => q \in pending'[session'[q]]
    BY DEF Atomic, Commit
  <2>1. CASE q = r
    BY <1>2, <2>1 DEF Commit, SessionInv, TypeOK, Atomic
  <2>2. CASE q # r
    <3>1. q \notin Live
      BY <1>1, <2>2 DEF SessionInv, Alone
    <3>2. pc'[q] = pc[q] /\ (q \in committed' <=> q \in committed)
      BY <1>2, <2>2, <3>1 DEF Commit, SessionInv, TypeOK
    <3>3. pc[q] # "written"
      BY <3>1 DEF Live
    <3> QED BY <3>2, <3>3 DEF SessionInv, Atomic
  <2> QED BY <2>1, <2>2
<1> QED BY <1>3, <1>4, <1>5, <1>6 DEF SessionInv

LEMMA RaiseInv ==
  ASSUME SessionInv, NEW r \in Requests, Raise(r)
  PROVE  SessionInv'
<1>1. Live' = Live
  BY DEF Raise, Live, SessionInv, TypeOK
<1>2. TypeOK'
  BY <1>1 DEF Raise, SessionInv, TypeOK
<1>3. NothingLeftBehind' /\ Alone'
  BY <1>1 DEF Raise, SessionInv, NothingLeftBehind, Alone
<1>4. Atomic'
  BY DEF Raise, SessionInv, TypeOK, Atomic
<1> QED BY <1>2, <1>3, <1>4 DEF SessionInv

LEMMA ExitInv ==
  ASSUME SessionInv, NEW r \in Requests, NEW t \in Threads, Exit(r, t)
  PROVE  SessionInv'
<1>1. Live' = Live \ {r} /\ r \in Live
  BY DEF Exit, Live, SessionInv, TypeOK
<1>2. TypeOK'
  BY <1>1 DEF Exit, Discarded, SessionInv, TypeOK
<1>3. NothingLeftBehind'
  <2> SUFFICES ASSUME NEW s \in Sessions, NEW q \in pending'[s]
               PROVE  q \in Live' /\ session'[q] = s
    BY DEF NothingLeftBehind
  <2>1. s # session[r] /\ q \in pending[s]
    BY DEF Exit, Discarded
  <2>2. q \in Live /\ session[q] = s
    BY <2>1 DEF SessionInv, NothingLeftBehind
  <2>3. q # r
    BY <2>1, <2>2
  <2> QED BY <1>1, <2>2, <2>3 DEF Exit, SessionInv, TypeOK
<1>4. Alone'
  BY <1>1 DEF Exit, SessionInv, Alone
<1>5. Atomic'
  <2> SUFFICES ASSUME NEW q \in Requests, q \notin mixed
               PROVE  /\ pc'[q] \in {"saved", "ok"} <=> q \in committed'
                      /\ pc'[q] = "written" => q \in pending'[session'[q]]
    BY DEF Atomic, Exit
  <2>1. pc'[q] \in {"saved", "ok"} <=> pc[q] \in {"saved", "ok"}
    BY DEF Exit, SessionInv, TypeOK
  <2>2. pc'[q] # "written"
    <3>1. CASE q = r
      BY <3>1 DEF Exit, SessionInv, TypeOK
    <3>2. CASE q # r
      <4>1. q \notin Live
        BY <1>1, <3>2 DEF SessionInv, Alone
      <4> QED BY <3>2, <4>1 DEF Exit, SessionInv, TypeOK, Live
    <3> QED BY <3>1, <3>2
  <2>3. committed' = committed
    BY DEF Exit
  <2> QED BY <2>1, <2>2, <2>3 DEF SessionInv, Atomic
<1> QED BY <1>2, <1>3, <1>4, <1>5 DEF SessionInv

LEMMA NestedInv ==
  ASSUME SessionInv, NEW r \in Requests, NEW t \in Threads, Nested(r, t)
  PROVE  SessionInv'
<1>1. PICK s \in Given(t), commits \in BOOLEAN, removes \in BOOLEAN :
          /\ committed' = IF commits THEN Flushed(s) ELSE committed
          /\ pending' = [pending EXCEPT ![s] = {}]
          /\ registry' = [registry EXCEPT ![t] = IF removes THEN NoSession ELSE s]
  BY DEF Nested
<1>2. s \in Sessions
  BY GivenSession DEF SessionInv
<1>3. Live' = Live /\ r \in Live /\ pc' = pc /\ session' = session /\ mixed' = mixed \cup {r}
  BY DEF Nested, Live
<1>4. pending[s] \subseteq Live /\ pending[s] \subseteq Requests
  BY <1>2 DEF SessionInv, TypeOK, NothingLeftBehind
<1>5. TypeOK'
  BY <1>1, <1>2, <1>3, <1>4 DEF SessionInv, TypeOK, Flushed
<1>6. NothingLeftBehind'
  BY <1>1, <1>2, <1>3 DEF SessionInv, TypeOK, NothingLeftBehind
<1>7. Alone'
  BY <1>3 DEF SessionInv, Alone
<1>8. Atomic'
  <2> SUFFICES ASSUME NEW q \in Requests, q \notin mixed'
               PROVE  /\ pc[q] \in {"saved", "ok"} <=> q \in committed'
                      /\ pc[q] # "written"
    BY <1>3 DEF Atomic
  <2>1. q \notin Live
    BY <1>3 DEF SessionInv, Alone
  <2>2. q \in committed' <=> q \in committed
    BY <1>1, <1>4, <2>1 DEF Flushed
  <2>3. pc[q] # "written"
    BY <2>1 DEF Live
  <2> QED BY <1>3, <2>2, <2>3 DEF SessionInv, Atomic
<1> QED BY <1>5, <1>6, <1>7, <1>8 DEF SessionInv

LEMMA SessionNextInv == SessionInv /\ [Next]_vars => SessionInv'
<1> SUFFICES ASSUME SessionInv, [Next]_vars PROVE SessionInv'
  OBVIOUS
<1>1. CASE UNCHANGED vars
  BY <1>1 DEF vars, SessionInv, TypeOK, NothingLeftBehind, Alone, Atomic, Live
<1> QED BY <1>1, EnterInv, WriteInv, CommitInv, RaiseInv, ExitInv, NestedInv DEF Next

LEMMA SessionInvariance == Spec => []SessionInv
  BY SessionInitInv, SessionNextInv, PTL DEF Spec

\* A running request always has a Session, never None (get_db).
THEOREM SessionTypes == Spec => []TypeOK
<1>1. SessionInv => TypeOK
  BY DEF SessionInv
<1> QED BY <1>1, SessionInvariance, PTL

\* No Session outlives its requests with uncommitted work in it, however the
\* pool moves enter and exit between threads (get_db's finally).
THEOREM LeavesNothing == Spec => []NothingLeftBehind
<1>1. SessionInv => NothingLeftBehind
  BY DEF SessionInv
<1> QED BY <1>1, SessionInvariance, PTL

\* A request that met no other is atomic, for any number of threads and of
\* requests before and after it (get_db, SessionLocal).
THEOREM Atomicity == Spec => []AloneIsAtomic
<1>1. SessionInv => AloneIsAtomic
  BY DEF SessionInv, Atomic, AloneIsAtomic, Ended
<1> QED BY <1>1, SessionInvariance, PTL

-----------------------------------------------------------------------------
(* The breaker's promises for any threshold, recovery time and number of   *)
(* requests.  The inductive invariant says, of each breaker, what its      *)
(* state means: closed, the count is the streak; open, it opened at the    *)
(* last failure and no call is out; half open, the recovery time has       *)
(* passed since the last failure.                                          *)

Sound(b, s, c) ==
    /\ b.state = "closed" => b.failures = s /\ s < Threshold
    /\ b.state = "open" => /\ b.openedAt = b.lastFailure /\ b.lastFailure # Never
                           /\ b.failures = 0 /\ c # "waiting"
    /\ b.state = "half_open" => /\ now - b.lastFailure >= Recovery
                                /\ b.lastFailure # Never /\ b.failures = 0

AllSound == \A w \in Wrappers : Sound(breaker[w], streak[w], call[w])

BreakerInv == BreakerTypeOK /\ AllSound

\* The counter of a breaker has a zero, and the states are what they are.
LEMMA ZeroFailures == 0 \in 0..(Threshold - 1) /\ 0 < Threshold
  BY ThresholdAssumption

\* A fresh breaker is sound.
LEMMA NewSound == NewBreaker \in Breakers /\ Sound(NewBreaker, 0, "none")
<1>1. NewBreaker \in Breakers
  BY ZeroFailures DEF NewBreaker, Breakers
<1>2. Sound(NewBreaker, 0, "none")
  BY ZeroFailures DEF NewBreaker, Sound
<1> QED BY <1>1, <1>2

\* Initially every breaker is closed and has counted nothing.
LEMMA BreakerInitInv == BreakerInit => BreakerInv
<1> SUFFICES ASSUME BreakerInit PROVE BreakerInv
  OBVIOUS
<1>1. NewBreaker \in Breakers /\ Sound(NewBreaker, 0, "none")
  BY NewSound
<1>2. now \in Times /\ 0 \in 0..Threshold /\ "none" \in Results
  BY ThresholdAssumption, MaxTimeAssumption DEF BreakerInit, Times, Results
<1>3. BreakerTypeOK
  BY <1>1, <1>2 DEF BreakerInit, BreakerTypeOK
<1>4. AllSound
  BY <1>1 DEF BreakerInit, AllSound, Sound
<1> QED BY <1>3, <1>4 DEF BreakerInv

\* Asking a sound breaker leaves it sound, whatever is done with the call,
\* unless it is open and the call goes out.
LEMMA EnsuredSound ==
  ASSUME NEW b \in Breakers, NEW s \in 0..Threshold, NEW c \in Results, now \in Times,
         Sound(b, s, c)
  PROVE  /\ Ensured(b) \in Breakers /\ Admitted(Ensured(b)) \in Breakers
         /\ \A d : d # "waiting" => Sound(Ensured(b), s, d)
         /\ ~Refuses(Ensured(b)) => \A d : Sound(Admitted(Ensured(b)), s, d)
  BY ThresholdAssumption, RecoveryAssumption, MaxTimeAssumption
  DEF Breakers, Sound, Ensured, RecoveryElapsed, HalfOpened, Admitted, Refuses, Times, Never

\* A success leaves a breaker sound with an empty streak.
LEMMA SuccessfulSound ==
  ASSUME NEW b \in Breakers, NEW s \in 0..Threshold, now \in Times, Sound(b, s, "waiting")
  PROVE  Successful(b) \in Breakers /\ Sound(Successful(b), 0, "ok")
<1>1. Successful(b) \in Breakers
  BY ZeroFailures DEF Breakers, Successful, Closed
<1>2. Sound(Successful(b), 0, "ok")
  BY ZeroFailures DEF Breakers, Sound, Successful, Closed
<1> QED BY <1>1, <1>2

\* A failure leaves a breaker sound with the streak one longer, up to its cap.
LEMMA FailedSound ==
  ASSUME NEW b \in Breakers, NEW s \in 0..Threshold, now \in Times, Sound(b, s, "waiting")
  PROVE  /\ Failed(b) \in Breakers
         /\ Sound(Failed(b), IF s < Threshold THEN s + 1 ELSE s, "failed")
<1> DEFINE s1 == IF s < Threshold THEN s + 1 ELSE s
<1>0. /\ Opened(Counted(b)) = [b EXCEPT !.state = "open", !.openedAt = now,
                                        !.failures = 0, !.lastFailure = now]
      /\ now # Never /\ now \in Times \cup {Never}
  <2>1. now # Never /\ now \in Times \cup {Never}
    BY MaxTimeAssumption DEF Times, Never
  <2>2. Opened(Counted(b)) = [b EXCEPT !.state = "open", !.openedAt = now,
                                       !.failures = 0, !.lastFailure = now]
    <3> DEFINE f == [b EXCEPT !.failures = b.failures + 1, !.lastFailure = now]
    <3>1. Counted(b) = f
      BY DEF Counted
    <3>2. [f EXCEPT !.state = "open", !.openedAt = now, !.failures = 0]
            = [b EXCEPT !.state = "open", !.openedAt = now,
                        !.failures = 0, !.lastFailure = now]
      BY DEF Breakers
    <3> QED BY <3>1, <3>2 DEF Opened
  <2> QED BY <2>1, <2>2
<1>o. Opened(Counted(b)) \in Breakers /\ Sound(Opened(Counted(b)), s1, "failed")
  <2>1. Opened(Counted(b)) \in Breakers
    BY <1>0, ZeroFailures DEF Breakers
  <2>2. Sound(Opened(Counted(b)), s1, "failed")
    BY <1>0, ZeroFailures DEF Breakers, Sound
  <2> QED BY <2>1, <2>2
<1>1. CASE b.state = "half_open"
  BY <1>1, <1>o DEF Failed
<1>2. CASE b.state = "closed"
  <2>1. CASE b.failures + 1 >= Threshold
    BY <2>1, <1>o DEF Failed
  <2>2. CASE ~(b.failures + 1 >= Threshold)
    <3>1. Failed(b) = Counted(b)
      BY <1>2, <2>2 DEF Failed
    <3>2. b.failures + 1 \in 0..(Threshold - 1)
      BY <2>2, ThresholdAssumption DEF Breakers
    <3>3. s1 = b.failures + 1 /\ s1 < Threshold
      BY <1>2, <2>2, ThresholdAssumption DEF Sound, Breakers
    <3>4. Counted(b) \in Breakers
      BY <1>0, <3>2 DEF Counted, Breakers
    <3>5. Counted(b).state = "closed" /\ Counted(b).failures = b.failures + 1
      BY <1>2 DEF Counted, Breakers
    <3> QED BY <3>1, <3>3, <3>4, <3>5 DEF Sound
  <2> QED BY <2>1, <2>2
<1>3. b.state # "open"
  BY DEF Sound
<1> QED BY <1>1, <1>2, <1>3 DEF Breakers

\* Time only makes a recovery longer.
LEMMA TickSound ==
  ASSUME BreakerInv, Tick
  PROVE  BreakerInv'
  BY MaxTimeAssumption, RecoveryAssumption, ThresholdAssumption
  DEF BreakerInv, BreakerTypeOK, AllSound, Sound, Tick, Times, Breakers, Never

\* The calls of one wrapper, each with the lemma of the change it makes.
LEMMA CallStep ==
  ASSUME BreakerInv, NEW w \in Wrappers,
         \/ LimitRate(w) \/ Refuse(w) \/ Hit(w) \/ Dispatch(w)
         \/ Succeed(w) \/ Fail(w) \/ Abandon(w) \/ Renew(w)
  PROVE  BreakerInv'
<1>t. /\ breaker[w] \in Breakers /\ streak[w] \in 0..Threshold /\ call[w] \in Results
      /\ now \in Times /\ Sound(breaker[w], streak[w], call[w])
  BY DEF BreakerInv, BreakerTypeOK, AllSound
<1>e. /\ Ensured(breaker[w]) \in Breakers /\ Admitted(Ensured(breaker[w])) \in Breakers
      /\ \A d : d # "waiting" => Sound(Ensured(breaker[w]), streak[w], d)
      /\ ~Refuses(Ensured(breaker[w]))
           => \A d : Sound(Admitted(Ensured(breaker[w])), streak[w], d)
  BY <1>t, EnsuredSound
<1> DEFINE Changed(b, c, s) ==
      /\ breaker' = [breaker EXCEPT ![w] = b] /\ call' = [call EXCEPT ![w] = c]
      /\ streak' = [streak EXCEPT ![w] = s] /\ now' = now /\ cached' \in BOOLEAN
<1>s. streak = [streak EXCEPT ![w] = streak[w]] /\ breaker = [breaker EXCEPT ![w] = breaker[w]]
  BY DEF BreakerInv, BreakerTypeOK
<1>1. ASSUME NEW b \in Breakers, NEW c \in Results, NEW s \in 0..Threshold,
             Changed(b, c, s), Sound(b, s, c)
      PROVE  BreakerInv'
  BY <1>1 DEF BreakerInv, BreakerTypeOK, AllSound, Sound
<1>2. CASE LimitRate(w)
  <2>1. Changed(breaker[w], "limited", streak[w])
    BY <1>2, <1>s DEF LimitRate, BreakerInv, BreakerTypeOK
  <2>2. Sound(breaker[w], streak[w], "limited")
    BY <1>t DEF Sound
  <2> QED BY <1>1, <1>t, <2>1, <2>2 DEF Results
<1>3. CASE Refuse(w)
  <2>1. Changed(Ensured(breaker[w]), "refused", streak[w])
    BY <1>3, <1>s DEF Refuse, BreakerInv, BreakerTypeOK
  <2> QED BY <1>1, <1>t, <1>e, <2>1 DEF Results
<1>4. CASE Hit(w)
  <2>1. Changed(Admitted(Ensured(breaker[w])), "cached", streak[w])
    BY <1>4, <1>s DEF Hit, BreakerInv, BreakerTypeOK
  <2>2. ~Refuses(Ensured(breaker[w]))
    BY <1>4 DEF Hit
  <2> QED BY <1>1, <1>t, <1>e, <2>1, <2>2 DEF Results
<1>5. CASE Dispatch(w)
  <2>1. Changed(Admitted(Ensured(breaker[w])), "waiting", streak[w])
    BY <1>5, <1>s DEF Dispatch, BreakerInv, BreakerTypeOK
  <2>2. ~Refuses(Ensured(breaker[w]))
    BY <1>5 DEF Dispatch
  <2> QED BY <1>1, <1>t, <1>e, <2>1, <2>2 DEF Results
<1>6. CASE Succeed(w)
  <2>1. Changed(Successful(breaker[w]), "ok", 0)
    BY <1>6 DEF Succeed, BreakerInv, BreakerTypeOK
  <2>2. call[w] = "waiting"
    BY <1>6 DEF Succeed
  <2>3. Successful(breaker[w]) \in Breakers /\ Sound(Successful(breaker[w]), 0, "ok")
    BY <1>t, <2>2, SuccessfulSound
  <2>4. 0 \in 0..Threshold
    BY ThresholdAssumption
  <2> QED BY <1>1, <2>1, <2>3, <2>4 DEF Results
<1>7. CASE Fail(w)
  <2> DEFINE s == IF streak[w] < Threshold THEN streak[w] + 1 ELSE streak[w]
  <2>1. Changed(Failed(breaker[w]), "failed", s)
    BY <1>7 DEF Fail, BreakerInv, BreakerTypeOK
  <2>2. call[w] = "waiting"
    BY <1>7 DEF Fail
  <2>3. Failed(breaker[w]) \in Breakers /\ Sound(Failed(breaker[w]), s, "failed")
    BY <1>t, <2>2, FailedSound
  <2>4. s \in 0..Threshold
    BY <1>t, ThresholdAssumption
  <2> QED BY <1>1, <2>1, <2>3, <2>4 DEF Results
<1>8. CASE Abandon(w)
  <2>1. PICK r \in {"rejected", "cancelled"} : call' = [call EXCEPT ![w] = r]
    BY <1>8 DEF Abandon
  <2>2. Changed(breaker[w], r, streak[w])
    BY <1>8, <1>s, <2>1 DEF Abandon, BreakerInv, BreakerTypeOK
  <2>3. Sound(breaker[w], streak[w], r)
    BY <1>t, <2>1 DEF Sound
  <2> QED BY <1>1, <1>t, <2>2, <2>3 DEF Results
<1>9. CASE Renew(w)
  <2>1. Changed(NewBreaker, "none", 0)
    BY <1>9 DEF Renew, BreakerInv, BreakerTypeOK
  <2>2. NewBreaker \in Breakers /\ Sound(NewBreaker, 0, "none") /\ 0 \in 0..Threshold
    BY ThresholdAssumption DEF NewBreaker, Breakers, Sound, Times, Never
  <2> QED BY <1>1, <2>1, <2>2 DEF Results
<1> QED BY <1>2, <1>3, <1>4, <1>5, <1>6, <1>7, <1>8, <1>9

LEMMA BreakerNextInv == ASSUME BreakerInv, [BreakerNext]_breakerVars PROVE BreakerInv'
<1>1. CASE UNCHANGED breakerVars
  BY <1>1 DEF breakerVars, BreakerInv, BreakerTypeOK, AllSound, Sound
<1>2. CASE Expire
  BY <1>2 DEF Expire, BreakerInv, BreakerTypeOK, AllSound, Sound
<1> QED BY <1>1, <1>2, CallStep, TickSound DEF BreakerNext

LEMMA BreakerInvariance == BreakerSpec => []BreakerInv
  BY BreakerInitInv, BreakerNextInv, PTL DEF BreakerSpec

\* The breakers keep their types; in particular the failure count stays below
\* the threshold, for any threshold (circuit_breaker.py, record_failure).
THEOREM BreakerTypes == BreakerSpec => []BreakerTypeOK
<1>1. BreakerInv => BreakerTypeOK
  BY DEF BreakerInv
<1> QED BY <1>1, BreakerInvariance, PTL

\* A closed breaker has counted exactly the failures since the last success.
THEOREM CountsStreak == BreakerSpec => []ClosedCountsStreak
<1>1. BreakerInv => ClosedCountsStreak
  BY DEF BreakerInv, AllSound, Sound, ClosedCountsStreak
<1> QED BY <1>1, BreakerInvariance, PTL

\* No wrapper calls the backend again before the recovery time has passed
\* since the last of `threshold` failures in a row (CircuitBreaker.allow).
THEOREM Rests == BreakerSpec => RestsAfterFailures
<1> DEFINE Step == \A w \in Wrappers : DispatchedBy(w) =>
          \/ streak[w] < Threshold
          \/ now - breaker[w].lastFailure >= Recovery
<1>1. ASSUME BreakerInv, BreakerNext PROVE Step
  <2> SUFFICES ASSUME NEW w \in Wrappers, DispatchedBy(w)
               PROVE  streak[w] < Threshold \/ now - breaker[w].lastFailure >= Recovery
    OBVIOUS
  <2>1. Dispatch(w)
    <3>1. call[w] # "waiting" /\ call'[w] = "waiting" /\ call \in [Wrappers -> Results]
      BY <1>1 DEF DispatchedBy, BreakerInv, BreakerTypeOK
    <3>2. ASSUME NEW v \in Wrappers,
                 LimitRate(v) \/ Refuse(v) \/ Hit(v) \/ Succeed(v) \/ Fail(v) \/ Abandon(v) \/ Renew(v)
          PROVE  FALSE
      BY <3>1, <3>2 DEF LimitRate, Refuse, Hit, Succeed, Fail, Abandon, Renew
    <3>3. ASSUME NEW v \in Wrappers, Dispatch(v)
          PROVE  v = w
      BY <3>1, <3>3 DEF Dispatch
    <3> QED BY <1>1, <3>1, <3>2, <3>3 DEF BreakerNext, Expire, Tick
  <2>2. breaker[w] \in Breakers /\ Sound(breaker[w], streak[w], call[w]) /\ now \in Times
    BY <1>1 DEF BreakerInv, BreakerTypeOK, AllSound
  <2>3. ~Refuses(Ensured(breaker[w]))
    BY <2>1 DEF Dispatch
  <2>4. CASE breaker[w].state = "closed"
    BY <2>2, <2>4 DEF Sound
  <2>5. CASE breaker[w].state = "half_open"
    BY <2>2, <2>5 DEF Sound
  <2>6. CASE breaker[w].state = "open"
    BY <2>2, <2>3, <2>6 DEF Sound, Refuses, Ensured, RecoveryElapsed
  <2> QED BY <2>2, <2>4, <2>5, <2>6 DEF Breakers
<1>2. BreakerInv /\ [BreakerNext]_breakerVars => [Step]_breakerVars
  BY <1>1
<1> QED BY <1>2, BreakerInvariance, PTL DEF BreakerSpec, RestsAfterFailures

-----------------------------------------------------------------------------
(* The guard of the arguments.  Each stage has a fact about the arguments  *)
(* that it establishes and that makes it leave them alone: what holds of   *)
(* the arguments that went through all stages makes a second guard allow   *)
(* them, and what does not hold of those that were asked is what was       *)
(* repaired.                                                               *)

WordOK(w) == w # None => Proper[w] = w

SafeOK(a) == ~a.foreign
LimitOK(a) == IF a.query.limit # None THEN a.query.limit.n \in 1..MaxLimit
              ELSE a.limit # None /\ a.limit.n \in 1..MaxLimit
TimeoutOK(a) == a.timeout # None => a.timeout.n \in 1..MaxTimeout
WordsOK(a) == \A i \in DOMAIN a.query.fields : WordOK(a.query.fields[i].function) /\ WordOK(a.query.fields[i].agg)
SortOK(a) == WordOK(a.query.order)
ShapeOK(f) == f.alias = None /\ f.agg = None /\ f.caption # None
CalcOK(f, name) == IsAggregateCalc(name) => f.function = None
ShapesOK(a) == \A i \in DOMAIN a.query.fields : ShapeOK(a.query.fields[i])
NamesOK(a) == /\ \A i \in DOMAIN a.query.fields : a.query.fields[i].caption \in Queryable
              /\ \A i \in DOMAIN a.query.filters : a.query.filters[i] \in Queryable
DetailOK(a) == a.query.detail =>
                   /\ (IF a.query.limit # None THEN a.query.limit.n ELSE a.limit.n) < MaxLimit
                   /\ a.question = "sum" => \E i \in DOMAIN a.query.fields : a.query.fields[i].function \in Sums
WidthOK(a) == Len(a.query.fields) <= MaxWidth
DirectionOK(a) == ~(a.question = "negative" /\ a.query.order = "DESC")
SchemaOK(a) == ~AsText(a.limit) /\ ~AsText(a.timeout) /\ (a.limit # None => a.limit.n # 0)

\* What the repairs bring about, and all that the guard asks for.
Repaired(a) == LimitOK(a) /\ TimeoutOK(a) /\ WordsOK(a) /\ SortOK(a) /\ ShapesOK(a) /\ NamesOK(a)
Clean(a) == SafeOK(a) /\ Repaired(a) /\ DetailOK(a) /\ WidthOK(a) /\ DirectionOK(a) /\ SchemaOK(a)

Early == {"unsafe", "limit", "timeout", "aggregations"}
Middle == {"filters", "shapes"}
Late == {"detail", "width", "direction", "schema", "over"}
Decisions == {"allow", "repair", "reject"}

Alive == stage = "over" => verdicts[pass] # "reject"

\* In a first pass, the facts of the stages that are past.
PassedSo ==
    /\ stage # "unsafe" => SafeOK(args)
    /\ stage \notin {"unsafe", "limit"} => LimitOK(args)
    /\ stage \notin {"unsafe", "limit", "timeout"} => TimeoutOK(args)
    /\ stage \notin Early => WordsOK(args)
    /\ stage \notin Early \cup {"filters"} => SortOK(args)
    /\ stage \notin Early \cup Middle => ShapesOK(args)
    /\ stage \in Late => NamesOK(args)
    /\ stage \in Late \ {"detail"} => DetailOK(args)
    /\ stage \in Late \ {"detail", "width"} => WidthOK(args)
    /\ stage \in {"schema", "over"} => DirectionOK(args)
    /\ stage = "over" => SchemaOK(args)

AskedName(i) == IF Asked(i).caption # None THEN Asked(i).caption ELSE Asked(i).alias

\* How a field of a first pass comes from the one that was asked, stage by stage.
FieldSo(i) ==
    /\ stage \in Early => Fields[i] = Asked(i)
    /\ stage \in Middle =>
          /\ Fields[i].caption = Asked(i).caption /\ Fields[i].alias = Asked(i).alias
          /\ Fields[i].function = Spelt(Asked(i).function) /\ (Asked(i).function # None => Fields[i].function # None)
          /\ Fields[i].agg = Spelt(Asked(i).agg)
    /\ stage = "fields" =>
          /\ Fields[i].caption = AskedName(i)
          /\ \/ Fields[i].function = Spelt(Asked(i).function)
             \/ Asked(i).function = None /\ Fields[i].function = Spelt(Asked(i).agg)
             \/ Fields[i].function = None /\ IsAggregateCalc(Fields[i].caption)
    /\ stage \in Late => SameField(i)
    /\ stage \in Late \cup {"fields"} => CalcOK(Fields[i], AskedName(i))

Typed == /\ GuardTypeOK /\ args \in ArgumentsType /\ asked \in ArgumentsType
         /\ Len(args.query.filters) = Len(asked.query.filters)

\* The record of the repairs is empty exactly while nothing had to be repaired.
Recorded == /\ repairs = {} => args = asked
            /\ repairs # {} => ~Repaired(asked) \/ \E i \in DOMAIN asked.query.fields : ~CalcOK(Asked(i), Asked(i).caption)
            /\ stage = "over" /\ Alive => verdicts[pass] = IF repairs = {} THEN "allow" ELSE "repair"

FirstPass == pass = 1 /\ Alive => PassedSo /\ \A i \in Positions : FieldSo(i)
SecondPass == pass = 2 => Clean(args) /\ args = asked /\ repairs = {} /\ ~informed /\ Alive

GuardInv == Typed /\ Recorded /\ FirstPass /\ SecondPass

LEMMA SpeltRight ==
  ASSUME NEW w \in Words \cup {None}
  PROVE  /\ ~Misspelt(w) => Spelt(w) \in Words \cup {None} /\ WordOK(Spelt(w)) /\ (Spelt(w) = None <=> w = None)
         /\ WordOK(w) => Spelt(w) = w /\ ~Misspelt(w)
  BY NamesAssumption DEF Spelt, Misspelt, WordOK

LEMMA MappedRight ==
  ASSUME NEW name \in Names
  PROVE  /\ ~Unknown(name) => Mapped(name) \in Queryable
         /\ name \in Queryable => Mapped(name) = name /\ ~Unknown(name) /\ ~Reported(name)
         /\ ~Reported(name) => Mapped(name) = name
         /\ name # None
         /\ IsAggregateCalc(name) => Mapped(name) \in AggregateCalcs
<1>1. Canonical[name] \in Queryable \cup {None} /\ Synonyms[name] \subseteq Queryable
      /\ None \notin Queryable /\ name # None
  BY NamesAssumption
<1>2. SynonymOf(name) # None => SynonymOf(name) \in Queryable
  <2>1. Unique(Synonyms[name]) => Synonyms[name] # {}
    BY FS_EmptySet DEF Unique
  <2> QED BY <1>1, <2>1 DEF SynonymOf
<1>3. ~Unknown(name) => Mapped(name) \in Queryable
  BY <1>1, <1>2 DEF Unknown, Mapped
<1>4. name \in Queryable => Mapped(name) = name
  BY <1>1, NamesAssumption DEF Mapped
<1>5. IsAggregateCalc(name) => Mapped(name) \in AggregateCalcs
  BY DEF IsAggregateCalc, Mapped
<1> QED BY <1>1, <1>3, <1>4, <1>5 DEF Unknown, Reported

LEMMA TypeParts ==
  ASSUME NEW a \in ArgumentsType
  PROVE  /\ a.query \in QueryType /\ a.query.fields \in Seq(FieldType) /\ a.query.filters \in Seq(Names)
         /\ a.query.limit \in NumberText \cup {None} /\ a.query.order \in Words \cup {None}
         /\ a.query.detail \in BOOLEAN /\ a.limit \in NumberText \cup {None}
         /\ a.timeout \in NumberText \cup {None} /\ a.question \in {"plain", "sum", "negative"}
         /\ a.foreign \in BOOLEAN
         /\ a = [query |-> a.query, limit |-> a.limit, timeout |-> a.timeout, question |-> a.question,
                 foreign |-> a.foreign]
         /\ a.query = [fields |-> a.query.fields, limit |-> a.query.limit, order |-> a.query.order,
                       detail |-> a.query.detail, filters |-> a.query.filters]
  BY DEF ArgumentsType, QueryType

LEMMA ClampedRight ==
  ASSUME NEW v \in NumberText, NEW max \in Nat \ {0}
  PROVE  /\ Clamped(v, max) \in NumberText /\ Clamped(v, max) # None
         /\ v.n # 0 => Clamped(v, max).n \in 1..max
         /\ v.n <= max => Clamped(v, max) = v
         /\ v.n \in Nat
<1>1. v.n \in Nat
  BY DEF NumberText
<1>2. Number(max) \in NumberText /\ Number(max).n = max
  BY DEF Number, NumberText
<1>3. Clamped(v, max) \in NumberText
  BY <1>2 DEF Clamped
<1>4. v.n # 0 => Clamped(v, max).n \in 1..max
  BY <1>1, <1>2 DEF Clamped
<1>5. v.n <= max => Clamped(v, max) = v
  BY <1>1 DEF Clamped
<1>6. Clamped(v, max) # None
  BY <1>3, ArgumentsAssumption
<1> QED BY <1>1, <1>3, <1>4, <1>5, <1>6
-----------------------------------------------------------------------------
\* A rejection ends a first pass.
LEMMA RejectInv ==
  ASSUME GuardInv, stage # "over", Reject, pass = 1
  PROVE  GuardInv'
<1>1. stage' = "over" /\ verdicts' = Append(verdicts, "reject")
      /\ UNCHANGED <<informed, asked, args, repairs, pass>>
  BY DEF Reject
<1>2. verdicts \in Seq(Decisions) /\ Len(verdicts) = 0
  BY DEF GuardInv, Typed, GuardTypeOK, Decisions
<1>3. verdicts' \in Seq(Decisions) /\ Len(verdicts') = 1 /\ verdicts'[1] = "reject"
  BY <1>1, <1>2 DEF Decisions
<1>4. Typed'
  BY <1>1, <1>3 DEF GuardInv, Typed, GuardTypeOK, Decisions, Positions, Fields
<1>5. Recorded' /\ FirstPass' /\ SecondPass'
  BY <1>1, <1>3 DEF GuardInv, Recorded, FirstPass, SecondPass, Alive, Repaired, LimitOK, TimeoutOK,
     WordsOK, SortOK, ShapesOK, NamesOK, CalcOK, Asked, IsAggregateCalc
<1> QED BY <1>4, <1>5 DEF GuardInv

\* A stage that lets the arguments through, given that it keeps what earlier stages
\* established and settles its own part.
LEMMA PassInv ==
  ASSUME GuardInv, stage # "over", NEW new \in ArgumentsType, NEW done,
         NEW next \in {"limit", "timeout", "aggregations", "filters", "shapes", "fields", "detail", "width",
                       "direction", "schema"},
         Repairs(new, done, next),
         DOMAIN new.query.fields = DOMAIN args.query.fields,
         Len(new.query.filters) = Len(args.query.filters),
         done = {} => new = args,
         done # {} /\ args = asked => ~Repaired(asked) \/ \E i \in DOMAIN asked.query.fields : ~CalcOK(Asked(i), Asked(i).caption),
         pass = 2 => done = {},
         pass = 1 => PassedSo' /\ \A i \in Positions : FieldSo(i)'
  PROVE  GuardInv'
<1>1. /\ args' = new /\ repairs' = repairs \cup done /\ stage' = next /\ stage' # "over"
      /\ informed' = informed /\ asked' = asked /\ pass' = pass /\ verdicts' = verdicts
  BY DEF Repairs
<1>2. Positions' = Positions
  BY <1>1 DEF Positions, Fields
<1>3. Typed'
  BY <1>1, <1>2 DEF GuardInv, Typed, GuardTypeOK
<1>4. Recorded'
  <2>1. repairs' = {} => args' = asked'
    BY <1>1 DEF GuardInv, Recorded
  <2>2. CASE repairs # {}
    BY <1>1, <2>1, <2>2 DEF GuardInv, Recorded, Repaired, LimitOK, TimeoutOK, WordsOK, SortOK, ShapesOK, NamesOK,
       CalcOK, Asked, IsAggregateCalc
  <2>3. CASE repairs = {}
    <3>1. args = asked
      BY <2>3 DEF GuardInv, Recorded
    <3> QED BY <1>1, <2>1, <2>3, <3>1 DEF Recorded, Repaired, LimitOK, TimeoutOK, WordsOK, SortOK, ShapesOK, NamesOK,
       CalcOK, Asked, IsAggregateCalc
  <2> QED BY <2>2, <2>3
<1>5. FirstPass'
  BY <1>1, <1>2 DEF FirstPass
<1>6. SecondPass'
  <2> SUFFICES ASSUME pass = 2 PROVE SecondPass'
    BY <1>1 DEF SecondPass
  <2>1. args' = args /\ repairs' = {} /\ Clean(args) /\ args = asked /\ ~informed
    BY <1>1 DEF GuardInv, SecondPass
  <2>2. Clean(args)'
    BY <1>1, <2>1 DEF Clean, Repaired, SafeOK, LimitOK, TimeoutOK, WordsOK, SortOK, ShapesOK, NamesOK,
       DetailOK, WidthOK, DirectionOK, SchemaOK
  <2> QED BY <1>1, <2>1, <2>2 DEF SecondPass, Alive
<1> QED BY <1>3, <1>4, <1>5, <1>6 DEF GuardInv

\* What a stage starts from.
LEMMA AtStage ==
  ASSUME GuardInv, stage # "over"
  PROVE  /\ pass \in {1, 2} /\ args \in ArgumentsType /\ asked \in ArgumentsType
         /\ pass = 1 => PassedSo /\ \A i \in Positions : FieldSo(i)
         /\ pass = 2 => Clean(args)
  BY DEF GuardInv, Typed, GuardTypeOK, FirstPass, SecondPass, Alive

\* The checks, which change nothing.
LEMMA CheckInv ==
  ASSUME GuardInv, NEW name \in {"unsafe", "timeout", "detail", "width", "direction"}, NEW bad,
         NEW next \in {"limit", "aggregations", "width", "direction", "schema"},
         Checked(name, bad, next),
         pass = 2 => ~bad,
         pass = 1 /\ ~bad /\ args' = args /\ stage' = next => PassedSo' /\ \A i \in Positions : FieldSo(i)'
  PROVE  GuardInv'
<1>1. stage = name /\ stage # "over" /\ ((bad /\ Reject) \/ (~bad /\ Repairs(args, {}, next)))
  BY DEF Checked, Stage
<1>2. CASE bad /\ Reject
  BY <1>1, <1>2, AtStage, RejectInv
<1>3. CASE ~bad /\ Repairs(args, {}, next)
  <2>1. args' = args /\ stage' = next
    BY <1>3 DEF Repairs
  <2>2. args \in ArgumentsType
    BY <1>1, AtStage
  <2>3. next \in {"limit", "timeout", "aggregations", "filters", "shapes", "fields", "detail", "width",
                  "direction", "schema"}
    OBVIOUS
  <2> QED BY <1>1, <1>3, <2>1, <2>2, <2>3, PassInv
<1> QED BY <1>1, <1>2, <1>3

\* Fields that a stage does not touch still come from those asked as before.
LEMMA FieldKept ==
  ASSUME NEW i, FieldSo(i), UNCHANGED <<informed, asked>>, Fields' = Fields,
         stage \in Early <=> stage' \in Early, stage \in Middle <=> stage' \in Middle,
         stage \in Late <=> stage' \in Late, stage = "fields" <=> stage' = "fields"
  PROVE  FieldSo(i)'
<1>1. SameField(i)' <=> SameField(i)
  BY DEF SameField, Asked, Mapped, SynonymOf
<1>2. /\ Asked(i)' = Asked(i) /\ AskedName(i)' = AskedName(i)
      /\ CalcOK(Fields[i], AskedName(i))' <=> CalcOK(Fields[i], AskedName(i))
      /\ IsAggregateCalc(Fields[i].caption)' <=> IsAggregateCalc(Fields[i].caption)
  BY DEF Asked, AskedName, CalcOK, IsAggregateCalc
<1> QED BY <1>1, <1>2 DEF FieldSo

LEMMA UnsafeInv ==
  ASSUME GuardInv, Unsafe
  PROVE  GuardInv'
<1>1. stage = "unsafe" /\ Checked("unsafe", args.foreign, "limit") /\ UNCHANGED <<informed, asked>>
  BY DEF Unsafe, Checked, Stage, Reject, Repairs
<1>2. pass = 2 => ~args.foreign
  BY <1>1, AtStage DEF Clean, SafeOK
<1>3. ASSUME pass = 1, ~args.foreign, args' = args, stage' = "limit"
      PROVE  PassedSo' /\ \A i \in Positions : FieldSo(i)'
  <2>1. \A i \in Positions : FieldSo(i)
    BY <1>1, <1>3, AtStage
  <2>2. \A i \in Positions : FieldSo(i)'
    BY <1>1, <1>3, <2>1, FieldKept DEF Early, Middle, Late, Fields
  <2>3. PassedSo'
    BY <1>3 DEF PassedSo, SafeOK, Early, Middle, Late
  <2> QED BY <2>2, <2>3
<1> QED BY <1>1, <1>2, <1>3, CheckInv

LEMMA DetailInv ==
  ASSUME GuardInv, DetailScan
  PROVE  GuardInv'
<1> DEFINE bad == /\ args.query.detail
                  /\ \/ ~LimitAsked
                     \/ LimitFound.n >= MaxLimit
                     \/ args.question = "sum" /\ ~HasAggregate
<1>1. stage = "detail" /\ Checked("detail", bad, "width") /\ UNCHANGED <<informed, asked>>
  BY DEF DetailScan, Checked, Stage, Reject, Repairs
<1>2. /\ args \in ArgumentsType /\ pass \in {1, 2} /\ LimitOK(args) /\ MaxLimit \in Nat
      /\ pass = 2 => LimitAsked
  BY <1>1, AtStage, BoundsAssumption DEF PassedSo, Clean, Repaired, GuardInv, SecondPass, LimitOK, LimitAsked
<1>3. LimitFound = IF args.query.limit # None THEN args.query.limit ELSE args.limit
  BY <1>2 DEF LimitFound, LimitKey, LimitOK
<1>4. LimitFound.n \in Nat
  BY <1>2, <1>3 DEF LimitOK
<1>5. pass = 2 => ~bad
  BY <1>1, <1>2, <1>3, <1>4, AtStage DEF Clean, DetailOK, HasAggregate, Positions, Fields
<1>6. ASSUME pass = 1, ~bad, args' = args, stage' = "width"
      PROVE  PassedSo' /\ \A i \in Positions : FieldSo(i)'
  <2>1. PassedSo /\ \A i \in Positions : FieldSo(i)
    BY <1>1, <1>6, AtStage
  <2>2. DetailOK(args)
    BY <1>2, <1>3, <1>4, <1>6 DEF DetailOK, HasAggregate, Positions, Fields
  <2>3. \A i \in Positions : FieldSo(i)'
    BY <1>1, <1>6, <2>1, FieldKept DEF Early, Middle, Late, Fields
  <2>4. PassedSo'
    BY <1>1, <1>6, <2>1, <2>2 DEF PassedSo, SafeOK, LimitOK, TimeoutOK, WordsOK, SortOK, ShapesOK, NamesOK, DetailOK,
       Early, Middle, Late
  <2> QED BY <2>3, <2>4
<1> HIDE DEF bad
<1> QED BY <1>1, <1>5, <1>6, CheckInv

LEMMA WidthInv ==
  ASSUME GuardInv, Width
  PROVE  GuardInv'
<1>1. stage = "width" /\ Checked("width", Len(Fields) > MaxWidth, "direction") /\ UNCHANGED <<informed, asked>>
  BY DEF Width, Checked, Stage, Reject, Repairs
<1>2. Len(Fields) \in Nat /\ MaxWidth \in Nat
  BY <1>1, AtStage, TypeParts, BoundsAssumption DEF Fields
<1>3. pass = 2 => ~(Len(Fields) > MaxWidth)
  BY <1>1, <1>2, AtStage DEF Clean, WidthOK, Fields
<1>4. ASSUME pass = 1, ~(Len(Fields) > MaxWidth), args' = args, stage' = "direction"
      PROVE  PassedSo' /\ \A i \in Positions : FieldSo(i)'
  <2>1. PassedSo /\ \A i \in Positions : FieldSo(i)
    BY <1>1, <1>4, AtStage
  <2>2. \A i \in Positions : FieldSo(i)'
    BY <1>1, <1>4, <2>1, FieldKept DEF Early, Middle, Late, Fields
  <2>3. PassedSo'
    BY <1>1, <1>2, <1>4, <2>1 DEF PassedSo, SafeOK, LimitOK, TimeoutOK, WordsOK, SortOK, ShapesOK, NamesOK, DetailOK,
       WidthOK, Early, Middle, Late, Fields
  <2> QED BY <2>2, <2>3
<1> QED BY <1>1, <1>3, <1>4, CheckInv

LEMMA DirectionInv ==
  ASSUME GuardInv, Direction
  PROVE  GuardInv'
<1> DEFINE bad == args.question = "negative" /\ args.query.order = "DESC"
<1>1. stage = "direction" /\ Checked("direction", bad, "schema") /\ UNCHANGED <<informed, asked>>
  BY DEF Direction, Checked, Stage, Reject, Repairs
<1>2. pass = 2 => ~bad
  BY <1>1, AtStage DEF Clean, DirectionOK
<1>3. ASSUME pass = 1, ~bad, args' = args, stage' = "schema"
      PROVE  PassedSo' /\ \A i \in Positions : FieldSo(i)'
  <2>1. PassedSo /\ \A i \in Positions : FieldSo(i)
    BY <1>1, <1>3, AtStage
  <2>2. \A i \in Positions : FieldSo(i)'
    BY <1>1, <1>3, <2>1, FieldKept DEF Early, Middle, Late, Fields
  <2>3. PassedSo'
    BY <1>1, <1>3, <2>1 DEF PassedSo, SafeOK, LimitOK, TimeoutOK, WordsOK, SortOK, ShapesOK, NamesOK, DetailOK,
       WidthOK, DirectionOK, Early, Middle, Late
  <2> QED BY <2>2, <2>3
<1> HIDE DEF bad
<1> QED BY <1>1, <1>2, <1>3, CheckInv
-----------------------------------------------------------------------------
(* The repairs. *)

\* A limit goes where one was found, or to the top.
LEMMA LimitSet ==
  ASSUME args \in ArgumentsType, NEW v \in NumberText, NEW key, NEW new, new = WithLimit(key, v)
  PROVE  /\ new \in ArgumentsType /\ new.query.fields = args.query.fields /\ new.query.filters = args.query.filters
         /\ new.query.order = args.query.order /\ new.query.detail = args.query.detail
         /\ new.query.limit = IF key = "query" THEN v ELSE args.query.limit
         /\ new.limit = IF key = "query" THEN args.limit ELSE v
         /\ new.timeout = args.timeout /\ new.question = args.question /\ new.foreign = args.foreign
         /\ key = "query" /\ v = args.query.limit => new = args
         /\ key # "query" /\ v = args.limit => new = args
<1>1. CASE key = "query"
  <2>1. new = [args EXCEPT !.query.limit = v]
    BY <1>1 DEF WithLimit
  <2> QED BY <1>1, <2>1 DEF ArgumentsType, QueryType
<1>2. CASE key # "query"
  <2>1. new = [args EXCEPT !.limit = v]
    BY <1>2 DEF WithLimit
  <2> QED BY <1>2, <2>1 DEF ArgumentsType, QueryType
<1> QED BY <1>1, <1>2

LEMMA LimitInv ==
  ASSUME GuardInv, Limit
  PROVE  GuardInv'
<1> DEFINE v == IF LimitKey = "none" THEN DefaultLimit ELSE Clamped(LimitFound, MaxLimit)
           key == IF LimitKey = "none" THEN "limit" ELSE LimitKey
           new == WithLimit(key, v)
           bad == LimitKey # "none" /\ LimitFound.n = 0
           done == IF LimitKey = "none" THEN {<<"limit_default", "limit">>}
                   ELSE IF v # LimitFound THEN {<<"limit_clamp", LimitKey>>} ELSE {}
<1>1. stage = "limit" /\ UNCHANGED <<informed, asked>> /\ ((bad /\ Reject) \/ (~bad /\ Repairs(new, done, "timeout")))
  BY DEF Limit, Stage, Reject, Repairs
<1>2. /\ args \in ArgumentsType /\ pass \in {1, 2} /\ MaxLimit \in Nat \ {0}
      /\ pass = 1 => PassedSo /\ \A i \in Positions : FieldSo(i)
      /\ pass = 2 => LimitOK(args)
  BY <1>1, AtStage, BoundsAssumption DEF Clean, Repaired
<1>3. /\ LimitKey = IF args.query.limit # None THEN "query" ELSE IF args.limit # None THEN "limit" ELSE "none"
      /\ LimitKey = "query" => LimitFound = args.query.limit
      /\ LimitKey = "limit" => LimitFound = args.limit
  BY DEF LimitKey, LimitFound
<1>4. LimitKey # "none" => LimitFound \in NumberText
  BY <1>2, <1>3, TypeParts
<1>5. v \in NumberText /\ v # None /\ (LimitKey # "none" => v = Clamped(LimitFound, MaxLimit))
  <2>1. DefaultLimit \in NumberText
    BY <1>2 DEF DefaultLimit, Number, NumberText
  <2>2. LimitKey # "none" => Clamped(LimitFound, MaxLimit) \in NumberText
    BY <1>2, <1>4, ClampedRight
  <2> QED BY <2>1, <2>2, ArgumentsAssumption
<1>6. ~bad => v.n \in 1..MaxLimit
  BY <1>2, <1>4, ClampedRight DEF DefaultLimit, Number
<1>7. LimitOK(args) => ~bad /\ done = {}
  BY <1>2, <1>3, <1>4, ClampedRight DEF LimitOK
<1>8. CASE bad /\ Reject
  BY <1>1, <1>2, <1>7, <1>8, RejectInv
<1>9. CASE ~bad /\ Repairs(new, done, "timeout")
  <2>1. /\ new \in ArgumentsType /\ new.query.fields = args.query.fields /\ new.query.filters = args.query.filters
        /\ new.query.limit = IF key = "query" THEN v ELSE args.query.limit
        /\ new.limit = IF key = "query" THEN args.limit ELSE v
        /\ new.foreign = args.foreign
        /\ key = "query" /\ v = args.query.limit => new = args
        /\ key # "query" /\ v = args.limit => new = args
    BY <1>2, <1>5, LimitSet
  <2>2. done = {} => new = args
    BY <1>3, <2>1
  <2>3. done # {} /\ args = asked => ~Repaired(asked)
    BY <1>7 DEF Repaired
  <2>4. args' = new /\ stage' = "timeout" /\ Fields' = Fields /\ LimitOK(new)
    <3>1. args' = new /\ stage' = "timeout"
      BY <1>9 DEF Repairs
    <3>2. LimitOK(new)
      BY <1>3, <1>5, <1>6, <1>9, <2>1 DEF LimitOK
    <3> HIDE DEF new
    <3> QED BY <2>1, <3>1, <3>2 DEF Fields
  <2> HIDE DEF new, done, v, key, bad
  <2>5. ASSUME pass = 1 PROVE PassedSo' /\ \A i \in Positions : FieldSo(i)'
    <3>1. PassedSo'
      BY <1>1, <1>2, <2>1, <2>4, <2>5 DEF PassedSo, SafeOK, LimitOK, Early, Middle, Late
    <3>2. \A i \in Positions : FieldSo(i)'
      BY <1>1, <1>2, <2>4, <2>5, FieldKept DEF Early, Middle, Late
    <3> QED BY <3>1, <3>2
  <2>6. pass = 2 => done = {}
    BY <1>2, <1>7
  <2> QED BY <1>1, <1>9, <2>1, <2>2, <2>3, <2>5, <2>6, PassInv
<1> QED BY <1>1, <1>8, <1>9

LEMMA TimeoutInv ==
  ASSUME GuardInv, Timeout
  PROVE  GuardInv'
<1> DEFINE v == Clamped(args.timeout, MaxTimeout)
           new == IF args.timeout = None THEN args ELSE [args EXCEPT !.timeout = v]
           bad == args.timeout # None /\ args.timeout.n = 0
           done == IF args.timeout # None /\ v # args.timeout THEN {<<"timeout_clamp", "timeout">>} ELSE {}
<1>1. stage = "timeout" /\ UNCHANGED <<informed, asked>>
      /\ ((bad /\ Reject) \/ (~bad /\ Repairs(new, done, "aggregations")))
  BY DEF Timeout, Checked, Stage, Reject, Repairs
<1>2. /\ args \in ArgumentsType /\ pass \in {1, 2} /\ MaxTimeout \in Nat \ {0}
      /\ pass = 1 => PassedSo /\ \A i \in Positions : FieldSo(i)
      /\ pass = 2 => TimeoutOK(args)
  BY <1>1, AtStage, BoundsAssumption DEF Clean, Repaired
<1>3. args.timeout # None => args.timeout \in NumberText
  BY <1>2, TypeParts
<1>4. args.timeout # None => v \in NumberText /\ (~bad => v.n \in 1..MaxTimeout)
  BY <1>2, <1>3, ClampedRight
<1>5. TimeoutOK(args) => ~bad /\ done = {}
  BY <1>2, <1>3, ClampedRight DEF TimeoutOK
<1>6. /\ new \in ArgumentsType /\ new.query = args.query /\ new.limit = args.limit /\ new.foreign = args.foreign
      /\ new.timeout = IF args.timeout = None THEN None ELSE v
  BY <1>2, <1>4 DEF ArgumentsType
<1>7. done = {} => new = args
  BY <1>2 DEF ArgumentsType
<1>8. CASE bad /\ Reject
  BY <1>1, <1>2, <1>5, <1>8, RejectInv
<1>9. CASE ~bad /\ Repairs(new, done, "aggregations")
  <2>1. done # {} /\ args = asked => ~Repaired(asked)
    BY <1>5 DEF Repaired
  <2>2. TimeoutOK(new)
    BY <1>4, <1>6, <1>9 DEF TimeoutOK
  <2>3. args' = new /\ stage' = "aggregations"
    BY <1>9 DEF Repairs
  <2> HIDE DEF new, done, v, bad
  <2>4. ASSUME pass = 1 PROVE PassedSo' /\ \A i \in Positions : FieldSo(i)'
    <3>1. PassedSo'
      BY <1>1, <1>2, <1>6, <2>2, <2>3, <2>4 DEF PassedSo, SafeOK, LimitOK, TimeoutOK, Early, Middle, Late
    <3>2. Fields' = Fields
      BY <1>6, <2>3 DEF Fields
    <3>3. \A i \in Positions : FieldSo(i)'
      BY <1>1, <1>2, <2>3, <2>4, <3>2, FieldKept DEF Early, Middle, Late
    <3> QED BY <3>1, <3>3
  <2>5. pass = 2 => done = {}
    BY <1>2, <1>5
  <2> QED BY <1>1, <1>6, <1>7, <1>9, <2>1, <2>4, <2>5, PassInv
<1> QED BY <1>1, <1>8, <1>9

LEMMA FilterSortInv ==
  ASSUME GuardInv, FilterSort
  PROVE  GuardInv'
<1> DEFINE w == args.query.order
           new == [args EXCEPT !.query.order = Spelt(w)]
           bad == Misspelt(w)
           done == IF Spelt(w) # w THEN {<<"sort_direction_case", "order">>} ELSE {}
<1>1. stage = "filters" /\ UNCHANGED <<informed, asked>>
      /\ ((bad /\ Reject) \/ (~bad /\ Repairs(new, done, "shapes")))
  BY DEF FilterSort, Stage, Reject, Repairs
<1>2. /\ args \in ArgumentsType /\ pass \in {1, 2} /\ w \in Words \cup {None}
      /\ pass = 1 => PassedSo /\ \A i \in Positions : FieldSo(i)
      /\ pass = 2 => SortOK(args)
  BY <1>1, AtStage, TypeParts DEF Clean, Repaired
<1>3. SortOK(args) => ~bad /\ done = {}
  BY <1>2, SpeltRight DEF SortOK
<1>4. CASE bad /\ Reject
  BY <1>1, <1>2, <1>3, <1>4, RejectInv
<1>5. CASE ~bad /\ Repairs(new, done, "shapes")
  <2>1. Spelt(w) \in Words \cup {None} /\ WordOK(Spelt(w))
    BY <1>2, <1>5, SpeltRight
  <2>2. /\ new \in ArgumentsType /\ new.query.fields = args.query.fields /\ new.query.filters = args.query.filters
        /\ new.query.limit = args.query.limit /\ new.limit = args.limit /\ new.foreign = args.foreign
        /\ new.timeout = args.timeout /\ new.query.order = Spelt(w)
    BY <1>2, <2>1 DEF ArgumentsType, QueryType
  <2>3. done = {} => new = args
    BY <1>2 DEF ArgumentsType, QueryType
  <2>4. done # {} /\ args = asked => ~Repaired(asked)
    BY <1>3 DEF Repaired
  <2>5. args' = new /\ stage' = "shapes" /\ SortOK(new)
    BY <1>5, <2>1, <2>2 DEF Repairs, SortOK
  <2> HIDE DEF new, done, w, bad
  <2>6. ASSUME pass = 1 PROVE PassedSo' /\ \A i \in Positions : FieldSo(i)'
    <3>1. PassedSo'
      BY <1>1, <1>2, <2>2, <2>5, <2>6 DEF PassedSo, SafeOK, LimitOK, TimeoutOK, WordsOK, SortOK, Early, Middle, Late
    <3>2. Fields' = Fields
      BY <2>2, <2>5 DEF Fields
    <3>3. \A i \in Positions : FieldSo(i)'
      BY <1>1, <1>2, <2>5, <2>6, <3>2, FieldKept DEF Early, Middle, Late
    <3> QED BY <3>1, <3>3
  <2>7. pass = 2 => done = {}
    BY <1>2, <1>3
  <2> QED BY <1>1, <1>5, <2>2, <2>3, <2>4, <2>6, <2>7, PassInv
<1> QED BY <1>1, <1>4, <1>5

LEMMA FieldsSet ==
  ASSUME args \in ArgumentsType, NEW f \in Seq(FieldType), NEW new, new = WithFields(f)
  PROVE  /\ new \in ArgumentsType /\ new.query.fields = f /\ new.query.filters = args.query.filters
         /\ new.query.limit = args.query.limit /\ new.query.order = args.query.order
         /\ new.limit = args.limit /\ new.foreign = args.foreign /\ new.timeout = args.timeout
         /\ f = args.query.fields => new = args
  BY DEF WithFields, ArgumentsType, QueryType

SpeltField(x) == [x EXCEPT !.function = Spelt(@), !.agg = Spelt(@)]

LEMMA AggregationsInv ==
  ASSUME GuardInv, Aggregations
  PROVE  GuardInv'
<1> DEFINE f == [i \in Positions |-> SpeltField(Fields[i])]
           new == WithFields(f)
           bad == \E i \in Positions : Misspelt(Fields[i].function) \/ Misspelt(Fields[i].agg)
           done == {<<"aggregation_case", i>> : i \in {j \in Positions : f[j] # Fields[j]}}
<1>1. stage = "aggregations" /\ UNCHANGED <<informed, asked>>
      /\ ((bad /\ Reject) \/ (~bad /\ Repairs(new, done, "filters")))
  BY DEF Aggregations, SpeltField, Stage, Reject, Repairs
<1>2. /\ args \in ArgumentsType /\ pass \in {1, 2} /\ Fields \in Seq(FieldType) /\ Fields = args.query.fields
      /\ pass = 1 => PassedSo /\ \A i \in Positions : FieldSo(i)
      /\ pass = 2 => WordsOK(args)
  BY <1>1, AtStage, TypeParts DEF Clean, Repaired, Fields
<1>3. ASSUME NEW i \in Positions
      PROVE  /\ Fields[i] \in FieldType
             /\ f[i].caption = Fields[i].caption /\ f[i].alias = Fields[i].alias
             /\ f[i].function = Spelt(Fields[i].function) /\ f[i].agg = Spelt(Fields[i].agg)
             /\ ~bad => f[i] \in FieldType /\ WordOK(f[i].function) /\ WordOK(f[i].agg)
             /\ f[i].function = Fields[i].function /\ f[i].agg = Fields[i].agg => f[i] = Fields[i]
  <2>1. Fields[i] \in FieldType
    BY <1>2 DEF Positions
  <2>2. Fields[i].function \in Words \cup {None} /\ Fields[i].agg \in Words \cup {None}
    BY <2>1 DEF FieldType
  <2>3. f[i] = [Fields[i] EXCEPT !.function = Spelt(Fields[i].function), !.agg = Spelt(Fields[i].agg)]
    BY DEF SpeltField
  <2>4. ~bad => /\ Spelt(Fields[i].function) \in Words \cup {None} /\ WordOK(Spelt(Fields[i].function))
                /\ Spelt(Fields[i].agg) \in Words \cup {None} /\ WordOK(Spelt(Fields[i].agg))
    BY <2>2, SpeltRight
  <2> HIDE DEF f, bad
  <2> QED BY <2>1, <2>3, <2>4 DEF FieldType
<1>4. WordsOK(args) => ~bad /\ done = {}
  <2> SUFFICES ASSUME WordsOK(args) PROVE ~bad /\ done = {}
    OBVIOUS
  <2>1. ASSUME NEW i \in Positions
        PROVE  ~Misspelt(Fields[i].function) /\ ~Misspelt(Fields[i].agg) /\ f[i] = Fields[i]
    <3>1. Fields[i].function \in Words \cup {None} /\ Fields[i].agg \in Words \cup {None}
      BY <1>3 DEF FieldType
    <3>2. WordOK(Fields[i].function) /\ WordOK(Fields[i].agg)
      BY <1>2 DEF WordsOK, Positions
    <3> QED BY <1>3, <3>1, <3>2, SpeltRight
  <2> QED BY <2>1
<1>5. CASE bad /\ Reject
  BY <1>1, <1>2, <1>4, <1>5, RejectInv
<1>6. CASE ~bad /\ Repairs(new, done, "filters")
  <2>1. f \in Seq(FieldType) /\ DOMAIN f = Positions
    <3>1. Positions = 1..Len(Fields) /\ Len(Fields) \in Nat
      BY <1>2 DEF Positions
    <3>2. \A i \in Positions : f[i] \in FieldType
      BY <1>3, <1>6
    <3> QED BY <3>1, <3>2
  <2>2. /\ new \in ArgumentsType /\ new.query.fields = f /\ new.query.filters = args.query.filters
        /\ new.query.limit = args.query.limit /\ new.query.order = args.query.order
        /\ new.limit = args.limit /\ new.foreign = args.foreign /\ new.timeout = args.timeout
        /\ f = args.query.fields => new = args
    BY <1>2, <2>1, FieldsSet
  <2>3. done = {} => new = args
    <3>1. done = {} => \A i \in Positions : f[i] = Fields[i]
      OBVIOUS
    <3>2. Fields = [i \in Positions |-> Fields[i]]
      BY <1>2 DEF Positions
    <3> QED BY <1>2, <2>2, <3>1, <3>2
  <2>4. done # {} /\ args = asked => ~Repaired(asked)
    BY <1>4 DEF Repaired
  <2>5. args' = new /\ stage' = "filters" /\ WordsOK(new) /\ Fields' = f
    BY <1>3, <1>6, <2>1, <2>2 DEF Repairs, WordsOK, Fields
  <2>6. ASSUME pass = 1 PROVE PassedSo' /\ \A i \in Positions : FieldSo(i)'
    <3>1. PassedSo'
      <4> HIDE DEF new
      <4> QED BY <1>1, <1>2, <2>2, <2>5, <2>6 DEF PassedSo, SafeOK, LimitOK, TimeoutOK, WordsOK, Early, Middle, Late
    <3>2. ASSUME NEW i \in Positions PROVE FieldSo(i)'
      <4>1. Fields[i] = Asked(i) /\ Asked(i)' = Asked(i)
        BY <1>1, <1>2, <2>6 DEF FieldSo, Early, Asked
      <4>2. Fields[i].function # None => f[i].function # None
        <5>1. Fields[i].function \in Words \cup {None}
          BY <1>3 DEF FieldType
        <5> QED BY <1>3, <1>6, <5>1, SpeltRight
      <4> QED BY <1>3, <2>5, <4>1, <4>2 DEF FieldSo, Early, Middle, Late
    <3> QED BY <3>1, <3>2
  <2>7. pass = 2 => done = {}
    BY <1>2, <1>4
  <2>8. DOMAIN new.query.fields = DOMAIN args.query.fields
    BY <2>1, <2>2 DEF Positions, Fields
  <2> HIDE DEF new, done, f, bad
  <2> QED BY <1>1, <1>6, <2>2, <2>3, <2>4, <2>6, <2>7, <2>8, PassInv
<1> QED BY <1>1, <1>5, <1>6

LEMMA ShapesInv ==
  ASSUME GuardInv, Shapes
  PROVE  GuardInv'
<1> DEFINE f == [i \in Positions |-> Shaped(Fields[i])]
           new == WithFields(f)
           bad == \E i \in Positions : Conflict(Fields[i]) \/ Caption(Fields[i]) = None
           done == {<<"field_object", i>> : i \in {j \in Positions : Shaped(Fields[j]) # Fields[j]}}
<1>1. stage = "shapes" /\ UNCHANGED <<informed, asked>>
      /\ ((bad /\ Reject) \/ (~bad /\ Repairs(new, done, "fields")))
  BY DEF Shapes, Stage, Reject, Repairs
<1>2. /\ args \in ArgumentsType /\ pass \in {1, 2} /\ Fields \in Seq(FieldType) /\ Fields = args.query.fields
      /\ pass = 1 => PassedSo /\ \A i \in Positions : FieldSo(i)
      /\ pass = 2 => ShapesOK(args) /\ ~informed
  BY <1>1, AtStage, TypeParts DEF Clean, Repaired, Fields, GuardInv, SecondPass
<1>3. ASSUME NEW i \in Positions
      PROVE  /\ Fields[i] \in FieldType
             /\ f[i] = Shaped(Fields[i]) /\ f[i].alias = None /\ f[i].agg = None
             /\ f[i].caption = Caption(Fields[i])
             /\ f[i].function = IF Caption(Fields[i]) # None /\ IsAggregateCalc(Caption(Fields[i])) THEN None
                                ELSE Function(Fields[i])
             /\ f[i] \in FieldType
  <2>1. Fields[i] \in FieldType
    BY <1>2 DEF Positions
  <2>2. Caption(Fields[i]) \in Names \cup {None} /\ Function(Fields[i]) \in Words \cup {None}
    BY <2>1 DEF FieldType, Caption, Function
  <2> QED BY <2>1, <2>2 DEF Shaped, FieldType
<1>4. ASSUME NEW i \in Positions, ShapeOK(Fields[i]), CalcOK(Fields[i], Fields[i].caption)
      PROVE  ~Conflict(Fields[i]) /\ Caption(Fields[i]) # None /\ Shaped(Fields[i]) = Fields[i]
  <2>1. ~Conflict(Fields[i]) /\ Caption(Fields[i]) = Fields[i].caption /\ Fields[i].caption # None
        /\ Function(Fields[i]) = Fields[i].function
    BY <1>4 DEF ShapeOK, Conflict, Caption, Function
  <2>2. Shaped(Fields[i]) = [caption |-> Fields[i].caption, alias |-> None, agg |-> None, function |-> Fields[i].function]
    BY <1>4, <2>1 DEF Shaped, CalcOK
  <2> QED BY <1>3, <1>4, <2>1, <2>2 DEF ShapeOK, FieldType
<1>5. ShapesOK(args) /\ (\A i \in Positions : CalcOK(Fields[i], Fields[i].caption)) => ~bad /\ done = {}
  BY <1>2, <1>4 DEF ShapesOK, Positions
<1>6. pass = 2 => ~bad /\ done = {}
  BY <1>2, <1>5 DEF CalcOK, IsAggregateCalc
<1>7. CASE bad /\ Reject
  BY <1>1, <1>2, <1>6, <1>7, RejectInv
<1>8. CASE ~bad /\ Repairs(new, done, "fields")
  <2>1. f \in Seq(FieldType) /\ DOMAIN f = Positions
    <3>1. Positions = 1..Len(Fields) /\ Len(Fields) \in Nat
      BY <1>2 DEF Positions
    <3>2. \A i \in Positions : f[i] \in FieldType
      BY <1>3
    <3> QED BY <3>1, <3>2
  <2>2. /\ new \in ArgumentsType /\ new.query.fields = f /\ new.query.filters = args.query.filters
        /\ new.query.limit = args.query.limit /\ new.query.order = args.query.order
        /\ new.limit = args.limit /\ new.foreign = args.foreign /\ new.timeout = args.timeout
        /\ f = args.query.fields => new = args
    BY <1>2, <2>1, FieldsSet
  <2>3. done = {} => new = args
    <3>1. done = {} => \A i \in Positions : f[i] = Fields[i]
      OBVIOUS
    <3>2. Fields = [i \in Positions |-> Fields[i]]
      BY <1>2 DEF Positions
    <3> QED BY <1>2, <2>2, <3>1, <3>2
  <2>4. done # {} /\ args = asked =>
           ~Repaired(asked) \/ \E i \in DOMAIN asked.query.fields : ~CalcOK(Asked(i), Asked(i).caption)
    BY <1>5 DEF Repaired, Asked, Positions, Fields
  <2>5. args' = new /\ stage' = "fields" /\ Fields' = f
    BY <1>8, <2>2 DEF Repairs, Fields
  <2>6. ASSUME pass = 1 PROVE PassedSo' /\ \A i \in Positions : FieldSo(i)'
    <3>1. PassedSo /\ \A i \in Positions : FieldSo(i)
      BY <1>2, <2>6
    <3>2. WordsOK(new) /\ ShapesOK(new)
      <4>1. \A i \in Positions : WordOK(Fields[i].function) /\ WordOK(Fields[i].agg)
        BY <1>1, <1>2, <3>1 DEF PassedSo, WordsOK, Early, Positions
      <4>2. \A i \in Positions : WordOK(f[i].function) /\ WordOK(f[i].agg) /\ ShapeOK(f[i])
        BY <1>3, <1>8, <4>1 DEF WordOK, Function, ShapeOK
      <4> QED BY <2>1, <2>2, <4>2 DEF WordsOK, ShapesOK
    <3>3. PassedSo'
      <4> HIDE DEF new
      <4> QED BY <1>1, <2>2, <2>5, <3>1, <3>2 DEF PassedSo, SafeOK, LimitOK, TimeoutOK, WordsOK, SortOK, ShapesOK,
                 Early, Middle, Late, WordOK, ShapeOK
    <3>4. ASSUME NEW i \in Positions PROVE FieldSo(i)'
      <4>1. /\ Fields[i].caption = Asked(i).caption /\ Fields[i].alias = Asked(i).alias
            /\ Fields[i].function = Spelt(Asked(i).function) /\ (Asked(i).function # None => Fields[i].function # None)
            /\ Fields[i].agg = Spelt(Asked(i).agg)
        BY <1>1, <3>1 DEF FieldSo, Middle
      <4>2. Asked(i)' = Asked(i) /\ AskedName(i)' = AskedName(i) /\ f[i].caption = AskedName(i) /\ AskedName(i) # None
            /\ Caption(Fields[i]) = AskedName(i)
        BY <1>1, <1>3, <1>8, <4>1 DEF Asked, AskedName, Caption
      <4>3. IsAggregateCalc(AskedName(i))' <=> IsAggregateCalc(AskedName(i))
        BY <1>1, <4>2 DEF IsAggregateCalc
      <4>4. /\ IsAggregateCalc(AskedName(i)) => f[i].function = None
            /\ ~IsAggregateCalc(AskedName(i)) => f[i].function = Function(Fields[i])
        BY <1>3, <4>2
      <4>5. Function(Fields[i]) = Spelt(Asked(i).function)
            \/ (Asked(i).function = None /\ Function(Fields[i]) = Spelt(Asked(i).agg))
        BY <4>1 DEF Function
      <4>6. CalcOK(Fields[i], AskedName(i))'
        BY <2>5, <4>3, <4>4 DEF CalcOK
      <4>7. \/ Fields'[i].function = Spelt(Asked(i).function)
            \/ Asked(i).function = None /\ Fields'[i].function = Spelt(Asked(i).agg)
            \/ Fields'[i].function = None /\ IsAggregateCalc(Fields[i].caption)'
        <5>1. CASE IsAggregateCalc(AskedName(i))
          <6>1. Fields'[i].caption = AskedName(i)
            BY <2>5, <4>2
          <6>2. IsAggregateCalc(Fields[i].caption)'
            BY <1>1, <5>1, <6>1 DEF IsAggregateCalc
          <6> QED BY <2>5, <4>4, <5>1, <6>2
        <5>2. CASE ~IsAggregateCalc(AskedName(i))
          BY <2>5, <4>4, <4>5, <5>2
        <5> QED BY <5>1, <5>2
      <4> QED BY <2>5, <4>2, <4>6, <4>7 DEF FieldSo, Early, Middle, Late
    <3> QED BY <3>3, <3>4
  <2>7. DOMAIN new.query.fields = DOMAIN args.query.fields
    BY <2>1, <2>2 DEF Positions, Fields
  <2> HIDE DEF new, done, f, bad
  <2> QED BY <1>1, <1>6, <1>8, <2>2, <2>3, <2>4, <2>6, <2>7, PassInv
<1> QED BY <1>1, <1>7, <1>8

MappedField(x) == [x EXCEPT !.caption = Mapped(@)]

LEMMA FieldNamesInv ==
  ASSUME GuardInv, FieldNames
  PROVE  GuardInv'
<1> DEFINE filters == args.query.filters
           f == [i \in Positions |-> MappedField(Fields[i])]
           g == [i \in DOMAIN filters |-> Mapped(filters[i])]
           named == [fields |-> {i \in Positions : Reported(Fields[i].caption)},
                     filters |-> {i \in DOMAIN filters : Reported(filters[i])}]
           new == [args EXCEPT !.query.fields = f, !.query.filters = g]
           bad == \/ \E i \in Positions : Unknown(Fields[i].caption)
                  \/ \E i \in DOMAIN filters : Unknown(filters[i])
           done == UNION {{<<"field_name", where, i>> : i \in named[where]} : where \in DOMAIN named}
<1>1. stage = "fields" /\ UNCHANGED <<informed, asked>>
      /\ ((bad /\ Reject) \/ (~bad /\ Repairs(new, done, "detail")))
  BY DEF FieldNames, MappedField, Stage, Reject, Repairs
<1>2. /\ args \in ArgumentsType /\ pass \in {1, 2} /\ Fields \in Seq(FieldType) /\ Fields = args.query.fields
      /\ filters \in Seq(Names) /\ ShapesOK(args)
      /\ pass = 1 => PassedSo /\ \A i \in Positions : FieldSo(i)
      /\ pass = 2 => NamesOK(args)
  BY <1>1, AtStage, TypeParts DEF Clean, Repaired, Fields, PassedSo, Early, Middle
<1>3. ASSUME NEW i \in Positions
      PROVE  /\ Fields[i] \in FieldType /\ Fields[i].caption \in Names /\ ShapeOK(Fields[i])
             /\ f[i].caption = Mapped(Fields[i].caption) /\ f[i].alias = Fields[i].alias
             /\ f[i].function = Fields[i].function /\ f[i].agg = Fields[i].agg
             /\ ~bad => f[i].caption \in Queryable /\ f[i] \in FieldType
             /\ ~Reported(Fields[i].caption) => f[i] = Fields[i]
  <2>1. Fields[i] \in FieldType /\ ShapeOK(Fields[i])
    BY <1>2 DEF Positions, ShapesOK
  <2>2. Fields[i].caption \in Names
    BY <2>1 DEF FieldType, ShapeOK
  <2>3. f[i] = [Fields[i] EXCEPT !.caption = Mapped(Fields[i].caption)]
    BY DEF MappedField
  <2>4. ~bad => Mapped(Fields[i].caption) \in Queryable /\ Mapped(Fields[i].caption) \in Names
    BY <2>2, MappedRight, NamesAssumption
  <2>5. ~Reported(Fields[i].caption) => Mapped(Fields[i].caption) = Fields[i].caption
    BY <2>2, MappedRight
  <2> HIDE DEF f, bad
  <2> QED BY <2>1, <2>2, <2>3, <2>4, <2>5 DEF FieldType
<1>4. ASSUME NEW i \in DOMAIN filters
      PROVE  /\ filters[i] \in Names /\ g[i] = Mapped(filters[i])
             /\ ~bad => g[i] \in Queryable
             /\ ~Reported(filters[i]) => g[i] = filters[i]
  BY <1>2, MappedRight
<1>5. done = {} <=> /\ \A i \in Positions : ~Reported(Fields[i].caption)
                    /\ \A i \in DOMAIN filters : ~Reported(filters[i])
  <2>1. DOMAIN named = {"fields", "filters"}
    OBVIOUS
  <2>2. done = {} <=> named["fields"] = {} /\ named["filters"] = {}
    <3> HIDE DEF named
    <3>1. ASSUME named["fields"] = {}, named["filters"] = {} PROVE done = {}
      <4>1. \A where \in DOMAIN named : {<<"field_name", where, i>> : i \in named[where]} = {}
        BY <2>1, <3>1
      <4> QED BY <4>1
    <3>2. ASSUME NEW i \in named["fields"] PROVE <<"field_name", "fields", i>> \in done
      <4>1. <<"field_name", "fields", i>> \in {<<"field_name", "fields", j>> : j \in named["fields"]}
        OBVIOUS
      <4> QED BY <4>1, <2>1
    <3>3. ASSUME NEW i \in named["filters"] PROVE <<"field_name", "filters", i>> \in done
      <4>1. <<"field_name", "filters", i>> \in {<<"field_name", "filters", j>> : j \in named["filters"]}
        OBVIOUS
      <4> QED BY <4>1, <2>1
    <3> HIDE DEF done
    <3> QED BY <3>1, <3>2, <3>3
  <2>3. named["fields"] = {i \in Positions : Reported(Fields[i].caption)}
        /\ named["filters"] = {i \in DOMAIN filters : Reported(filters[i])}
    OBVIOUS
  <2> HIDE DEF named, done
  <2> QED BY <2>2, <2>3
<1>6. NamesOK(args) => ~bad /\ done = {}
  <2> SUFFICES ASSUME NamesOK(args) PROVE ~bad /\ done = {}
    OBVIOUS
  <2>1. \A i \in Positions : Fields[i].caption \in Queryable /\ Fields[i].caption \in Names
    BY <1>2, <1>3 DEF NamesOK, Positions
  <2>2. \A i \in DOMAIN filters : filters[i] \in Queryable /\ filters[i] \in Names
    BY <1>4 DEF NamesOK
  <2>3. ~bad /\ (\A i \in Positions : ~Reported(Fields[i].caption)) /\ \A i \in DOMAIN filters : ~Reported(filters[i])
    BY <2>1, <2>2, MappedRight
  <2> HIDE DEF done, bad
  <2> QED BY <1>5, <2>3
<1>7. CASE bad /\ Reject
  BY <1>1, <1>2, <1>6, <1>7, RejectInv
<1>8. CASE ~bad /\ Repairs(new, done, "detail")
  <2>1. f \in Seq(FieldType) /\ DOMAIN f = Positions
    <3>1. Positions = 1..Len(Fields) /\ Len(Fields) \in Nat
      BY <1>2 DEF Positions
    <3>2. \A i \in Positions : f[i] \in FieldType
      BY <1>3, <1>8
    <3> QED BY <3>1, <3>2
  <2>2. g \in Seq(Names) /\ DOMAIN g = DOMAIN filters /\ Len(g) = Len(filters)
    <3>1. \A i \in DOMAIN filters : g[i] \in Names
      BY <1>4, <1>8, NamesAssumption
    <3>2. DOMAIN filters = 1..Len(filters) /\ Len(filters) \in Nat
      BY <1>2
    <3>3. g = [i \in 1..Len(filters) |-> Mapped(filters[i])]
      BY <3>2, Zenon
    <3>4. DOMAIN g = 1..Len(filters) /\ g \in [1..Len(filters) -> Names]
      BY <3>1, <3>2, <3>3
    <3> HIDE DEF g
    <3> QED BY <3>2, <3>4
  <2>3. /\ new \in ArgumentsType /\ new.query.fields = f /\ new.query.filters = g
        /\ new.query.limit = args.query.limit /\ new.query.order = args.query.order
        /\ new.limit = args.limit /\ new.foreign = args.foreign /\ new.timeout = args.timeout
        /\ f = args.query.fields /\ g = args.query.filters => new = args
    <3> HIDE DEF f, g
    <3> QED BY <1>2, <2>1, <2>2 DEF ArgumentsType, QueryType
  <2>4. done = {} => new = args
    <3> SUFFICES ASSUME done = {} PROVE new = args
      OBVIOUS
    <3>1. \A i \in Positions : f[i] = Fields[i]
      BY <1>3, <1>5
    <3>2. \A i \in DOMAIN filters : g[i] = filters[i]
      BY <1>4, <1>5
    <3>3. Fields = [i \in Positions |-> Fields[i]] /\ filters = [i \in DOMAIN filters |-> filters[i]]
      BY <1>2 DEF Positions
    <3>4. f = Fields /\ g = filters
      BY <3>1, <3>2, <3>3
    <3> HIDE DEF f, g, new
    <3> QED BY <1>2, <2>3, <3>4
  <2>5. done # {} /\ args = asked => ~Repaired(asked)
    BY <1>6 DEF Repaired
  <2>6. args' = new /\ stage' = "detail" /\ Fields' = f
    BY <1>8, <2>3 DEF Repairs, Fields
  <2>7. ASSUME pass = 1 PROVE PassedSo' /\ \A i \in Positions : FieldSo(i)'
    <3>1. PassedSo /\ \A i \in Positions : FieldSo(i)
      BY <1>2, <2>7
    <3>2. WordsOK(new) /\ ShapesOK(new) /\ NamesOK(new)
      <4>1. \A i \in Positions : WordOK(Fields[i].function) /\ WordOK(Fields[i].agg)
        BY <1>1, <1>2, <3>1 DEF PassedSo, WordsOK, Early, Positions
      <4>2. \A i \in Positions : WordOK(f[i].function) /\ WordOK(f[i].agg) /\ ShapeOK(f[i]) /\ f[i].caption \in Queryable
        BY <1>3, <1>8, <4>1, NamesAssumption DEF ShapeOK
      <4>3. \A i \in DOMAIN filters : g[i] \in Queryable
        BY <1>4, <1>8
      <4> HIDE DEF f, g, new
      <4> QED BY <2>1, <2>2, <2>3, <4>2, <4>3 DEF WordsOK, ShapesOK, NamesOK
    <3>3. PassedSo'
      <4> HIDE DEF new
      <4> QED BY <1>1, <2>3, <2>6, <3>1, <3>2 DEF PassedSo, SafeOK, LimitOK, TimeoutOK, WordsOK, SortOK, ShapesOK,
                 NamesOK, Early, Middle, Late, WordOK, ShapeOK
    <3>4. ASSUME NEW i \in Positions PROVE FieldSo(i)'
      <4>1. /\ Fields[i].caption = AskedName(i) /\ CalcOK(Fields[i], AskedName(i))
            /\ \/ Fields[i].function = Spelt(Asked(i).function)
               \/ Asked(i).function = None /\ Fields[i].function = Spelt(Asked(i).agg)
               \/ Fields[i].function = None /\ IsAggregateCalc(Fields[i].caption)
        BY <1>1, <3>1 DEF FieldSo
      <4>2. Fields[i].function = None /\ IsAggregateCalc(Fields[i].caption) => Mapped(Fields[i].caption) \in AggregateCalcs
        BY <1>3, MappedRight
      <4>3. Fields'[i].caption = Mapped(AskedName(i)) /\ Fields'[i].function = Fields[i].function
        BY <1>3, <2>6, <4>1
      <4>4. Asked(i)' = Asked(i) /\ AskedName(i)' = AskedName(i) /\ Mapped(AskedName(i))' = Mapped(AskedName(i))
            /\ (IsAggregateCalc(AskedName(i))' <=> IsAggregateCalc(AskedName(i)))
            /\ Mapped(Asked(i).caption)' = Mapped(Asked(i).caption) /\ Mapped(Asked(i).alias)' = Mapped(Asked(i).alias)
        BY <1>1 DEF Asked, AskedName, Mapped, SynonymOf, IsAggregateCalc
      <4> HIDE DEF f
      <4>5. SameField(i)'
        BY <4>1, <4>2, <4>3, <4>4 DEF SameField, AskedName
      <4>6. CalcOK(Fields[i], AskedName(i))'
        BY <4>1, <4>3, <4>4 DEF CalcOK
      <4> QED BY <2>6, <4>5, <4>6 DEF FieldSo, Early, Middle, Late
    <3> QED BY <3>3, <3>4
  <2>8. pass = 2 => done = {}
    BY <1>2, <1>6
  <2>9. DOMAIN new.query.fields = DOMAIN args.query.fields /\ Len(new.query.filters) = Len(args.query.filters)
    BY <2>1, <2>2, <2>3 DEF Positions, Fields
  <2> HIDE DEF new, done, f, g, bad, filters
  <2> QED BY <1>1, <1>8, <2>3, <2>4, <2>5, <2>7, <2>8, <2>9, PassInv
<1> QED BY <1>1, <1>7, <1>8

LEMMA SchemaInv ==
  ASSUME GuardInv, Schema
  PROVE  GuardInv'
<1> DEFINE v == IF repairs = {} THEN "allow" ELSE "repair"
<1>1. stage = "schema"
  BY DEF Schema
<1>2. pass \in {1, 2} /\ args \in ArgumentsType /\ (pass = 2 => Clean(args))
      /\ (pass = 1 => PassedSo /\ \A i \in Positions : FieldSo(i))
  BY <1>1, AtStage
<1>3. CASE ~SchemaOK(args)
  <2>1. Reject
    BY <1>3 DEF Schema, SchemaOK
  <2>2. pass = 1
    BY <1>2, <1>3 DEF Clean
  <2> QED BY <1>1, <2>1, <2>2, RejectInv
<1>4. CASE SchemaOK(args)
  <2>1. /\ stage' = "over" /\ verdicts' = Append(verdicts, v)
        /\ UNCHANGED <<informed, asked, args, repairs, pass>>
    BY <1>4 DEF Schema, SchemaOK
  <2>2. verdicts \in Seq(Decisions) /\ Len(verdicts) = pass - 1 /\ v \in Decisions /\ v # "reject"
    BY <1>1 DEF GuardInv, Typed, GuardTypeOK, Decisions
  <2>3. verdicts' \in Seq(Decisions) /\ Len(verdicts') = pass /\ verdicts'[pass] = v
    BY <1>2, <2>1, <2>2
  <2>4. Typed'
    BY <2>1, <2>3 DEF GuardInv, Typed, GuardTypeOK, Decisions, Positions, Fields
  <2>5. Recorded'
    BY <2>1, <2>3 DEF GuardInv, Recorded, Repaired, LimitOK, TimeoutOK,
       WordsOK, SortOK, ShapesOK, NamesOK, CalcOK, Asked, IsAggregateCalc
  <2>6. FirstPass'
    <3> SUFFICES ASSUME pass = 1 PROVE PassedSo' /\ \A i \in Positions : FieldSo(i)'
      BY <2>1 DEF FirstPass, Positions, Fields
    <3>1. \A i \in Positions : FieldSo(i)'
      BY <1>1, <1>2, <2>1, FieldKept DEF Early, Middle, Late, Fields
    <3>2. PassedSo'
      BY <1>1, <1>2, <1>4, <2>1 DEF PassedSo, SafeOK, LimitOK, TimeoutOK, WordsOK, SortOK, ShapesOK, NamesOK,
         DetailOK, WidthOK, DirectionOK, SchemaOK, AsText, Early, Middle, Late
    <3> QED BY <3>1, <3>2
  <2>7. SecondPass'
    <3> SUFFICES ASSUME pass = 2 PROVE SecondPass'
      BY <2>1 DEF SecondPass
    <3>1. Clean(args)'
      BY <1>2, <2>1 DEF Clean, Repaired, SafeOK, LimitOK, TimeoutOK, WordsOK, SortOK, ShapesOK, NamesOK,
         DetailOK, WidthOK, DirectionOK, SchemaOK, AsText
    <3> QED BY <2>1, <2>2, <2>3, <3>1 DEF GuardInv, SecondPass, Alive
  <2> QED BY <2>4, <2>5, <2>6, <2>7 DEF GuardInv
<1> QED BY <1>3, <1>4

\* What a first pass let through is clean.
LEMMA PassedIsRepaired ==
  ASSUME GuardInv, stage = "over", Alive
  PROVE  /\ SafeOK(args) /\ Repaired(args) /\ DetailOK(args) /\ WidthOK(args) /\ DirectionOK(args) /\ SchemaOK(args)
         /\ pass = 1 => \A i \in Positions : SameField(i) /\ CalcOK(Fields[i], AskedName(i))
<1>1. pass \in {1, 2}
  BY DEF GuardInv, Typed, GuardTypeOK
<1>2. CASE pass = 1
  <2>1. PassedSo /\ \A i \in Positions : FieldSo(i)
    BY <1>2 DEF GuardInv, FirstPass
  <2> QED BY <2>1 DEF PassedSo, FieldSo, Repaired, Early, Middle, Late
<1>3. CASE pass = 2
  BY <1>3 DEF GuardInv, SecondPass, Clean
<1> QED BY <1>1, <1>2, <1>3

LEMMA GuardAgainInv ==
  ASSUME GuardInv, GuardAgain
  PROVE  GuardInv'
<1>1. /\ stage = "over" /\ pass = 1 /\ Alive /\ ~informed
      /\ asked' = args /\ repairs' = {} /\ stage' = "unsafe" /\ pass' = 2
      /\ UNCHANGED <<informed, args, verdicts>>
  BY DEF GuardAgain, Alive
<1>2. Clean(args)
  BY <1>1, PassedIsRepaired DEF Clean
<1>3. Typed'
  BY <1>1 DEF GuardInv, Typed, GuardTypeOK, Positions, Fields
<1>4. Recorded' /\ FirstPass'
  BY <1>1 DEF Recorded, FirstPass
<1>5. Clean(args)'
  BY <1>1, <1>2 DEF Clean, Repaired, SafeOK, LimitOK, TimeoutOK, WordsOK, SortOK, ShapesOK, NamesOK,
     DetailOK, WidthOK, DirectionOK, SchemaOK, AsText
<1>6. SecondPass'
  BY <1>1, <1>5 DEF SecondPass, Alive
<1> QED BY <1>3, <1>4, <1>6 DEF GuardInv
-----------------------------------------------------------------------------
LEMMA GuardInitInv == GuardInit => GuardInv
<1> SUFFICES ASSUME GuardInit PROVE GuardInv
  OBVIOUS
<1>1. args \in ArgumentsType /\ asked = args /\ repairs = {} /\ stage = "unsafe" /\ pass = 1 /\ verdicts = <<>>
      /\ informed \in BOOLEAN
  BY ArgumentsAssumption DEF GuardInit
<1>2. Typed
  BY <1>1 DEF Typed, GuardTypeOK, Positions, Fields
<1>3. Recorded /\ SecondPass
  BY <1>1 DEF Recorded, SecondPass
<1>4. FirstPass
  BY <1>1 DEF FirstPass, PassedSo, FieldSo, Early, Middle, Late, Asked, Fields
<1> QED BY <1>2, <1>3, <1>4 DEF GuardInv

LEMMA GuardNextInv == GuardInv /\ [GuardNext]_guardVars => GuardInv'
<1> SUFFICES ASSUME GuardInv, [GuardNext]_guardVars PROVE GuardInv'
  OBVIOUS
<1>1. CASE GuardNext
  BY <1>1, UnsafeInv, LimitInv, TimeoutInv, AggregationsInv, FilterSortInv, ShapesInv, FieldNamesInv, DetailInv,
     WidthInv, DirectionInv, SchemaInv, GuardAgainInv DEF GuardNext
<1>2. CASE UNCHANGED guardVars
  <2>1. UNCHANGED <<informed, asked, args, repairs, stage, pass, verdicts>> /\ Fields' = Fields
    BY <1>2 DEF guardVars, Fields
  <2>2. Typed' /\ Positions' = Positions
    BY <2>1 DEF GuardInv, Typed, GuardTypeOK, Positions
  <2>3. Recorded'
    BY <2>1 DEF GuardInv, Recorded, Repaired, LimitOK, TimeoutOK, Alive,
       WordsOK, SortOK, ShapesOK, NamesOK, CalcOK, Asked, IsAggregateCalc
  <2>4. FirstPass'
    <3> SUFFICES ASSUME pass = 1, Alive PROVE PassedSo' /\ \A i \in Positions : FieldSo(i)'
      BY <2>1, <2>2 DEF FirstPass, Alive
    <3>1. PassedSo /\ \A i \in Positions : FieldSo(i)
      BY DEF GuardInv, FirstPass
    <3>2. \A i \in Positions : FieldSo(i)'
      BY <2>1, <3>1, FieldKept
    <3>3. PassedSo'
      BY <2>1, <3>1 DEF PassedSo, SafeOK, LimitOK, TimeoutOK, WordsOK, SortOK, ShapesOK, NamesOK,
         DetailOK, WidthOK, DirectionOK, SchemaOK, AsText
    <3> QED BY <3>2, <3>3
  <2>5. SecondPass'
    BY <2>1 DEF GuardInv, SecondPass, Alive, Clean, Repaired, SafeOK, LimitOK, TimeoutOK, WordsOK, SortOK, ShapesOK,
       NamesOK, DetailOK, WidthOK, DirectionOK, SchemaOK, AsText
  <2> QED BY <2>2, <2>3, <2>4, <2>5 DEF GuardInv
<1> QED BY <1>1, <1>2

LEMMA GuardInvariance == GuardSpec => []GuardInv
BY GuardInitInv, GuardNextInv, PTL DEF GuardSpec

LEMMA PassedAlive ==
  ASSUME GuardInv
  PROVE  /\ Len(verdicts) = IF stage = "over" THEN pass ELSE pass - 1
         /\ Passed <=> stage = "over" /\ Alive
BY DEF GuardInv, Typed, GuardTypeOK, Passed, Alive

\* Whatever is sent in whatever spelling, what runs names queryable fields and known
\* aggregations and stays within the limits, after one guard or two (validate_mcp_args).
THEOREM GuardSafe == GuardSpec => []ExecutesSafely
<1>1. GuardInv => ExecutesSafely
  <2> SUFFICES ASSUME GuardInv, Passed PROVE ExecutesKnownFields /\ ExecutesWithinBounds
    BY DEF ExecutesSafely, ExecutesKnownFields, ExecutesWithinBounds, GuardInv, Typed
  <2>1. Repaired(args) /\ args \in ArgumentsType /\ MaxLimit \in Nat /\ MaxTimeout \in Nat
    BY PassedAlive, PassedIsRepaired, BoundsAssumption DEF GuardInv, Typed
  <2>2. ExecutesKnownFields
    BY <2>1 DEF ExecutesKnownFields, Repaired, NamesOK, WordsOK, WordOK, Positions, Fields
  <2>3. ExecutesWithinBounds
    BY <2>1 DEF ExecutesWithinBounds, Repaired, LimitOK, TimeoutOK
  <2> QED BY <2>2, <2>3
<1> QED BY <1>1, GuardInvariance, PTL

\* What runs has the fields that were asked for, each with the aggregation it was given,
\* which is only taken off a formula that aggregates.
THEOREM GuardAddsNothing == GuardSpec => []AddsNothing
<1>1. GuardInv => AddsNothing
  <2> SUFFICES ASSUME GuardInv, Passed PROVE AddsNothing
    BY DEF AddsNothing
  <2>1. /\ stage = "over" /\ Alive /\ Repaired(args) /\ pass \in {1, 2} /\ Positions = DOMAIN asked.query.fields
        /\ args \in ArgumentsType /\ asked \in ArgumentsType /\ Len(args.query.filters) = Len(asked.query.filters)
    BY PassedAlive, PassedIsRepaired DEF GuardInv, Typed, GuardTypeOK
  <2>2. Len(Fields) = Len(asked.query.fields)
    <3>1. Fields \in Seq(FieldType) /\ asked.query.fields \in Seq(FieldType)
      BY <2>1, TypeParts DEF Fields
    <3> QED BY <2>1, <3>1 DEF Positions
  <2>3. ASSUME NEW i \in Positions PROVE SameField(i)
    <3>1. CASE pass = 1
      BY <2>1, <3>1, PassedIsRepaired
    <3>2. CASE pass = 2
      <4>1. Fields[i] = Asked(i) /\ Fields[i].caption \in Queryable /\ Fields[i].caption \in Names
            /\ Fields[i].caption # None /\ WordOK(Fields[i].function)
        BY <2>1, <3>2, NamesAssumption DEF GuardInv, SecondPass, Repaired, NamesOK, WordsOK, Fields, Positions, Asked
      <4>2. Fields[i].function \in Words \cup {None}
        <5>1. Fields \in Seq(FieldType)
          BY <2>1, TypeParts DEF Fields
        <5>2. Fields[i] \in FieldType
          BY <5>1 DEF Positions
        <5> QED BY <5>2 DEF FieldType
      <4>3. Mapped(Fields[i].caption) = Fields[i].caption /\ Spelt(Fields[i].function) = Fields[i].function
        BY <4>1, <4>2, MappedRight, SpeltRight
      <4> QED BY <4>1, <4>3 DEF SameField
    <3> QED BY <2>1, <3>1, <3>2
  <2> QED BY <2>1, <2>2, <2>3 DEF AddsNothing
<1> QED BY <1>1, GuardInvariance, PTL

\* The second guard allows what the first let through, and a call is only called allowed
\* when nothing of it was changed.
THEOREM GuardsAlwaysAgree == GuardSpec => []GuardsAgree
<1>1. GuardInv => GuardsAgree
  <2> SUFFICES ASSUME GuardInv PROVE GuardsAgree
    OBVIOUS
  <2>1. pass = 2 /\ stage = "over" => verdicts[2] = "allow"
    BY DEF GuardInv, SecondPass, Recorded
  <2>2. AllowMeansUnchanged
    <3> SUFFICES ASSUME Passed PROVE verdicts[Len(verdicts)] = "allow" <=> args = asked
      BY DEF AllowMeansUnchanged
    <3>1. /\ stage = "over" /\ Alive /\ Repaired(args) /\ pass \in {1, 2} /\ Len(verdicts) = pass
          /\ verdicts[pass] = IF repairs = {} THEN "allow" ELSE "repair"
          /\ Positions = DOMAIN asked.query.fields
      BY PassedAlive, PassedIsRepaired DEF GuardInv, Recorded, Typed, GuardTypeOK
    <3>2. repairs = {} => args = asked
      BY DEF GuardInv, Recorded
    <3>3. ASSUME args = asked, repairs # {} PROVE FALSE
      <4>1. pass = 1
        BY <3>1, <3>3 DEF GuardInv, SecondPass
      <4>2. PICK i \in DOMAIN asked.query.fields : ~CalcOK(Asked(i), Asked(i).caption)
        BY <3>1, <3>3 DEF GuardInv, Recorded
      <4>3. CalcOK(Fields[i], AskedName(i)) /\ ShapeOK(Fields[i]) /\ Fields[i] = Asked(i)
        BY <3>1, <3>3, <4>1, <4>2, PassedIsRepaired DEF Repaired, ShapesOK, Fields, Positions, Asked
      <4> QED BY <4>2, <4>3 DEF ShapeOK, AskedName
    <3> QED BY <3>1, <3>2, <3>3
  <2> QED BY <2>1, <2>2 DEF GuardsAgree
<1> QED BY <1>1, GuardInvariance, PTL
=============================================================================

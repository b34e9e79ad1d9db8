--------------------------- MODULE TaskRun_proofs ---------------------------
(***************************************************************************)
(* Theorems about TaskRun, for any set of callers and any retry limit.     *)
(***************************************************************************)
EXTENDS TaskRun, TLAPS

USE DEF Status, Terminal, Steps, Ops, Results

LEMMA Tables ==
    /\ ValidTransitions \in [Status -> SUBSET Status]
    /\ Target \in [Steps -> Status]
    /\ ExpectedFrom \in [Steps -> SUBSET Status]
BY DEF ValidTransitions, Target, ExpectedFrom

LEMMA NoCallType == NoCall \in Calls
BY RetriesAssumption DEF NoCall, Calls

LEMMA EndedType ==
    ASSUME TypeOK, NEW c \in Callers, NEW r \in Results
    PROVE  Ended(c, r) \in Calls
<1>1. call[c] \in Calls
  BY DEF TypeOK
<1>2. /\ call[c].op \in Ops \cup {"none"} /\ call[c].step \in Steps \cup {"none"}
      /\ call[c].late \in BOOLEAN
  BY <1>1 DEF Calls
<1>3. QED
  BY <1>2, NoCallType DEF Ended, Calls

LEMMA AfterErrorType ==
    ASSUME TypeOK, NEW c \in Callers
    PROVE  AfterError(c) \in Calls
<1>1. call[c] \in Calls
  BY DEF TypeOK
<1>2. /\ call[c].op \in Ops \cup {"none"} /\ call[c].step \in Steps \cup {"none"}
      /\ call[c].attempt \in 1..MaxRetries /\ call[c].late \in BOOLEAN
  BY <1>1 DEF Calls
<1>3. CASE call[c].attempt < MaxRetries
  <2>1. call[c].attempt + 1 \in 1..MaxRetries
    BY <1>2, <1>3, RetriesAssumption
  <2>2. QED
    BY <1>2, <1>3, <2>1, NoCallType DEF AfterError, Calls
<1>4. CASE ~(call[c].attempt < MaxRetries)
  BY <1>4, EndedType DEF AfterError
<1>5. QED
  BY <1>3, <1>4

-----------------------------------------------------------------------------
(***************************************************************************)
(* Which transition a caller is at follows from what it asked for; and a   *)
(* caller about to commit is at one the table allowed for the status it    *)
(* read, a status the row has had.                                         *)
(***************************************************************************)
StepMatches(c) ==
    call[c].pc \in {"read", "commit"} =>
        IF call[c].op = "cancel"
        THEN call[c].step \in {"none", "to_cancelling", "cancel_queued"}
        ELSE call[c].step = call[c].op

CommitReady(c) ==
    call[c].pc = "commit" =>
        /\ call[c].step \in Steps
        /\ call[c].seen \in ExpectedFrom[call[c].step]
        /\ Target[call[c].step] \in ValidTransitions[call[c].seen]
        /\ call[c].seen \in written

History ==
    /\ WrittenHasLegalHistory
    /\ OutcomeRecorded
    /\ status \in written /\ written \in SUBSET Status

IInv == /\ TypeOK
        /\ \A c \in Callers : StepMatches(c) /\ CommitReady(c)
        /\ History

(***************************************************************************)
(* The three ways a caller's record changes, and what they keep.           *)
(***************************************************************************)
LEMMA CallSplit ==
    ASSUME TypeOK, NEW c \in Callers
    PROVE  /\ call[c] \in Calls
           /\ call[c].pc \in {"idle", "read", "commit", "done"}
           /\ call[c].op \in Ops \cup {"none"}
           /\ call[c].step \in Steps \cup {"none"}
           /\ call[c].seen \in Status
BY DEF TypeOK, Calls

LEMMA AttemptKeeps ==
    ASSUME IInv, NEW c \in Callers, NEW step \in Steps, Attempt(c, step),
           call[c].pc = "read",
           IF call[c].op = "cancel" THEN step \in {"to_cancelling", "cancel_queued"}
                                    ELSE step = call[c].op,
           UNCHANGED <<rowVars, written, started>>
    PROVE  IInv'
<1> USE CallSplit DEF IInv
<1>1. CASE Return(c, "unexpected") \/ Return(c, "illegal")
  <2>1. PICK r \in {"unexpected", "illegal"} : Return(c, r)
    BY <1>1
  <2>2. call' = [call EXCEPT ![c] = Ended(c, r)]
    BY <2>1 DEF Return
  <2>3. Ended(c, r) \in Calls /\ Ended(c, r).pc = "done"
    BY EndedType DEF Ended, NoCall
  <2>4. TypeOK'
    BY <2>2, <2>3 DEF TypeOK, rowVars
  <2>5. ASSUME NEW d \in Callers PROVE StepMatches(d)' /\ CommitReady(d)'
    BY <2>2, <2>3 DEF TypeOK, StepMatches, CommitReady
  <2>6. History'
    BY DEF History, OutcomeRecorded, WrittenHasLegalHistory, rowVars
  <2>7. QED
    BY <2>4, <2>5, <2>6
<1>2. CASE /\ status \in ExpectedFrom[step] /\ CanTransition(status, Target[step])
           /\ call' = [call EXCEPT ![c] = Checked(c, step)]
  <2> DEFINE next == Checked(c, step)
  <2>0. /\ next.pc = "commit" /\ next.step = step /\ next.seen = status
        /\ next.op = call[c].op /\ next \in Calls
    BY DEF TypeOK, Calls, Checked
  <2> HIDE DEF next
  <2>1. /\ call'[c] = next /\ call' \in [Callers -> Calls]
        /\ \A d \in Callers : d # c => call'[d] = call[d]
    BY <1>2, <2>0 DEF TypeOK, next
  <2>2. TypeOK'
    BY <2>1 DEF TypeOK, rowVars
  <2>3. ASSUME NEW d \in Callers PROVE StepMatches(d)' /\ CommitReady(d)'
    <3>1. CASE d = c
      BY <1>2, <2>0, <2>1, <3>1 DEF StepMatches, CommitReady, CanTransition, History
    <3>2. CASE d # c
      BY <2>1, <3>2 DEF StepMatches, CommitReady
    <3>3. QED
      BY <3>1, <3>2
  <2>4. History'
    BY DEF History, OutcomeRecorded, WrittenHasLegalHistory, rowVars
  <2>5. QED
    BY <2>2, <2>3, <2>4
<1>3. QED
  BY <1>1, <1>2 DEF Attempt

LEMMA ReturnKeeps ==
    ASSUME IInv, NEW c \in Callers, NEW r \in Results, Return(c, r),
           UNCHANGED <<rowVars, written, started>>
    PROVE  IInv'
<1> USE DEF IInv
<1>1. call' = [call EXCEPT ![c] = Ended(c, r)]
  BY DEF Return
<1>2. Ended(c, r) \in Calls /\ Ended(c, r).pc = "done"
  BY EndedType DEF Ended, NoCall
<1>3. TypeOK'
  BY <1>1, <1>2 DEF TypeOK, rowVars
<1>4. ASSUME NEW d \in Callers PROVE StepMatches(d)' /\ CommitReady(d)'
  BY <1>1, <1>2 DEF TypeOK, StepMatches, CommitReady
<1>5. History'
  BY DEF History, OutcomeRecorded, WrittenHasLegalHistory, rowVars
<1>6. QED
  BY <1>3, <1>4, <1>5

LEMMA AfterErrorFacts ==
    ASSUME IInv, NEW c \in Callers, call[c].pc = "commit"
    PROVE  /\ AfterError(c) \in Calls
           /\ AfterError(c).pc \in {"read", "done"}
           /\ AfterError(c).op = call[c].op
           /\ AfterError(c).step = call[c].step
           /\ AfterError(c).fresh = FALSE
BY AfterErrorType DEF IInv, AfterError, Ended, NoCall

LEMMA ApplyKeeps ==
    ASSUME IInv, NEW c \in Callers, call[c].pc = "commit",
           NEW next \in Calls, next.pc \in {"read", "done"},
           next.op = call[c].op, next.step = call[c].step,
           Apply(c, next), started' \in BOOLEAN
    PROVE  IInv'
<1> DEFINE new == Target[call[c].step]
<1> USE CallSplit, Tables DEF IInv
<1>1. /\ status' = new /\ written' = written \cup {new}
      /\ finished' = (finished \/ StampsFinish(new))
      /\ errored' = (errored \/ call[c].step = "to_failed")
      /\ call' = [d \in Callers |-> IF d = c THEN next
                                    ELSE [call[d] EXCEPT !.fresh = FALSE]]
  BY DEF Apply
<1>2. /\ new \in Status /\ call[c].seen \in written /\ call[c].seen \in Status
      /\ new \in ValidTransitions[call[c].seen]
  BY DEF CommitReady
<1>3. \A d \in Callers : d # c =>
        /\ call'[d] \in Calls
        /\ call'[d].pc = call[d].pc /\ call'[d].op = call[d].op
        /\ call'[d].step = call[d].step /\ call'[d].seen = call[d].seen
  <2> SUFFICES ASSUME NEW d \in Callers, d # c
               PROVE  /\ call'[d] \in Calls
                      /\ call'[d].pc = call[d].pc /\ call'[d].op = call[d].op
                      /\ call'[d].step = call[d].step /\ call'[d].seen = call[d].seen
    OBVIOUS
  <2>1. call'[d] = [call[d] EXCEPT !.fresh = FALSE]
    BY ONLY <1>1, d \in Callers, d # c
  <2>2. call[d] \in Calls
    BY ONLY TypeOK, d \in Callers DEF TypeOK
  <2>3. QED
    BY ONLY <2>1, <2>2 DEF Calls
<1>4. call'[c] = next
  BY <1>1
<1>5. TypeOK'
  <2>1. call' \in [Callers -> Calls]
    BY <1>1, <1>3, <1>4
  <2>2. status' \in Status /\ written' \in SUBSET Status
    BY <1>1, <1>2 DEF TypeOK
  <2>3. finished' \in BOOLEAN /\ errored' \in BOOLEAN
    BY <1>1 DEF TypeOK
  <2>4. QED
    BY <2>1, <2>2, <2>3 DEF TypeOK
<1>6. ASSUME NEW d \in Callers PROVE StepMatches(d)' /\ CommitReady(d)'
  <2>1. CASE d = c
    BY <1>4, <2>1 DEF StepMatches, CommitReady
  <2>2. CASE d # c
    BY <1>1, <1>3, <2>2 DEF StepMatches, CommitReady
  <2>3. QED
    BY <2>1, <2>2
<1>7. History'
  <2>1. new = "failed" => call[c].step = "to_failed"
    BY DEF Target, CommitReady
  <2>2. OutcomeRecorded'
    BY <1>1, <2>1 DEF OutcomeRecorded, StampsFinish
  <2>3. QED
    BY <1>1, <1>2, <2>2 DEF History, WrittenHasLegalHistory
<1>8. QED
  BY <1>5, <1>6, <1>7

-----------------------------------------------------------------------------
LEMMA InitIInv == Init => IInv
<1> SUFFICES ASSUME Init PROVE IInv
  OBVIOUS
<1>1. TypeOK
  <2>1. call \in [Callers -> Calls]
    BY NoCallType DEF Init
  <2>2. status \in Status /\ written \in SUBSET Status
    BY DEF Init
  <2>3. finished \in BOOLEAN /\ errored \in BOOLEAN /\ started \in BOOLEAN
    BY DEF Init
  <2>4. QED
    BY <2>1, <2>2, <2>3 DEF TypeOK
<1>2. \A c \in Callers : StepMatches(c) /\ CommitReady(c)
  BY DEF Init, NoCall, StepMatches, CommitReady
<1>3. History
  BY DEF Init, History, OutcomeRecorded, WrittenHasLegalHistory
<1>4. QED
  BY <1>1, <1>2, <1>3 DEF IInv

LEMMA InvokeKeeps ==
    ASSUME IInv, NEW c \in Callers, NEW op \in Ops, Invoke(c, op)
    PROVE  IInv'
<1> DEFINE next == [NoCall EXCEPT !.pc = "read", !.op = op,
                                  !.step = IF op = "cancel" THEN "none" ELSE op,
                                  !.late = started /\ op = "to_running"]
<1> USE DEF IInv
<1>1. /\ next \in Calls /\ next.pc = "read" /\ next.op = op
      /\ next.step = IF op = "cancel" THEN "none" ELSE op
  <2>1. (IF op = "cancel" THEN "none" ELSE op) \in Steps \cup {"none"}
    OBVIOUS
  <2>2. (started /\ op = "to_running") \in BOOLEAN
    OBVIOUS
  <2>3. QED
    BY <2>1, <2>2, NoCallType DEF Calls, NoCall
<1> HIDE DEF next
<1>2. /\ call' = [call EXCEPT ![c] = next]
      /\ UNCHANGED <<rowVars, written, started>>
  BY DEF Invoke, next
<1>3. TypeOK'
  BY <1>1, <1>2 DEF TypeOK, rowVars
<1>4. ASSUME NEW d \in Callers PROVE StepMatches(d)' /\ CommitReady(d)'
  BY <1>1, <1>2 DEF TypeOK, StepMatches, CommitReady
<1>5. History'
  BY <1>2 DEF History, OutcomeRecorded, WrittenHasLegalHistory, rowVars
<1>6. QED
  BY <1>3, <1>4, <1>5

LEMMA CancelKeeps ==
    ASSUME IInv, NEW c \in Callers, Cancel(c)
    PROVE  IInv'
<1>1. CASE Return(c, "noop") \/ Return(c, "unexpected")
  BY <1>1, ReturnKeeps DEF Cancel
<1>2. CASE Attempt(c, "cancel_queued")
  BY <1>2, AttemptKeeps DEF Cancel
<1>3. CASE Attempt(c, "to_cancelling")
  BY <1>3, AttemptKeeps DEF Cancel
<1>4. QED
  BY <1>1, <1>2, <1>3 DEF Cancel

LEMMA ReadKeeps ==
    ASSUME IInv, NEW c \in Callers, Read(c)
    PROVE  IInv'
<1>1. call[c].step \in Steps
  BY CallSplit DEF IInv, Read
<1>2. IF call[c].op = "cancel" THEN call[c].step \in {"to_cancelling", "cancel_queued"}
                               ELSE call[c].step = call[c].op
  BY <1>1 DEF IInv, Read, StepMatches
<1>3. QED
  BY <1>1, <1>2, AttemptKeeps DEF Read

LEMMA EndedFacts ==
    ASSUME TypeOK, NEW c \in Callers, NEW r \in Results
    PROVE  /\ Ended(c, r) \in Calls /\ Ended(c, r).pc = "done"
           /\ Ended(c, r).op = call[c].op /\ Ended(c, r).step = call[c].step
BY EndedType DEF Ended, NoCall

LEMMA CommittedKeeps ==
    ASSUME IInv, NEW c \in Callers, Committed(c)
    PROVE  IInv'
<1>1. started' \in BOOLEAN
  BY DEF Committed, IInv, TypeOK
<1>2. QED
  BY <1>1, EndedFacts, ApplyKeeps DEF Committed, IInv

LEMMA CommitFailedKeeps ==
    ASSUME IInv, NEW c \in Callers, CommitFailed(c)
    PROVE  IInv'
<1> DEFINE next == AfterError(c)
<1>1. /\ next \in Calls /\ next.pc \in {"read", "done"}
      /\ next.op = call[c].op /\ next.step = call[c].step
  BY AfterErrorFacts DEF CommitFailed
<1> HIDE DEF next
<1>2. /\ call' = [call EXCEPT ![c] = next] /\ call[c].pc = "commit"
      /\ UNCHANGED <<rowVars, written, started>>
  BY DEF CommitFailed, next
<1>3. TypeOK'
  BY <1>1, <1>2 DEF IInv, TypeOK, rowVars
<1>4. ASSUME NEW d \in Callers PROVE StepMatches(d)' /\ CommitReady(d)'
  BY <1>1, <1>2 DEF IInv, TypeOK, StepMatches, CommitReady
<1>5. History'
  BY <1>2 DEF IInv, History, OutcomeRecorded, WrittenHasLegalHistory, rowVars
<1>6. QED
  BY <1>3, <1>4, <1>5 DEF IInv

LEMMA AckLostKeeps ==
    ASSUME IInv, NEW c \in Callers, CommitAckLost(c)
    PROVE  IInv'
BY AfterErrorFacts, ApplyKeeps DEF CommitAckLost, IInv, TypeOK

LEMMA StepKeeps ==
    ASSUME IInv, [Next]_vars
    PROVE  IInv'
<1>1. ASSUME NEW c \in Callers, NEW op \in Ops, Invoke(c, op) PROVE IInv'
  BY <1>1, InvokeKeeps
<1>2. ASSUME NEW c \in Callers, Step(c) PROVE IInv'
  BY <1>2, ReadKeeps, CancelKeeps, CommittedKeeps, CommitFailedKeeps, AckLostKeeps
     DEF Step
<1>3. CASE UNCHANGED vars
  <2>1. TypeOK'
    BY <1>3 DEF vars, rowVars, IInv, TypeOK
  <2>2. \A c \in Callers : (StepMatches(c) /\ CommitReady(c))'
    BY <1>3 DEF vars, rowVars, IInv, StepMatches, CommitReady
  <2>3. History'
    BY <1>3 DEF vars, rowVars, IInv, History, OutcomeRecorded, WrittenHasLegalHistory
  <2>4. QED
    BY <2>1, <2>2, <2>3 DEF IInv
<1>4. QED
  BY <1>1, <1>2, <1>3 DEF Next

LEMMA Inductive == Spec => []IInv
BY InitIInv, StepKeeps, PTL DEF Spec

(***************************************************************************)
(* The row and every caller's record keep their types.                     *)
(***************************************************************************)
THEOREM TypeCorrect == Spec => []TypeOK
<1>1. IInv => TypeOK
  BY DEF IInv
<1>2. QED
  BY <1>1, Inductive, PTL

(***************************************************************************)
(* With any number of callers and retries, a status is written only after  *)
(* one that the table lets it follow: stale writers of transition          *)
(* (service.py:112-163) cannot invent a history.                           *)
(***************************************************************************)
THEOREM LegalHistory == Spec => []WrittenHasLegalHistory
<1>1. IInv => WrittenHasLegalHistory
  BY DEF IInv, History
<1>2. QED
  BY <1>1, Inductive, PTL

(***************************************************************************)
(* A terminal status comes with finished_at, and "failed" with an error    *)
(* code (service.py:138-148).                                              *)
(***************************************************************************)
THEOREM OutcomeKept == Spec => []OutcomeRecorded
<1>1. IInv => OutcomeRecorded
  BY DEF IInv, History
<1>2. QED
  BY <1>1, Inductive, PTL

(***************************************************************************)
(* Stale writers cannot break the history of a row or the stamps of its    *)
(* end (service.py:112-163).                                               *)
(***************************************************************************)
THEOREM RowSound == Spec => []RowIsSound
<1>1. WrittenHasLegalHistory /\ OutcomeRecorded => RowIsSound
  BY DEF RowIsSound
<1>2. QED
  BY <1>1, LegalHistory, OutcomeKept, PTL

-----------------------------------------------------------------------------
(***************************************************************************)
(* What a reader of the row can still rely on when nothing refuses a stale *)
(* commit.  A caller that nobody has overtaken has seen the status that is *)
(* in the row; and once somebody was told that it started the run the row  *)
(* is never "queued" again, so a later start never passes its checks.      *)
(***************************************************************************)
Snapshot == \A c \in Callers :
    (call[c].pc = "commit" /\ call[c].fresh) => call[c].seen = status

Late(c) == call[c].late =>
    /\ started /\ call[c].op = "to_running"
    /\ call[c].pc # "commit" /\ call[c].result # "ok"

Starts == (started => status # "queued") /\ \A c \in Callers : Late(c)

SInv == IInv /\ Snapshot /\ Starts

LEMMA NeverQueuedAgain == \A step \in Steps : Target[step] # "queued"
BY DEF Target

(***************************************************************************)
(* One caller's record changes and the row does not.                       *)
(***************************************************************************)
LEMMA QuietStarts ==
    ASSUME SInv, NEW c \in Callers, NEW next, next \in Calls,
           call' = [call EXCEPT ![c] = next],
           UNCHANGED <<rowVars, written, started>>,
           (next.pc = "commit" /\ next.fresh) => next.seen = status,
           next.late => /\ started /\ next.op = "to_running"
                        /\ next.pc # "commit" /\ next.result # "ok"
    PROVE  Snapshot' /\ Starts'
<1>1. /\ call'[c] = next /\ status' = status /\ started' = started
      /\ \A d \in Callers : d # c => call'[d] = call[d]
  BY DEF SInv, IInv, TypeOK, rowVars
<1>2. Snapshot'
  BY <1>1 DEF SInv, Snapshot
<1>3. ASSUME NEW d \in Callers PROVE Late(d)'
  BY <1>1 DEF SInv, Starts, Late
<1>4. QED
  BY <1>1, <1>2, <1>3 DEF SInv, Starts

LEMMA AttemptStarts ==
    ASSUME SInv, NEW c \in Callers, NEW step \in Steps, Attempt(c, step),
           call[c].pc = "read", call[c].late => step = "to_running",
           UNCHANGED <<rowVars, written, started>>
    PROVE  Snapshot' /\ Starts'
<1>0. TypeOK /\ Late(c) /\ (started => status # "queued")
  BY DEF SInv, IInv, Starts
<1>1. CASE Return(c, "unexpected") \/ Return(c, "illegal")
  <2>1. PICK r \in {"unexpected", "illegal"} : call' = [call EXCEPT ![c] = Ended(c, r)]
    BY <1>1 DEF Return
  <2>2. /\ Ended(c, r) \in Calls /\ Ended(c, r).pc = "done"
        /\ Ended(c, r).op = call[c].op /\ Ended(c, r).late = call[c].late
        /\ Ended(c, r).result = r
    BY <1>0, EndedType DEF Ended, NoCall
  <2>3. QED
    BY <1>0, <2>1, <2>2, QuietStarts DEF Late
<1>2. CASE /\ status \in ExpectedFrom[step]
           /\ call' = [call EXCEPT ![c] = Checked(c, step)]
  <2>1. /\ Checked(c, step) \in Calls /\ Checked(c, step).seen = status
        /\ Checked(c, step).late = call[c].late
    BY <1>0, CallSplit DEF Checked, Calls, TypeOK
  <2>2. ~call[c].late
    BY <1>0, <1>2 DEF Late, ExpectedFrom
  <2>3. QED
    BY <1>2, <2>1, <2>2, QuietStarts
<1>3. QED
  BY <1>1, <1>2 DEF Attempt

LEMMA ReturnStarts ==
    ASSUME SInv, NEW c \in Callers, NEW r \in Results \ {"ok"}, Return(c, r),
           UNCHANGED <<rowVars, written, started>>
    PROVE  Snapshot' /\ Starts'
<1>1. /\ Ended(c, r) \in Calls /\ Ended(c, r).pc = "done"
      /\ Ended(c, r).op = call[c].op /\ Ended(c, r).late = call[c].late
      /\ Ended(c, r).result = r
  BY EndedType DEF Ended, NoCall, SInv, IInv
<1>2. QED
  BY <1>1, QuietStarts DEF Return, SInv, Starts, Late

(***************************************************************************)
(* A commit that takes effect leaves nobody else with a fresh read.        *)
(***************************************************************************)
LEMMA ApplyStarts ==
    ASSUME SInv, NEW c \in Callers, call[c].pc = "commit",
           NEW next \in Calls, next.pc \in {"read", "done"}, ~next.late,
           Apply(c, next), started => started'
    PROVE  Snapshot' /\ Starts'
<1>0. call[c].step \in Steps
  BY DEF SInv, IInv, CommitReady
<1>1. status' = Target[call[c].step] /\ status' # "queued"
  BY <1>0, NeverQueuedAgain DEF Apply
<1>2. call'[c] = next
  BY DEF Apply
<1>3. ASSUME NEW d \in Callers, d # c
      PROVE  /\ call'[d].fresh = FALSE /\ call'[d].late = call[d].late
             /\ call'[d].op = call[d].op /\ call'[d].pc = call[d].pc
             /\ call'[d].result = call[d].result
  <2>1. call'[d] = [call[d] EXCEPT !.fresh = FALSE] /\ call[d] \in Calls
    BY <1>3 DEF Apply, SInv, IInv, TypeOK
  <2>2. QED
    BY <2>1 DEF Calls
<1>4. Snapshot'
  BY <1>2, <1>3 DEF Snapshot
<1>5. ASSUME NEW d \in Callers PROVE Late(d)'
  BY <1>2, <1>3 DEF SInv, Starts, Late
<1>6. QED
  BY <1>1, <1>4, <1>5 DEF Starts

LEMMA StartsInit == Init => SInv
<1> SUFFICES ASSUME Init PROVE SInv
  OBVIOUS
<1>1. \A c \in Callers : call[c].pc = "idle" /\ call[c].late = FALSE
  BY DEF Init, NoCall
<1>2. ~started
  BY DEF Init
<1>3. QED
  BY <1>1, <1>2, InitIInv DEF SInv, Snapshot, Starts, Late

LEMMA StartsStep ==
    ASSUME SInv, [Next]_vars
    PROVE  SInv'
<1>0. IInv /\ IInv'
  BY StepKeeps DEF SInv
<1>1. ASSUME NEW c \in Callers, NEW op \in Ops, Invoke(c, op)
      PROVE  Snapshot' /\ Starts'
  <2> DEFINE next == [NoCall EXCEPT !.pc = "read", !.op = op,
                                    !.step = IF op = "cancel" THEN "none" ELSE op,
                                    !.late = started /\ op = "to_running"]
  <2>1. /\ (IF op = "cancel" THEN "none" ELSE op) \in Steps \cup {"none"}
        /\ (started /\ op = "to_running") \in BOOLEAN
    OBVIOUS
  <2>2. next \in Calls
    BY <2>1, NoCallType DEF Calls, NoCall
  <2>3. /\ next.pc = "read" /\ next.op = op /\ next.result = "none"
        /\ next.late = (started /\ op = "to_running")
    BY DEF NoCall
  <2> HIDE DEF next
  <2>4. call' = [call EXCEPT ![c] = next] /\ UNCHANGED <<rowVars, written, started>>
    BY <1>1 DEF Invoke, next
  <2>5. QED
    BY <2>2, <2>3, <2>4, QuietStarts
<1>2. ASSUME NEW c \in Callers, Read(c) PROVE Snapshot' /\ Starts'
  <2>1. call[c].step \in Steps
    BY <1>0, <1>2, CallSplit DEF Read, IInv
  <2>2. call[c].late => call[c].step = "to_running"
    BY <1>0, <1>2 DEF Read, IInv, StepMatches, SInv, Starts, Late
  <2>3. QED
    BY <1>2, <2>1, <2>2, AttemptStarts DEF Read
<1>3. ASSUME NEW c \in Callers, Cancel(c) PROVE Snapshot' /\ Starts'
  <2>1. ~call[c].late
    BY <1>3 DEF Cancel, SInv, Starts, Late
  <2>2. \/ Return(c, "noop") \/ Return(c, "unexpected")
        \/ Attempt(c, "cancel_queued") \/ Attempt(c, "to_cancelling")
    BY <1>3 DEF Cancel
  <2>3. QED
    BY <1>3, <2>1, <2>2, ReturnStarts, AttemptStarts DEF Cancel
<1>4. ASSUME NEW c \in Callers, call[c].pc = "commit"
      PROVE  /\ AfterError(c) \in Calls /\ AfterError(c).pc \in {"read", "done"}
             /\ ~AfterError(c).late
             /\ Ended(c, "ok") \in Calls /\ Ended(c, "ok").pc = "done"
             /\ ~Ended(c, "ok").late
  <2>1. ~call[c].late
    BY <1>4 DEF SInv, Starts, Late
  <2>2. ~AfterError(c).late /\ ~Ended(c, "ok").late
    BY <2>1 DEF AfterError, Ended, NoCall
  <2>3. QED
    BY <1>0, <1>4, <2>2, AfterErrorFacts, EndedFacts DEF IInv
<1>5. ASSUME NEW c \in Callers, Committed(c) PROVE Snapshot' /\ Starts'
  BY <1>4, <1>5, ApplyStarts DEF Committed
<1>6. ASSUME NEW c \in Callers, CommitFailed(c) PROVE Snapshot' /\ Starts'
  <2> DEFINE next == AfterError(c)
  <2>1. next \in Calls /\ next.pc # "commit" /\ ~next.late
    BY <1>4, <1>6 DEF CommitFailed
  <2> HIDE DEF next
  <2>2. call' = [call EXCEPT ![c] = next] /\ UNCHANGED <<rowVars, written, started>>
    BY <1>6 DEF CommitFailed, next
  <2>3. QED
    BY <2>1, <2>2, QuietStarts
<1>7. ASSUME NEW c \in Callers, CommitAckLost(c) PROVE Snapshot' /\ Starts'
  BY <1>4, <1>7, ApplyStarts DEF CommitAckLost
<1>8. ASSUME UNCHANGED vars PROVE Snapshot' /\ Starts'
  BY <1>8 DEF vars, rowVars, SInv, Snapshot, Starts, Late
<1>9. ASSUME NEW c \in Callers, Step(c) PROVE Snapshot' /\ Starts'
  BY <1>2, <1>3, <1>5, <1>6, <1>7, <1>9 DEF Step
<1>10. Snapshot' /\ Starts'
  BY <1>1, <1>8, <1>9 DEF Next
<1>11. QED
  BY <1>0, <1>10 DEF SInv

LEMMA StartsInductive == Spec => []SInv
BY StartsInit, StartsStep, PTL DEF Spec

(***************************************************************************)
(* With no optimistic lock at all, for any callers and retries: once a     *)
(* start was confirmed, a to_running that begins later is never told "ok", *)
(* however many stale writers change the row (service.py:112-167).         *)
(***************************************************************************)
THEOREM LateStartsRefused == Spec => []LateStartersRefused
<1>1. SInv => LateStartersRefused
  BY DEF SInv, Starts, Late, LateStartersRefused
<1>2. QED
  BY <1>1, StartsInductive, PTL

(***************************************************************************)
(* The state machine is kept by every write that no other write crossed,   *)
(* also by the retries after a failed commit or a lost acknowledgement     *)
(* (service.py:112-163): what is lost for want of the optimistic lock is   *)
(* lost between two callers only.                                          *)
(***************************************************************************)
THEOREM UncrossedWritesFollow == Spec => OnlyCrossedWritesStray
<1> DEFINE Keeps == \A c \in Callers :
      (Writes(c) /\ call[c].fresh) => Promise!Transition(Target[call[c].step])
<1>1. SInv => Keeps
  <2> SUFFICES ASSUME SInv, NEW c \in Callers, Writes(c), call[c].fresh
               PROVE  Promise!Transition(Target[call[c].step])
    OBVIOUS
  <2>1. call[c].pc = "commit" /\ status' = Target[call[c].step]
    BY DEF Writes, Committed, CommitAckLost, Apply
  <2>2. call[c].seen = status
    BY <2>1 DEF SInv, Snapshot
  <2>3. status' \in ValidTransitions[status] /\ status \in Status
    BY <2>1, <2>2 DEF SInv, IInv, CommitReady, TypeOK
  <2>4. \A s \in Status : ValidTransitions[s] \subseteq Promise!Lifecycle[s]
    BY DEF ValidTransitions, Promise!Lifecycle
  <2>5. QED
    BY <2>1, <2>3, <2>4 DEF Promise!Transition
<1>2. QED
  BY <1>1, StartsInductive, PTL DEF OnlyCrossedWritesStray

=============================================================================

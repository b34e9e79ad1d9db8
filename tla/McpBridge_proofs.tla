-------------------------- MODULE McpBridge_proofs --------------------------
(***************************************************************************)
(* For any calls, pipes, attempts and faults: an answer reaches the call   *)
(* that asked for it, one request at a time flies that anybody waits for,  *)
(* requests are executed again only after failures, and a call that nobody *)
(* disturbs gets its session back.                                         *)
(*                                                                         *)
(* The inductive invariant has a part for each of these.  GInv ties the    *)
(* proxy's lock, futures and lines together; CallInv the threads to their  *)
(* handlers; Loaded bounds what may still be executed for a call by the    *)
(* failures it has seen; FirstSession and SecondSession say which sessions *)
(* are valid while the gateway has restarted at most once.                 *)
(***************************************************************************)
EXTENDS McpBridge, FiniteSetTheorems, WellFoundedInduction, TLAPS

Stages == Waits \cup Finals
Post1 == [caller : Calls \cup {NoOne}, of : Calls, stage : Stages, id : Nat, got : Calls \cup {NoOne}]
Handlers1 == DOMAIN posts

PostsInv == /\ posts \in [Handlers1 -> Post1]
            /\ Handlers1 \subseteq Nat \ {0}
            /\ \E n \in Nat : Handlers1 \subseteq 1..n

\* The lock is held by the one handler that writes or waits.
LockInv == /\ holder \in Nat
           /\ \A p \in Handlers1 : posts[p].stage \in {"writing", "waiting"} <=> p = holder
           /\ holder # 0 => holder \in Handlers1

\* A future without its handler is left behind only by a write to a dead child.
PendingInv ==
    /\ idSeq \in Nat \ {0} /\ pending \in [DOMAIN pending -> Nat] /\ DOMAIN pending \subseteq 2..idSeq
    /\ \A id \in DOMAIN pending :
          child = "gone" \/ (holder # 0 /\ pending[id] = holder /\ posts[holder].id = id)

\* Each line has an id of its own; the line that is pending is the holder's.
LinesInv ==
    /\ Lines \subseteq [id : 2..idSeq, of : Calls] /\ IsFiniteSet(unread)
    /\ \A l, m \in Lines : l.id = m.id => l = m
    /\ child = "gone" => Lines = {}
    /\ \A l \in Lines : l.id \in DOMAIN pending => l.of = posts[holder].of

AnswersInv ==
    /\ ran \in [Calls -> Nat]
    /\ \A l \in working : ran[l.of] > 0
    /\ \A p \in Handlers1 : posts[p].stage = "answered" => /\ posts[p].got = posts[p].of
                                                        /\ ran[posts[p].of] > 0

SiteInv == /\ child \in {"up", "gone"} /\ ready \in BOOLEAN /\ faults \in 0..MaxFaults
           /\ restarts \in Nat /\ sidSeq \in Nat /\ sessions \subseteq 1..sidSeq

GInv == PostsInv /\ LockInv /\ PendingInv /\ LinesInv /\ AnswersInv /\ SiteInv
-----------------------------------------------------------------------------
(* How handlers change. *)

\* The handlers of P are over; those whose client has left are gone.
Ended(P, s) ==
    /\ DOMAIN posts' \subseteq DOMAIN posts
    /\ \A p \in DOMAIN posts' :
          /\ posts'[p].caller = posts[p].caller /\ posts'[p].of = posts[p].of
          /\ posts'[p].id = posts[p].id /\ (p \notin P => posts'[p].got = posts[p].got)
          /\ posts'[p].stage = IF p \in P THEN s ELSE posts[p].stage
    /\ \A p \in DOMAIN posts : p \notin DOMAIN posts' => p \in P /\ posts[p].caller = NoOne

LEMMA FinishAllEnds ==
  ASSUME PostsInv, NEW P \in SUBSET Handlers1, NEW s \in Stages, FinishAll(P, s)
  PROVE  PostsInv' /\ Ended(P, s)
<1>1. DOMAIN posts' = DOMAIN posts \ {q \in P : posts[q].caller = NoOne}
  BY DEF FinishAll
<1>2. ASSUME NEW p \in DOMAIN posts'
      PROVE  /\ posts[p] \in Post1
             /\ posts'[p] = IF p \in P THEN [posts[p] EXCEPT !.stage = s] ELSE posts[p]
  BY <1>1 DEF FinishAll, PostsInv, Handlers1
<1>3. ASSUME NEW p \in DOMAIN posts'
      PROVE  /\ posts'[p] \in Post1
             /\ posts'[p].caller = posts[p].caller /\ posts'[p].of = posts[p].of
             /\ posts'[p].id = posts[p].id /\ posts'[p].got = posts[p].got
             /\ posts'[p].stage = IF p \in P THEN s ELSE posts[p].stage
  BY <1>2 DEF Post1
<1>4. posts' \in [DOMAIN posts' -> Post1]
  BY <1>3 DEF FinishAll
<1>5. PostsInv'
  BY <1>1, <1>4 DEF PostsInv, Handlers1
<1> QED BY <1>1, <1>3, <1>5 DEF Ended

LEMMA FinishEnds ==
  ASSUME PostsInv, NEW p \in Handlers1, NEW s \in Stages, Finish(p, s)
  PROVE  PostsInv' /\ Ended({p}, s)
<1>1. CASE posts[p].caller = NoOne
  <2>1. posts' = [q \in DOMAIN posts \ {p} |-> posts[q]]
    BY <1>1 DEF Finish, Without
  <2> QED BY <1>1, <2>1 DEF PostsInv, Handlers1, Ended
<1>2. CASE posts[p].caller # NoOne
  <2>1. posts' = [posts EXCEPT ![p].stage = s]
    BY <1>2 DEF Finish
  <2>2. posts[p] \in Post1 /\ DOMAIN posts' = DOMAIN posts
    BY <2>1 DEF PostsInv, Handlers1
  <2>3. posts'[p] = [posts[p] EXCEPT !.stage = s] /\ \A q \in DOMAIN posts \ {p} : posts'[q] = posts[q]
    BY <2>1 DEF Handlers1
  <2>4. posts'[p] \in Post1 /\ posts'[p].caller = posts[p].caller /\ posts'[p].of = posts[p].of
        /\ posts'[p].id = posts[p].id /\ posts'[p].got = posts[p].got /\ posts'[p].stage = s
    BY <2>2, <2>3 DEF Post1
  <2>5. posts' \in [DOMAIN posts -> Post1]
    BY <2>1, <2>3, <2>4 DEF PostsInv, Handlers1
  <2>6. PostsInv'
    BY <2>2, <2>5 DEF PostsInv, Handlers1
  <2> QED BY <2>2, <2>3, <2>4, <2>6 DEF Ended
<1> QED BY <1>1, <1>2
-----------------------------------------------------------------------------
(* The gateway's steps keep GInv. *)

\* What follows when handlers end and the lock is free again.
LEMMA UnlockInv ==
  ASSUME GInv, NEW P \in SUBSET Handlers1, NEW s \in Finals \ {"answered"}, Ended(P, s), PostsInv',
         \A p \in Handlers1 : p = holder => p \in P, holder' = 0,
         UNCHANGED <<ran, working>>
  PROVE  LockInv' /\ AnswersInv'
<1>1. s \notin {"writing", "waiting", "answered"}
  BY DEF Finals
<1>2. \A p \in DOMAIN posts' : posts'[p].stage \notin {"writing", "waiting"} /\ p # 0
  BY <1>1 DEF GInv, PostsInv, LockInv, Handlers1, Ended
<1>3. LockInv'
  BY <1>2 DEF LockInv, Handlers1
<1>4. AnswersInv'
  BY <1>1 DEF GInv, AnswersInv, Handlers1, Ended
<1> QED BY <1>3, <1>4

LEMMA WriteFailsInv ==
  ASSUME GInv, NEW p \in Handlers1, WriteFails(p)
  PROVE  GInv' /\ Ended({p}, "broken")
<1>1. PostsInv' /\ Ended({p}, "broken")
  BY FinishEnds DEF WriteFails, GInv, Stages, Finals
<1>2. LockInv' /\ AnswersInv'
  BY <1>1, UnlockInv DEF WriteFails, GInv, Finals, childVars
<1>3. PendingInv'
  BY DEF WriteFails, GInv, PendingInv, childVars
<1>4. LinesInv'
  BY DEF WriteFails, GInv, LinesInv, Lines, childVars
<1>5. SiteInv'
  BY DEF WriteFails, GInv, SiteInv, childVars, siteVars
<1> QED BY <1>1, <1>2, <1>3, <1>4, <1>5 DEF GInv

LEMMA TimeOutInv ==
  ASSUME GInv, NEW p \in Handlers1, TimeOut(p)
  PROVE  GInv' /\ Ended({p}, "timedOut")
<1>1. PostsInv' /\ Ended({p}, "timedOut")
  BY FinishEnds DEF TimeOut, GInv, Stages, Finals
<1>2. p = holder
  BY DEF TimeOut, GInv, LockInv
<1>3. LockInv' /\ AnswersInv'
  BY <1>1, <1>2, UnlockInv DEF TimeOut, Finals, childVars
<1>4. DOMAIN pending' = DOMAIN pending \ {posts[p].id} /\ pending' \in [DOMAIN pending' -> Nat]
  BY DEF TimeOut, Forget, GInv, PendingInv
<1>5. PendingInv'
  BY <1>2, <1>4 DEF TimeOut, GInv, PendingInv, childVars
<1>6. LinesInv'
  <2>1. ASSUME NEW l \in Lines, l.id \in DOMAIN pending' PROVE FALSE
    <3>1. l.id \in DOMAIN pending /\ l.id # posts[p].id
      BY <1>4, <2>1
    <3>2. child # "gone"
      BY DEF GInv, LinesInv
    <3> QED BY <1>2, <3>1, <3>2 DEF GInv, PendingInv
  <2> QED BY <2>1 DEF TimeOut, GInv, LinesInv, Lines, childVars
<1>7. SiteInv'
  BY DEF TimeOut, GInv, SiteInv, childVars, siteVars
<1> QED BY <1>1, <1>3, <1>5, <1>6, <1>7 DEF GInv

LEMMA WriteInv ==
  ASSUME GInv, NEW p \in Handlers1, Write(p)
  PROVE  GInv'
<1> DEFINE n == idSeq + 1
           line == Line(n, posts[p].of)
           stg == IF Fits(unread') THEN "waiting" ELSE "writing"
<1>1. holder = 0 /\ posts[p].stage = "queued" /\ posts[p] \in Post1 /\ p \in Nat /\ p # 0
  BY DEF Write, LockIsFree, Oldest, GInv, PostsInv, Handlers1
<1>2. holder' = p /\ idSeq' = n /\ UNCHANGED <<working, child, ran, siteVars, faults>> /\ n \in Nat /\ n >= 2
  BY DEF Write, NewId, GInv, PendingInv
<1>3. posts' = [posts EXCEPT ![p].stage = stg, ![p].id = n]
  BY DEF Write, NewId
<1>4. /\ DOMAIN posts' = DOMAIN posts
      /\ posts'[p] = [posts[p] EXCEPT !.stage = stg, !.id = n]
      /\ \A q \in DOMAIN posts \ {p} : posts'[q] = posts[q]
  BY <1>3 DEF Handlers1
<1>5. stg \in {"writing", "waiting"} /\ stg \in Stages
  BY DEF Stages, Waits
<1> HIDE DEF stg
<1>6. /\ posts'[p] \in Post1 /\ posts'[p].caller = posts[p].caller /\ posts'[p].of = posts[p].of
      /\ posts'[p].got = posts[p].got /\ posts'[p].id = n /\ posts'[p].stage = stg
  BY <1>1, <1>2, <1>4, <1>5 DEF Post1
<1>7. PostsInv'
  <2>1. posts' \in [DOMAIN posts -> Post1]
    BY <1>3, <1>4, <1>6 DEF GInv, PostsInv, Handlers1
  <2> QED BY <1>4, <2>1 DEF GInv, PostsInv, Handlers1
<1>8. /\ DOMAIN pending' = DOMAIN pending \cup {n} /\ pending' \in [DOMAIN pending' -> Nat]
      /\ pending'[n] = p /\ \A i \in DOMAIN pending \ {n} : pending'[i] = pending[i]
  BY <1>1 DEF Write, NewId, Register, GInv, PendingInv
<1>9. child = "gone" \/ DOMAIN pending = {}
  BY <1>1 DEF GInv, PendingInv
<1>10. LockInv'
  <2>1. \A q \in DOMAIN posts' : posts'[q].stage \in {"writing", "waiting"} <=> q = p
    <3>1. \A q \in DOMAIN posts : posts[q].stage \notin {"writing", "waiting"}
      BY <1>1 DEF GInv, LockInv, PostsInv, Handlers1
    <3> QED BY <1>4, <1>5, <1>6, <3>1
  <2>2. p \in DOMAIN posts' /\ posts'[p].id \in DOMAIN pending' /\ pending'[posts'[p].id] = p
    BY <1>4, <1>6, <1>8 DEF Handlers1
  <2> QED BY <1>1, <1>2, <2>1, <2>2 DEF LockInv, Handlers1
<1>11. PendingInv'
  BY <1>1, <1>2, <1>6, <1>8, <1>9 DEF GInv, PendingInv
<1>12. LinesInv'
  <2>1. CASE child = "gone"
    <3>1. unread' = unread /\ Lines' = {} /\ IsFiniteSet(unread)
      BY <1>2, <2>1 DEF Write, GInv, LinesInv, Lines
    <3> QED BY <1>2, <2>1, <3>1 DEF LinesInv
  <2>2. CASE child # "gone"
    <3>1. unread' = unread \cup {line} /\ Lines' = Lines \cup {line}
      BY <1>2, <2>2 DEF Write, NewId, Lines
    <3>2. IsFiniteSet(unread')
      BY <3>1, FS_AddElement DEF GInv, LinesInv
    <3>3. line.id = n /\ line.of = posts[p].of /\ line \in [id : 2..n, of : Calls]
      BY <1>1, <1>2 DEF Line, Post1
    <3>4. \A l \in Lines : l.id # n /\ l \in [id : 2..n, of : Calls]
      BY <1>2 DEF GInv, LinesInv, PendingInv
    <3>5. \A l, m \in Lines' : l.id = m.id => l = m
      BY <3>1, <3>3, <3>4 DEF GInv, LinesInv
    <3>6. \A l \in Lines' : l.id \in DOMAIN pending' => l.of = posts'[holder'].of
      BY <1>2, <1>6, <1>8, <1>9, <2>2, <3>1, <3>3, <3>4
    <3> QED BY <1>2, <2>2, <3>1, <3>2, <3>3, <3>4, <3>5, <3>6 DEF LinesInv
  <2> QED BY <2>1, <2>2
<1>13. AnswersInv'
  BY <1>2, <1>4, <1>5, <1>6 DEF GInv, AnswersInv, Handlers1
<1>14. SiteInv'
  BY <1>2 DEF GInv, SiteInv, siteVars
<1> QED BY <1>7, <1>10, <1>11, <1>12, <1>13, <1>14 DEF GInv

LEMMA DrainedInv ==
  ASSUME GInv, NEW p \in Handlers1, posts[p].stage = "writing",
         posts' = [posts EXCEPT ![p].stage = "waiting"],
         UNCHANGED <<proxyVars, childVars, siteVars, faults>>
  PROVE  GInv' /\ Ended({p}, "waiting")
<1>1. posts[p] \in Post1
  BY DEF GInv, PostsInv, Handlers1
<1>2. /\ DOMAIN posts' = DOMAIN posts
      /\ posts'[p] = [posts[p] EXCEPT !.stage = "waiting"]
      /\ \A q \in DOMAIN posts \ {p} : posts'[q] = posts[q]
  BY <1>1 DEF Handlers1
<1>3. /\ posts'[p] \in Post1 /\ posts'[p].caller = posts[p].caller /\ posts'[p].of = posts[p].of
      /\ posts'[p].got = posts[p].got /\ posts'[p].id = posts[p].id /\ posts'[p].stage = "waiting"
  BY <1>1, <1>2 DEF Post1, Stages, Waits
<1>4. Ended({p}, "waiting")
  BY <1>2, <1>3 DEF Ended
<1>5. PostsInv'
  <2>1. posts' \in [DOMAIN posts -> Post1]
    BY <1>1, <1>2, <1>3 DEF GInv, PostsInv, Handlers1
  <2> QED BY <1>2, <2>1 DEF GInv, PostsInv, Handlers1
<1>6. LockInv'
  BY <1>1, <1>2, <1>3 DEF GInv, LockInv, Handlers1, proxyVars
<1>7. PendingInv'
  BY <1>1, <1>2, <1>3 DEF GInv, LockInv, PendingInv, Handlers1, proxyVars, childVars
<1>8. LinesInv'
  BY <1>1, <1>2, <1>3 DEF GInv, LinesInv, Lines, proxyVars, childVars
<1>9. AnswersInv'
  BY <1>1, <1>2, <1>3 DEF GInv, AnswersInv, Handlers1, childVars
<1>10. SiteInv'
  BY <1>1 DEF GInv, SiteInv, siteVars, childVars
<1> QED BY <1>2, <1>4, <1>5, <1>6, <1>7, <1>8, <1>9, <1>10 DEF GInv

\* The reader has ended meanwhile.
LEMMA DrainedLateInv ==
  ASSUME GInv, NEW p \in Handlers1, posts[p].stage = "writing", posts[p].id \notin DOMAIN pending,
         Finish(p, "broken"), holder' = 0,
         UNCHANGED <<pending, idSeq, childVars, siteVars, faults>>
  PROVE  GInv' /\ Ended({p}, "broken")
<1>1. PostsInv' /\ Ended({p}, "broken")
  BY FinishEnds DEF GInv, Stages, Finals
<1>2. p = holder
  BY DEF GInv, LockInv
<1>3. LockInv' /\ AnswersInv'
  BY <1>1, <1>2, UnlockInv DEF GInv, Finals, childVars
<1>4. child = "gone" \/ DOMAIN pending = {}
  BY <1>2 DEF GInv, PendingInv
<1>5. PendingInv'
  BY <1>4 DEF GInv, PendingInv, childVars
<1>6. LinesInv'
  BY <1>4 DEF GInv, LinesInv, Lines, childVars
<1>7. SiteInv'
  BY DEF GInv, SiteInv, childVars, siteVars
<1> QED BY <1>1, <1>3, <1>5, <1>6, <1>7 DEF GInv

Awaiting == {p \in Live : posts[p].stage = "waiting"}

LEMMA ReaderEndsInv ==
  ASSUME GInv, ReaderEnds, faults' \in 0..MaxFaults
  PROVE  GInv' /\ Awaiting \subseteq Live /\ Ended(Awaiting, "broken")
<1>1. Awaiting \subseteq Live /\ Awaiting \subseteq Handlers1 /\ FinishAll(Awaiting, "broken")
      /\ "broken" \in Stages \ {"writing", "waiting", "answered"} /\ "broken" \in Finals \ {"answered"}
  BY DEF ReaderEnds, Awaiting, Live, Handlers1, Stages, Finals, Waits
<1>2. PostsInv' /\ Ended(Awaiting, "broken")
  BY <1>1, FinishAllEnds DEF GInv
<1>3. UNCHANGED <<idSeq, unread, working, child, ran, sessions, sidSeq, restarts>>
      /\ pending' = <<>> /\ ready' = FALSE
  BY DEF ReaderEnds, childVars
<1>4. LockInv' /\ AnswersInv'
  <2>1. CASE holder # 0 /\ posts[holder].stage = "writing"
    <3>1. holder \in Handlers1 /\ holder \in Live /\ holder' = holder
      BY <2>1 DEF GInv, LockInv, ReaderEnds, Live, Waits, Handlers1
    <3>2. Awaiting = {}
      BY <2>1 DEF GInv, LockInv, Awaiting, Live, Handlers1
    <3>3. DOMAIN posts' = DOMAIN posts
          /\ \A p \in DOMAIN posts : /\ posts'[p].stage = posts[p].stage /\ posts'[p].of = posts[p].of
                                     /\ posts'[p].got = posts[p].got
      BY <1>2, <3>2 DEF Ended
    <3> QED BY <1>3, <3>1, <3>3 DEF GInv, LockInv, AnswersInv, Handlers1
  <2>2. CASE ~(holder # 0 /\ posts[holder].stage = "writing")
    <3>1. holder' = 0
      BY <2>2 DEF ReaderEnds, GInv, PostsInv, Live, Handlers1
    <3>2. \A p \in Handlers1 : p = holder => p \in Awaiting
      BY <2>2 DEF GInv, PostsInv, LockInv, Awaiting, Live, Waits, Handlers1
    <3> QED BY <1>1, <1>2, <1>3, <3>1, <3>2, UnlockInv
  <2> QED BY <2>1, <2>2
<1>5. DOMAIN pending' = {} /\ pending' \in [DOMAIN pending' -> Nat]
  BY <1>3
<1>6. PendingInv'
  BY <1>3, <1>5 DEF GInv, PendingInv
<1>7. LinesInv'
  BY <1>3, <1>5 DEF GInv, LinesInv, Lines
<1>8. SiteInv'
  BY <1>3 DEF GInv, SiteInv
<1> QED BY <1>1, <1>2, <1>4, <1>6, <1>7, <1>8 DEF GInv

LEMMA RestartInv ==
  ASSUME GInv, Restart
  PROVE  GInv' /\ Ended(Live, "reset")
<1>1. Live \subseteq Handlers1 /\ FinishAll(Live, "reset") /\ "reset" \in Stages
  BY DEF Restart, Live, Handlers1, Stages, Finals
<1>2. PostsInv' /\ Ended(Live, "reset")
  BY <1>1, FinishAllEnds DEF GInv
<1>3. \A p \in Handlers1 : p = holder => p \in Live
  BY DEF GInv, LockInv, Live, Waits, Handlers1
<1>4. holder' = 0 /\ idSeq' = 1 /\ pending' = <<>> /\ unread' = {} /\ working' = {} /\ ran' = ran
      /\ sessions' = {} /\ sidSeq' = sidSeq /\ restarts' = restarts + 1
  BY DEF Restart
<1>5. LockInv'
  <2>1. \A p \in DOMAIN posts' : posts'[p].stage \notin {"writing", "waiting"} /\ p # 0
    BY <1>2 DEF GInv, PostsInv, LockInv, Handlers1, Ended, Live, Waits
  <2> QED BY <1>4, <2>1 DEF LockInv, Handlers1
<1>6. AnswersInv'
  BY <1>2, <1>4 DEF GInv, AnswersInv, Handlers1, Ended
<1>7. DOMAIN pending' = {} /\ pending' \in [DOMAIN pending' -> Nat]
  BY <1>4
<1>8. PendingInv'
  BY <1>4, <1>7 DEF PendingInv
<1>9. LinesInv'
  BY <1>4, FS_EmptySet DEF LinesInv, Lines
<1>10. SiteInv'
  <2>1. child' \in {"up", "gone"} /\ ready' \in BOOLEAN
    BY DEF Restart
  <2>2. faults' \in 0..MaxFaults
    BY GatewayAssumption DEF Restart, Fault, GInv, SiteInv
  <2>3. restarts' \in Nat /\ sidSeq' \in Nat /\ sessions' \subseteq 1..sidSeq'
    BY <1>4 DEF GInv, SiteInv
  <2> QED BY <2>1, <2>2, <2>3 DEF SiteInv
<1> QED BY <1>2, <1>5, <1>6, <1>8, <1>9, <1>10 DEF GInv

LEMMA DieInv ==
  ASSUME GInv, Die
  PROVE  GInv'
<1>1. unread' = {} /\ working' = {} /\ child' = "gone" /\ UNCHANGED <<posts, proxyVars, ran, siteVars>>
  BY DEF Die
<1>2. PostsInv' /\ LockInv'
  BY <1>1 DEF GInv, PostsInv, LockInv, Handlers1, proxyVars
<1>3. PendingInv'
  BY <1>1 DEF GInv, PendingInv, proxyVars
<1>4. LinesInv'
  BY <1>1, FS_EmptySet DEF LinesInv, Lines
<1>5. AnswersInv'
  BY <1>1 DEF GInv, AnswersInv, Handlers1
<1>6. SiteInv'
  BY <1>1, GatewayAssumption DEF Die, Fault, GInv, SiteInv, siteVars
<1> QED BY <1>2, <1>3, <1>4, <1>5, <1>6 DEF GInv

LEMMA ReadInv ==
  ASSUME GInv, NEW line \in Lines, Read(line)
  PROVE  /\ GInv' /\ posts' = posts /\ line.of \in Calls
         /\ ran' = [ran EXCEPT ![line.of] = ran[line.of] + 1]
<1>1. line \in unread /\ unread' = unread \ {line} /\ working' = working \cup {line}
      /\ UNCHANGED <<posts, proxyVars, child, siteVars, faults>>
  BY DEF Read
<1>2. Lines' = Lines /\ line.of \in Calls /\ ran' = [ran EXCEPT ![line.of] = ran[line.of] + 1]
  BY <1>1 DEF Read, Lines, GInv, LinesInv
<1>3. ran' \in [Calls -> Nat] /\ ran'[line.of] > 0 /\ \A c \in Calls : ran'[c] >= ran[c]
  BY <1>2 DEF GInv, AnswersInv
<1>4. PostsInv' /\ LockInv' /\ PendingInv'
  BY <1>1 DEF GInv, PostsInv, LockInv, PendingInv, Handlers1, proxyVars
<1>5. LinesInv'
  <2>1. IsFiniteSet(unread')
    BY <1>1, FS_RemoveElement DEF GInv, LinesInv
  <2> QED BY <1>1, <1>2, <2>1 DEF GInv, LinesInv, proxyVars
<1>6. AnswersInv'
  <2>1. \A l \in working' : ran'[l.of] > 0
    <3>1. \A l \in working : l.of \in Calls /\ ran[l.of] \in Nat /\ ran'[l.of] \in Nat
      BY <1>3 DEF GInv, AnswersInv, LinesInv, Lines
    <3> QED BY <1>1, <1>3, <3>1 DEF GInv, AnswersInv
  <2>2. \A p \in DOMAIN posts : posts[p].of \in Calls
    BY DEF GInv, PostsInv, Handlers1, Post1
  <2>3. \A p \in DOMAIN posts : ran[posts[p].of] \in Nat /\ ran'[posts[p].of] \in Nat
    BY <1>3, <2>2 DEF GInv, AnswersInv
  <2> QED BY <1>1, <1>3, <2>1, <2>2, <2>3 DEF GInv, AnswersInv, Handlers1
<1>7. SiteInv'
  BY <1>1 DEF GInv, SiteInv, siteVars
<1> QED BY <1>1, <1>2, <1>4, <1>5, <1>6, <1>7 DEF GInv

LEMMA DropInv ==
  ASSUME GInv, NEW line \in Lines, Drop(line)
  PROVE  GInv'
<1>1. working' = working \ {line} /\ UNCHANGED <<posts, proxyVars, unread, child, ran, siteVars, faults>>
  BY DEF Drop
<1>2. PostsInv' /\ LockInv' /\ PendingInv' /\ SiteInv'
  BY <1>1 DEF GInv, PostsInv, LockInv, PendingInv, SiteInv, Handlers1, proxyVars, siteVars
<1>3. LinesInv' /\ AnswersInv'
  BY <1>1 DEF GInv, LinesInv, Lines, AnswersInv, Handlers1, proxyVars
<1> QED BY <1>2, <1>3 DEF GInv

\* The answer of the line that is pending reaches its own request.
LEMMA RouteInv ==
  ASSUME GInv, NEW line \in Lines, Route(line)
  PROVE  GInv' /\ holder \in Handlers1 /\ Ended({holder}, "answered")
<1>1. line \in working /\ line.id \in DOMAIN pending
      /\ UNCHANGED <<idSeq, unread, child, ran, siteVars, faults>> /\ holder' = 0
  BY DEF Route
<1>2. /\ child # "gone" /\ holder # 0 /\ holder \in Handlers1 /\ pending[line.id] = holder
      /\ posts[holder].id = line.id /\ posts[holder] \in Post1 /\ line.of = posts[holder].of
  BY <1>1 DEF GInv, LinesInv, PendingInv, LockInv, PostsInv, Handlers1
<1>3. ran[line.of] > 0
  BY <1>1 DEF GInv, AnswersInv
<1>4. /\ \A q \in DOMAIN posts' \ {holder} : q \in DOMAIN posts /\ posts'[q] = posts[q]
      /\ DOMAIN posts \ {holder} \subseteq DOMAIN posts'
      /\ DOMAIN posts' \subseteq DOMAIN posts
      /\ holder \in DOMAIN posts' => /\ posts'[holder].caller = posts[holder].caller
                                     /\ posts'[holder].of = posts[holder].of
                                     /\ posts'[holder].id = posts[holder].id
                                     /\ posts'[holder].got = posts[holder].of
                                     /\ posts'[holder].stage = "answered"
                                     /\ posts'[holder] \in Post1
      /\ holder \notin DOMAIN posts' => posts[holder].caller = NoOne
      /\ posts' = [q \in DOMAIN posts' |-> posts'[q]]
  <2>1. CASE posts[holder].caller = NoOne
    <3>1. posts' = [q \in DOMAIN posts \ {holder} |-> posts[q]]
      BY <1>2, <2>1 DEF Route, Without
    <3> QED BY <2>1, <3>1
  <2>2. CASE posts[holder].caller # NoOne
    <3>1. posts' = [posts EXCEPT ![holder].stage = "answered", ![holder].got = line.of]
      BY <1>2, <2>2 DEF Route
    <3>2. /\ DOMAIN posts' = DOMAIN posts
          /\ posts'[holder] = [posts[holder] EXCEPT !.stage = "answered", !.got = line.of]
          /\ \A q \in DOMAIN posts \ {holder} : posts'[q] = posts[q]
          /\ posts' = [q \in DOMAIN posts' |-> posts'[q]]
      BY <1>2, <3>1 DEF GInv, PostsInv, Handlers1
    <3>3. "answered" \in Stages
      BY DEF Stages, Finals
    <3> QED BY <1>2, <3>2, <3>3 DEF Post1, Handlers1
  <2> QED BY <2>1, <2>2
<1>5. PostsInv'
  <2>1. \A q \in DOMAIN posts' : posts'[q] \in Post1
    BY <1>4 DEF GInv, PostsInv, Handlers1
  <2>2. posts' \in [DOMAIN posts' -> Post1]
    BY <1>4, <2>1
  <2> QED BY <1>4, <2>2 DEF GInv, PostsInv, Handlers1
<1>6. DOMAIN pending' = {} /\ pending' \in [DOMAIN pending' -> Nat]
  <2>1. DOMAIN pending' = DOMAIN pending \ {line.id} /\ pending' \in [DOMAIN pending' -> Nat]
    BY DEF Route, Forget, GInv, PendingInv
  <2> QED BY <1>2, <2>1 DEF GInv, PendingInv
<1>7. LockInv'
  BY <1>1, <1>2, <1>4 DEF GInv, LockInv, PostsInv, Handlers1
<1>8. PendingInv'
  BY <1>1, <1>6 DEF GInv, PendingInv
<1>9. LinesInv'
  <2>1. Lines' \subseteq Lines
    BY <1>1 DEF Route, Lines
  <2> QED BY <1>1, <1>6, <2>1 DEF GInv, LinesInv
<1>10. AnswersInv'
  <2>1. working' \subseteq working /\ ran' = ran
    BY <1>1 DEF Route
  <2> QED BY <1>2, <1>3, <1>4, <2>1 DEF GInv, AnswersInv, Handlers1
<1>11. SiteInv'
  BY <1>1 DEF GInv, SiteInv, siteVars
<1>12. Ended({holder}, "answered")
  BY <1>2, <1>4 DEF Ended
<1> QED BY <1>2, <1>5, <1>7, <1>8, <1>9, <1>10, <1>11, <1>12 DEF GInv
-----------------------------------------------------------------------------
(* A new handler, a client that leaves, a new session. *)

LEMMA GreatestExists ==
  ASSUME NEW n \in Nat, NEW S \in SUBSET (1..n), S # {}
  PROVE  \E x \in S : \A y \in S : y <= x
<1> DEFINE Above == {m \in 0..n : \A y \in S : y <= m}
           R == OpToRel(<, Nat)
<1>1. Above \subseteq Nat /\ n \in Above
  OBVIOUS
<1>2. IsWellFoundedOn(R, Nat)
  BY NatLessThanWellFounded
<1>3. \A x, y \in Nat : y < x => <<y, x>> \in R
  BY DEF OpToRel
<1> HIDE DEF R
<1>4. PICK m \in Above : \A y \in Above : ~(<<y, m>> \in R)
  BY <1>1, <1>2, WFMin
<1>5. m \in Nat /\ \A y \in Above : ~(y < m)
  BY <1>1, <1>3, <1>4
<1>6. m \in S
  <2> SUFFICES ASSUME m \notin S PROVE FALSE
    OBVIOUS
  <2>1. \A y \in S : y \in 1..n /\ y <= m - 1
    BY <1>4, <1>5
  <2>2. PICK y \in S : TRUE
    OBVIOUS
  <2>3. y \in 1..n /\ y <= m /\ m \in 0..n
    BY <1>4, <2>2
  <2>4. m - 1 \in Above
    BY <2>1, <2>3
  <2> QED BY <1>5, <2>4
<1> QED BY <1>4, <1>6

LEMMA NewestIsNew ==
  ASSUME PostsInv
  PROVE  Newest \in Nat /\ \A p \in Handlers1 : p <= Newest
<1>1. CASE Handlers1 = {}
  BY <1>1 DEF Newest, Handlers1
<1>2. CASE Handlers1 # {}
  <2>1. PICK n \in Nat : Handlers1 \subseteq 1..n
    BY DEF PostsInv
  <2>2. \E x \in Handlers1 : \A y \in Handlers1 : y <= x
    BY <1>2, <2>1, GreatestExists
  <2> QED BY <1>2, <2>1, <2>2 DEF Newest, Handlers1
<1> QED BY <1>1, <1>2

\* The handlers of the others are as before.
Untouched(p) == \A q \in DOMAIN posts \ {p} : q \in DOMAIN posts' /\ posts'[q] = posts[q]

LEMMA ReceiveInv ==
  ASSUME GInv, NEW c \in Calls, NEW s, Receive(c, s), faults' = faults
  PROVE  /\ GInv' /\ Newest \in Nat /\ Newest + 1 \notin DOMAIN posts /\ Untouched(Newest + 1)
         /\ DOMAIN posts' = DOMAIN posts \cup {Newest + 1}
         /\ posts'[Newest + 1].caller = c /\ posts'[Newest + 1].of = c
         /\ posts'[Newest + 1].stage \in Admission(s)
         /\ UNCHANGED <<unread, ran, sessions, sidSeq, restarts>>
<1> DEFINE p == Newest + 1
<1>1. p \in Nat /\ p # 0 /\ p \notin DOMAIN posts
  BY NewestIsNew DEF GInv, Handlers1
<1> HIDE DEF p
<1>2. PICK stage \in Admission(s) :
         posts' = [q \in DOMAIN posts \cup {p} |->
                     IF q = p THEN [caller |-> c, of |-> c, stage |-> stage, id |-> 0, got |-> NoOne]
                     ELSE posts[q]]
  BY DEF Receive, p
<1>3. UNCHANGED <<proxyVars, childVars, siteVars>>
  BY DEF Receive
<1>4. /\ DOMAIN posts' = DOMAIN posts \cup {p}
      /\ posts'[p] = [caller |-> c, of |-> c, stage |-> stage, id |-> 0, got |-> NoOne]
      /\ \A q \in DOMAIN posts : q # p /\ posts'[q] = posts[q]
  BY <1>1, <1>2
<1>5. stage \in {"refused", "queued", "notReady"}
  BY DEF Admission
<1>6. posts'[p] \in Post1
  BY <1>4, <1>5 DEF Post1, Stages, Waits, Finals
<1>7. PostsInv'
  <2>1. posts' \in [DOMAIN posts' -> Post1]
    BY <1>2, <1>4, <1>6 DEF GInv, PostsInv, Handlers1
  <2>2. DOMAIN posts' \subseteq 1..p
    BY <1>1, <1>4, NewestIsNew DEF GInv, PostsInv, Handlers1, p
  <2> QED BY <1>1, <1>4, <2>1, <2>2 DEF GInv, PostsInv, Handlers1
<1>8. LockInv'
  <2>1. posts'[p].stage \notin {"writing", "waiting"}
    BY <1>4, <1>5
  <2>2. p # holder
    BY <1>1 DEF GInv, LockInv, Handlers1
  <2> QED BY <1>3, <1>4, <2>1, <2>2 DEF GInv, LockInv, Handlers1, proxyVars
<1>9. PendingInv'
  BY <1>3, <1>4 DEF GInv, PendingInv, LockInv, Handlers1, proxyVars, childVars
<1>10. LinesInv'
  <2>1. \A l \in Lines : l.id \in DOMAIN pending => holder # 0
    BY DEF GInv, LinesInv, PendingInv
  <2> QED BY <1>3, <1>4, <2>1 DEF GInv, LinesInv, LockInv, Lines, Handlers1, proxyVars, childVars
<1>11. AnswersInv'
  <2>1. posts'[p].stage # "answered"
    BY <1>4, <1>5
  <2> QED BY <1>3, <1>4, <2>1 DEF GInv, AnswersInv, Handlers1, childVars
<1>12. SiteInv'
  BY <1>3 DEF GInv, SiteInv, siteVars, childVars
<1>13. GInv' /\ Untouched(p)
  BY <1>4, <1>7, <1>8, <1>9, <1>10, <1>11, <1>12 DEF GInv, Untouched
<1>14. posts'[p].caller = c /\ posts'[p].of = c /\ posts'[p].stage \in Admission(s)
  BY <1>4
<1> QED BY <1>1, <1>3, <1>4, <1>13, <1>14, NewestIsNew DEF GInv, childVars, siteVars, p

LEMMA LeaveInv ==
  ASSUME GInv, NEW p \in Handlers1, Leave(p), faults' \in 0..MaxFaults
  PROVE  /\ GInv' /\ Untouched(p) /\ DOMAIN posts' \subseteq DOMAIN posts
         /\ (posts[p].stage = "queued" <=> p \in DOMAIN posts' /\ posts'[p].stage = "queued")
         /\ (p \in DOMAIN posts' => posts'[p].of = posts[p].of)
         /\ UNCHANGED <<unread, ran, sessions, sidSeq, restarts>>
<1>1. UNCHANGED <<proxyVars, childVars, siteVars>> /\ posts[p] \in Post1
  BY DEF Leave, GInv, PostsInv, Handlers1
<1>2. /\ Untouched(p) /\ DOMAIN posts' \subseteq DOMAIN posts /\ posts' = [q \in DOMAIN posts' |-> posts'[q]]
      /\ p \in DOMAIN posts' => /\ posts'[p] = [posts[p] EXCEPT !.caller = NoOne]
                                /\ posts[p].stage \in Waits
      /\ p \notin DOMAIN posts' => posts[p].stage \notin Waits
  <2>1. CASE p \in Live
    <3>1. posts' = [posts EXCEPT ![p].caller = NoOne]
      BY <2>1 DEF Leave
    <3> QED BY <2>1, <3>1 DEF GInv, PostsInv, Handlers1, Untouched, Live
  <2>2. CASE p \notin Live
    <3>1. posts' = [q \in DOMAIN posts \ {p} |-> posts[q]]
      BY <2>2 DEF Leave, Without
    <3> QED BY <2>2, <3>1 DEF Handlers1, Untouched, Live
  <2> QED BY <2>1, <2>2
<1>3. p \in DOMAIN posts' => /\ posts'[p] \in Post1 /\ posts'[p].of = posts[p].of
                             /\ posts'[p].stage = posts[p].stage /\ posts'[p].id = posts[p].id
                             /\ posts'[p].got = posts[p].got
  BY <1>1, <1>2 DEF Post1
<1>4. PostsInv'
  <2>1. \A q \in DOMAIN posts' : posts'[q] \in Post1
    BY <1>2, <1>3 DEF GInv, PostsInv, Handlers1, Untouched
  <2>2. posts' \in [DOMAIN posts' -> Post1]
    BY <1>2, <2>1
  <2> QED BY <1>2, <2>2 DEF GInv, PostsInv, Handlers1
<1>5. LockInv'
  <2>1. holder # 0 => holder \in DOMAIN posts' /\ posts'[holder].id = posts[holder].id
    BY <1>2, <1>3 DEF GInv, LockInv, Handlers1, Untouched, Waits
  <2>2. \A q \in DOMAIN posts' : q \in DOMAIN posts /\ posts'[q].stage = posts[q].stage
    BY <1>2, <1>3 DEF Untouched
  <2> QED BY <1>1, <2>1, <2>2 DEF GInv, LockInv, Handlers1, proxyVars
<1>6. PendingInv' /\ LinesInv'
  <2>1. holder # 0 => posts'[holder].id = posts[holder].id /\ posts'[holder].of = posts[holder].of
    BY <1>2, <1>3 DEF GInv, LockInv, Handlers1, Untouched, Waits
  <2>2. \A l \in Lines : l.id \in DOMAIN pending => holder # 0
    BY DEF GInv, LinesInv, PendingInv
  <2>3. PendingInv'
    BY <1>1, <2>1 DEF GInv, PendingInv, proxyVars, childVars
  <2>4. LinesInv'
    BY <1>1, <2>1, <2>2 DEF GInv, LinesInv, Lines, proxyVars, childVars
  <2> QED BY <2>3, <2>4
<1>7. AnswersInv'
  BY <1>1, <1>2, <1>3 DEF GInv, AnswersInv, Handlers1, Untouched, childVars
<1>8. SiteInv'
  BY <1>1 DEF GInv, SiteInv, siteVars, childVars
<1>9. GInv'
  BY <1>4, <1>5, <1>6, <1>7, <1>8 DEF GInv
<1> QED BY <1>1, <1>2, <1>3, <1>9 DEF childVars, siteVars, Waits

LEMMA InitializedInv ==
  ASSUME GInv, Initialized
  PROVE  /\ GInv' /\ sidSeq' = sidSeq + 1 /\ sidSeq \in Nat /\ sessions' = sessions \cup {sidSeq + 1}
         /\ UNCHANGED <<posts, unread, ran, restarts>>
<1>1. /\ sidSeq' = sidSeq + 1 /\ sessions' = sessions \cup {sidSeq + 1}
      /\ UNCHANGED <<posts, proxyVars, childVars, ready, restarts, faults>>
  BY DEF Initialized
<1>2. PostsInv' /\ LockInv' /\ PendingInv'
  BY <1>1 DEF GInv, PostsInv, LockInv, PendingInv, Handlers1, proxyVars, childVars
<1>3. LinesInv' /\ AnswersInv'
  BY <1>1 DEF GInv, LinesInv, AnswersInv, Lines, Handlers1, proxyVars, childVars
<1>4. sidSeq \in Nat /\ SiteInv'
  BY <1>1 DEF GInv, SiteInv, childVars
<1> QED BY <1>1, <1>2, <1>3, <1>4 DEF GInv, childVars
-----------------------------------------------------------------------------
(* What may still be executed for a call. *)

UnreadOf(c) == {l \in unread : l.of = c}
QueuedOf(c) == {p \in Handlers1 : posts[p].stage = "queued" /\ posts[p].of = c}

\* Its executions so far, its lines that are not read and its handlers that wait to write one.
Load(c) == ran[c] + Cardinality(UnreadOf(c)) + Cardinality(QueuedOf(c))

LEMMA LoadIsFinite ==
  ASSUME GInv, NEW c \in Calls
  PROVE  /\ IsFiniteSet(UnreadOf(c)) /\ Cardinality(UnreadOf(c)) \in Nat
         /\ IsFiniteSet(QueuedOf(c)) /\ Cardinality(QueuedOf(c)) \in Nat
         /\ ran[c] \in Nat /\ Load(c) \in Nat
<1>1. IsFiniteSet(UnreadOf(c))
  BY FS_Subset DEF UnreadOf, GInv, LinesInv
<1>2. PICK n \in Nat : Handlers1 \subseteq 1..n
  BY DEF GInv, PostsInv
<1>3. QueuedOf(c) \subseteq 1..n
  BY <1>2 DEF QueuedOf
<1>4. IsFiniteSet(QueuedOf(c))
  <2>1. IsFiniteSet(1..n)
    BY FS_Interval
  <2> QED BY <1>3, <2>1, FS_Subset
<1>5. Cardinality(UnreadOf(c)) \in Nat /\ Cardinality(QueuedOf(c)) \in Nat
  BY <1>1, <1>4, FS_CardinalityType
<1>6. ran[c] \in Nat
  BY DEF GInv, AnswersInv
<1> QED BY <1>1, <1>4, <1>5, <1>6 DEF Load

LEMMA LoadNeverGrows ==
  ASSUME GInv, NEW c \in Calls, UnreadOf(c)' \subseteq UnreadOf(c), QueuedOf(c)' \subseteq QueuedOf(c),
         ran'[c] = ran[c]
  PROVE  Load(c)' <= Load(c) /\ Load(c)' \in Nat
<1>1. Cardinality(UnreadOf(c)') <= Cardinality(UnreadOf(c)) /\ Cardinality(UnreadOf(c)') \in Nat
  BY LoadIsFinite, FS_Subset, FS_CardinalityType
<1>2. Cardinality(QueuedOf(c)') <= Cardinality(QueuedOf(c)) /\ Cardinality(QueuedOf(c)') \in Nat
  BY LoadIsFinite, FS_Subset, FS_CardinalityType
<1> QED BY <1>1, <1>2, LoadIsFinite DEF Load

\* What the gateway's own steps leave alone: the handlers whose client waits, whose requests
\* they are, and who was turned away.
TurnedAway == {"refused", "notReady"}

Kept == /\ \A p \in DOMAIN posts : posts[p].caller # NoOne => p \in DOMAIN posts'
        /\ \A p \in DOMAIN posts' : p \in DOMAIN posts =>
              /\ posts'[p].caller = posts[p].caller /\ posts'[p].of = posts[p].of
              /\ posts[p].stage \in TurnedAway \/ posts'[p].stage \in TurnedAway
                    => posts'[p].stage = posts[p].stage
        /\ DOMAIN posts' \subseteq DOMAIN posts

LEMMA EndedKeeps ==
  ASSUME GInv, NEW P \in SUBSET Live, NEW s \in Stages \ (TurnedAway \cup {"queued"}), Ended(P, s)
  PROVE  Kept /\ \A c \in Calls : QueuedOf(c)' \subseteq QueuedOf(c)
<1>1. \A p \in P : posts[p].stage \notin TurnedAway
  BY DEF Live, Waits, TurnedAway
<1>2. Kept
  BY <1>1 DEF Ended, Kept
<1>3. ASSUME NEW c \in Calls PROVE QueuedOf(c)' \subseteq QueuedOf(c)
  BY DEF QueuedOf, Ended, Handlers1
<1> QED BY <1>2, <1>3

\* One step of the gateway by itself, as the callers see it.
Serves == /\ GInv' /\ Kept /\ sidSeq' = sidSeq
          /\ \A c \in Calls : Load(c)' <= Load(c) /\ Load(c)' \in Nat
          /\ ran' = ran \/ \E c \in Calls : ran' = [ran EXCEPT ![c] = ran[c] + 1]
          /\ \/ UNCHANGED <<sessions, restarts>>
             \/ sessions' = {} /\ restarts' = restarts + 1

LEMMA EndServes ==
  ASSUME GInv, GInv', NEW P \in SUBSET Live, NEW s \in Stages \ (TurnedAway \cup {"queued"}), Ended(P, s),
         unread' \subseteq unread, ran' = ran, sidSeq' = sidSeq,
         \/ UNCHANGED <<sessions, restarts>>
         \/ sessions' = {} /\ restarts' = restarts + 1
  PROVE  Serves
<1>1. Kept /\ \A c \in Calls : QueuedOf(c)' \subseteq QueuedOf(c)
  BY EndedKeeps
<1>2. ASSUME NEW c \in Calls
      PROVE  Load(c)' <= Load(c) /\ Load(c)' \in Nat
  <2>1. UnreadOf(c)' \subseteq UnreadOf(c)
    BY DEF UnreadOf
  <2> QED BY <1>1, <2>1, LoadNeverGrows
<1> QED BY <1>1, <1>2 DEF Serves

LEMMA WriteServes ==
  ASSUME GInv, NEW p \in Handlers1, Write(p)
  PROVE  Serves
<1> DEFINE o == posts[p].of
           line == Line(NewId, o)
<1>1. GInv'
  BY WriteInv
<1>2. /\ posts[p].stage = "queued" /\ posts[p] \in Post1 /\ o \in Calls
      /\ UNCHANGED <<working, child, ran, siteVars, faults>>
  BY DEF Write, Oldest, GInv, PostsInv, Handlers1, Post1
<1>3. /\ DOMAIN posts' = DOMAIN posts
      /\ posts'[p].caller = posts[p].caller /\ posts'[p].of = posts[p].of
      /\ posts'[p].stage \in {"writing", "waiting"}
      /\ \A q \in DOMAIN posts \ {p} : posts'[q] = posts[q]
  <2>1. posts' = [posts EXCEPT ![p].stage = IF Fits(unread') THEN "waiting" ELSE "writing", ![p].id = NewId]
    BY DEF Write
  <2>2. posts'[p] = [posts[p] EXCEPT !.stage = IF Fits(unread') THEN "waiting" ELSE "writing", !.id = NewId]
    BY <2>1 DEF Handlers1
  <2> QED BY <1>2, <2>1, <2>2 DEF Post1, Handlers1
<1>4. unread' = unread \/ unread' = unread \cup {line}
  BY DEF Write
<1>5. line.of = o
  BY DEF Line
<1>6. Kept
  BY <1>2, <1>3 DEF Kept, TurnedAway
<1> HIDE DEF line
<1>7. ASSUME NEW c \in Calls
      PROVE  Load(c)' <= Load(c) /\ Load(c)' \in Nat
  <2>1. CASE c # o
    <3>1. UnreadOf(c)' \subseteq UnreadOf(c)
      BY <1>4, <1>5, <2>1 DEF UnreadOf
    <3>2. QueuedOf(c)' \subseteq QueuedOf(c)
      BY <1>3 DEF QueuedOf, Handlers1
    <3> QED BY <1>2, <3>1, <3>2, LoadNeverGrows
  <2>2. CASE c = o
    <3>1. UnreadOf(c)' \subseteq UnreadOf(c) \cup {line}
      BY <1>4 DEF UnreadOf
    <3>2. QueuedOf(c)' = QueuedOf(c) \ {p} /\ p \in QueuedOf(c)
      BY <1>2, <1>3, <2>2 DEF QueuedOf, Handlers1
    <3>3. Cardinality(UnreadOf(c)') \in Nat /\ Cardinality(UnreadOf(c)') <= Cardinality(UnreadOf(c)) + 1
      <4>1. IsFiniteSet(UnreadOf(c) \cup {line})
            /\ Cardinality(UnreadOf(c) \cup {line}) <= Cardinality(UnreadOf(c)) + 1
        BY LoadIsFinite, FS_AddElement
      <4> HIDE DEF o
      <4>2. /\ IsFiniteSet(UnreadOf(c)')
            /\ Cardinality(UnreadOf(c)') <= Cardinality(UnreadOf(c) \cup {line})
        BY <3>1, <4>1, FS_Subset
      <4>3. Cardinality(UnreadOf(c)') \in Nat /\ Cardinality(UnreadOf(c) \cup {line}) \in Nat
        BY <4>1, <4>2, FS_CardinalityType
      <4> QED BY <4>1, <4>2, <4>3, LoadIsFinite
    <3>4. Cardinality(QueuedOf(c)') = Cardinality(QueuedOf(c)) - 1 /\ Cardinality(QueuedOf(c)') \in Nat
      BY <3>2, LoadIsFinite, FS_RemoveElement, FS_CardinalityType
    <3>5. ran'[c] = ran[c]
      BY <1>2
    <3> QED BY <3>3, <3>4, <3>5, LoadIsFinite DEF Load
  <2> QED BY <2>1, <2>2
<1> QED BY <1>1, <1>2, <1>6, <1>7 DEF Serves, siteVars

LEMMA ReadServes ==
  ASSUME GInv, NEW line \in Lines, Read(line)
  PROVE  Serves
<1> DEFINE o == line.of
<1>1. GInv' /\ posts' = posts /\ o \in Calls /\ ran' = [ran EXCEPT ![o] = ran[o] + 1]
  BY ReadInv
<1>2. line \in unread /\ unread' = unread \ {line} /\ UNCHANGED siteVars
  BY DEF Read
<1>3. Kept
  BY <1>1 DEF Kept
<1>4. ran \in [Calls -> Nat]
  BY DEF GInv, AnswersInv
<1>5. ASSUME NEW c \in Calls
      PROVE  Load(c)' <= Load(c) /\ Load(c)' \in Nat
  <2>1. QueuedOf(c)' = QueuedOf(c)
    BY <1>1 DEF QueuedOf, Handlers1
  <2>2. CASE c # o
    <3>1. UnreadOf(c)' \subseteq UnreadOf(c)
      BY <1>2 DEF UnreadOf
    <3>2. ran'[c] = ran[c]
      BY <1>1, <1>4, <2>2
    <3> QED BY <2>1, <3>1, <3>2, LoadNeverGrows
  <2>3. CASE c = o
    <3>1. UnreadOf(c)' = UnreadOf(c) \ {line} /\ line \in UnreadOf(c)
      BY <1>2, <2>3 DEF UnreadOf
    <3>2. Cardinality(UnreadOf(c)') = Cardinality(UnreadOf(c)) - 1 /\ Cardinality(UnreadOf(c)') \in Nat
      BY <3>1, LoadIsFinite, FS_RemoveElement, FS_CardinalityType
    <3>3. ran'[c] = ran[c] + 1
      BY <1>1, <1>4, <2>3
    <3> QED BY <2>1, <3>2, <3>3, LoadIsFinite DEF Load
  <2> QED BY <2>2, <2>3
<1> QED BY <1>1, <1>2, <1>3, <1>5 DEF Serves, siteVars

\* Steps that leave all handlers and executions alone and add no line.
LEMMA QuietServes ==
  ASSUME GInv, GInv', posts' = posts, ran' = ran, unread' \subseteq unread,
         UNCHANGED <<sessions, sidSeq, restarts>>
  PROVE  Serves
<1>1. Kept
  BY DEF Kept
<1>2. ASSUME NEW c \in Calls
      PROVE  Load(c)' <= Load(c) /\ Load(c)' \in Nat
  <2>1. QueuedOf(c)' \subseteq QueuedOf(c) /\ UnreadOf(c)' \subseteq UnreadOf(c)
    BY DEF QueuedOf, UnreadOf, Handlers1
  <2> QED BY <2>1, LoadNeverGrows
<1> QED BY <1>1, <1>2 DEF Serves

LEMMA GatewayServes ==
  ASSUME GInv, Handlers \/ Server \/ Die \/ ReaderFails \/ Restart
  PROVE  Serves
<1>1. ASSUME NEW p \in DOMAIN posts, Write(p) PROVE Serves
  BY <1>1, WriteServes DEF Handlers1
<1>2. ASSUME NEW p \in DOMAIN posts, Drained(p) PROVE Serves
  <2>1. /\ p \in Handlers1 /\ p \in Live /\ posts[p].stage = "writing"
        /\ {"waiting", "broken"} \subseteq Stages \ (TurnedAway \cup {"queued"})
        /\ UNCHANGED <<idSeq, childVars, siteVars, faults>>
    BY <1>2 DEF Drained, Handlers1, Live, Waits, Finals, Stages, TurnedAway
  <2>2. CASE posts' = [posts EXCEPT ![p].stage = "waiting"] /\ UNCHANGED <<holder, pending>>
    <3>1. GInv' /\ Ended({p}, "waiting")
      BY <2>1, <2>2, DrainedInv DEF proxyVars
    <3> QED BY <2>1, <3>1, EndServes DEF childVars, siteVars
  <2>3. CASE posts[p].id \notin DOMAIN pending /\ Finish(p, "broken") /\ holder' = 0 /\ UNCHANGED pending
    <3>1. GInv' /\ Ended({p}, "broken")
      BY <2>1, <2>3, DrainedLateInv
    <3> QED BY <2>1, <3>1, EndServes DEF childVars, siteVars
  <2> QED BY <1>2, <2>2, <2>3 DEF Drained
<1>3. ASSUME NEW p \in DOMAIN posts, WriteFails(p) PROVE Serves
  <2>1. p \in Live /\ "broken" \in Stages \ (TurnedAway \cup {"queued"})
    BY <1>3 DEF WriteFails, Live, Waits, Stages, Finals, TurnedAway
  <2>2. GInv' /\ Ended({p}, "broken")
    BY <1>3, WriteFailsInv DEF Handlers1
  <2> QED BY <1>3, <2>1, <2>2, EndServes DEF WriteFails, childVars, siteVars
<1>4. ASSUME NEW p \in DOMAIN posts, TimeOut(p) PROVE Serves
  <2>1. p \in Live /\ "timedOut" \in Stages \ (TurnedAway \cup {"queued"})
    BY <1>4 DEF TimeOut, Live, Waits, Stages, Finals, TurnedAway
  <2>2. GInv' /\ Ended({p}, "timedOut")
    BY <1>4, TimeOutInv DEF Handlers1
  <2> QED BY <1>4, <2>1, <2>2, EndServes DEF TimeOut, childVars, siteVars
<1>5. ASSUME Eof \/ ReaderFails PROVE Serves
  <2>1. "broken" \in Stages \ (TurnedAway \cup {"queued"})
    BY DEF Stages, Finals, TurnedAway
  <2>2. ReaderEnds /\ faults' \in 0..MaxFaults
    BY <1>5, GatewayAssumption DEF Eof, ReaderFails, Fault, GInv, SiteInv
  <2>3. GInv' /\ Awaiting \subseteq Live /\ Ended(Awaiting, "broken")
    BY <2>2, ReaderEndsInv
  <2> QED BY <2>1, <2>2, <2>3, EndServes DEF ReaderEnds, childVars
<1>6. ASSUME NEW line \in Lines, Read(line) PROVE Serves
  BY <1>6, ReadServes
<1>7. ASSUME NEW line \in Lines, Route(line) PROVE Serves
  <2>1. GInv' /\ holder \in Handlers1 /\ Ended({holder}, "answered")
    BY <1>7, RouteInv
  <2>2. holder \in Live /\ "answered" \in Stages \ (TurnedAway \cup {"queued"})
    BY <2>1 DEF GInv, LockInv, Live, Waits, Stages, Finals, TurnedAway, Handlers1
  <2> QED BY <1>7, <2>1, <2>2, EndServes DEF Route, siteVars
<1>8. ASSUME NEW line \in Lines, Drop(line) PROVE Serves
  <2>1. GInv'
    BY <1>8, DropInv
  <2> QED BY <1>8, <2>1, QuietServes DEF Drop, siteVars
<1>9. ASSUME Die PROVE Serves
  <2>1. GInv'
    BY <1>9, DieInv
  <2> QED BY <1>9, <2>1, QuietServes DEF Die, siteVars
<1>10. ASSUME Restart PROVE Serves
  <2>1. "reset" \in Stages \ (TurnedAway \cup {"queued"})
    BY DEF Stages, Finals, TurnedAway
  <2>2. GInv' /\ Ended(Live, "reset")
    BY <1>10, RestartInv
  <2> QED BY <1>10, <2>1, <2>2, EndServes DEF Restart
<1> QED BY <1>1, <1>2, <1>3, <1>4, <1>5, <1>6, <1>7, <1>8, <1>9, <1>10 DEF Handlers, Server
-----------------------------------------------------------------------------
(* The threads of the callers. *)

TInv ==
    /\ pc \in [Calls -> Places] /\ sid \in 0..sidSeq /\ token \in [Calls -> 0..sidSeq]
    /\ again \in [Calls -> BOOLEAN] /\ rebuilt \in [Calls -> BOOLEAN]
    /\ attempt \in [Calls -> 1..MaxAttempts] /\ post \in [Calls -> Nat]
    /\ reply \in [Calls -> Calls \cup {"none", "error", "expired"}]
    /\ hurt \in [Calls -> Nat] /\ author \in Calls \cup {NoOne} /\ crossed \in [Calls -> BOOLEAN]

\* A call that waits has a handler of its own; one that is under way has no reply.
AtHandler(c) ==
    /\ IF pc[c] = "wait" THEN post[c] \in DOMAIN posts /\ posts[post[c]].caller = c /\ posts[post[c]].of = c
       ELSE post[c] = 0
    /\ pc[c] # "over" => reply[c] = "none"

\* The last attempt may be executed; those before it ended in a failure.
Spent(c) == pc[c] = "over" \/ (pc[c] = "wait" /\ posts[post[c]].stage \notin TurnedAway)
Loaded(c) == Load(c) <= hurt[c] + 1 /\ (~Spent(c) => Load(c) <= hurt[c])

\* Before the first restart no session is ever refused.
FirstSession(c) ==
    restarts = 0 => /\ ~rebuilt[c]
                    /\ pc[c] \in {"store", "resend", "wait"} => token[c] # 0
                    /\ pc[c] = "headers" => sid # 0
                    /\ pc[c] = "wait" => posts[post[c]].stage # "refused"

\* Before the second one no session is refused that was built to replace a refused one.
SecondSession(c) ==
    restarts < 2 /\ rebuilt[c] =>
        /\ pc[c] \in {"idle", "ensure", "init", "store"} /\ author = c => sid = 0
        /\ pc[c] = "store" => token[c] \in sessions
        /\ pc[c] = "headers" /\ author = c => sid \in sessions
        /\ pc[c] \in {"resend", "wait"} /\ ~crossed[c] => token[c] \in sessions
        /\ pc[c] = "wait" /\ ~crossed[c] => posts[post[c]].stage # "refused"

Lone(c) == reply[c] = "expired" => crossed[c] \/ restarts > 1

CallInv(c) == AtHandler(c) /\ Loaded(c) /\ FirstSession(c) /\ SecondSession(c) /\ Lone(c)

IInv == /\ GInv /\ TInv
        /\ restarts = 0 => sessions = 1..sidSeq
        /\ \A c \in Calls : CallInv(c)

\* What a step of c leaves alone of another call.
Same(d) ==
    /\ pc'[d] = pc[d] /\ token'[d] = token[d] /\ again'[d] = again[d] /\ rebuilt'[d] = rebuilt[d]
    /\ attempt'[d] = attempt[d] /\ post'[d] = post[d] /\ reply'[d] = reply[d]
    /\ hurt'[d] = hurt[d] /\ crossed'[d] = crossed[d]

\* What a step of c does to the gateway.
Moves(c) ==
    /\ GInv' /\ restarts' = restarts /\ sessions \subseteq sessions'
    /\ sidSeq' \in Nat /\ sidSeq' >= sidSeq
    /\ restarts = 0 => sessions' = 1..sidSeq'
    /\ \A d \in Calls \ {c} : /\ pc[d] = "wait" => post[d] \in DOMAIN posts' /\ posts'[post[d]] = posts[post[d]]
                              /\ Load(d)' <= Load(d) /\ Load(d)' \in Nat

LEMMA OthersKeep ==
  ASSUME IInv, NEW c \in Calls, Moves(c), NEW d \in Calls \ {c}, Same(d),
         \/ sid' = sid /\ author' = author
         \/ author' = c /\ (restarts = 0 => sid' # 0)
  PROVE  CallInv(d)'
<1>1. /\ pc[d] = "wait" => post[d] \in DOMAIN posts' /\ posts'[post[d]] = posts[post[d]]
      /\ Load(d)' <= Load(d) /\ Load(d)' \in Nat /\ restarts' = restarts /\ sessions \subseteq sessions'
  BY DEF Moves
<1>2. CallInv(d) /\ d # c /\ Load(d) \in Nat /\ hurt[d] \in Nat
  BY LoadIsFinite DEF IInv, TInv
<1>3. AtHandler(d)'
  BY <1>1, <1>2 DEF CallInv, AtHandler, Same
<1>4. Loaded(d)'
  <2>1. Spent(d)' <=> Spent(d)
    BY <1>1 DEF Spent, Same
  <2> QED BY <1>1, <1>2, <2>1 DEF CallInv, Loaded, Same
<1>5. FirstSession(d)'
  BY <1>1, <1>2 DEF CallInv, FirstSession, Same
<1>6. SecondSession(d)'
  BY <1>1, <1>2 DEF CallInv, SecondSession, Same
<1>7. Lone(d)'
  BY <1>1, <1>2 DEF CallInv, Lone, Same
<1> QED BY <1>3, <1>4, <1>5, <1>6, <1>7 DEF CallInv

LEMMA OneMoves ==
  ASSUME IInv, NEW c \in Calls, Moves(c), TInv', CallInv(c)', \A d \in Calls \ {c} : Same(d),
         \/ sid' = sid /\ author' = author
         \/ author' = c /\ (restarts = 0 => sid' # 0)
  PROVE  IInv'
<1>1. ASSUME NEW d \in Calls \ {c} PROVE CallInv(d)'
  BY OthersKeep
<1>2. \A d \in Calls : CallInv(d)'
  BY <1>1
<1> QED BY <1>2 DEF IInv, Moves

\* Steps that do not touch the gateway.
LEMMA GatewayAlone ==
  ASSUME GInv, UNCHANGED gatewayVars
  PROVE  GInv'
<1>1. UNCHANGED <<posts, proxyVars, childVars, siteVars, faults>>
  BY DEF gatewayVars
<1>2. PostsInv' /\ LockInv' /\ PendingInv'
  BY <1>1 DEF GInv, PostsInv, LockInv, PendingInv, Handlers1, proxyVars, childVars
<1>3. LinesInv' /\ AnswersInv'
  BY <1>1 DEF GInv, LinesInv, AnswersInv, Lines, Handlers1, proxyVars, childVars
<1>4. SiteInv'
  BY <1>1 DEF GInv, SiteInv, siteVars, childVars
<1> QED BY <1>2, <1>3, <1>4 DEF GInv

LEMMA AloneMoves ==
  ASSUME IInv, NEW c \in Calls, UNCHANGED gatewayVars
  PROVE  Moves(c) /\ Load(c)' = Load(c) /\ ran' = ran /\ posts' = posts /\ sidSeq' = sidSeq
         /\ restarts' = restarts /\ sessions' = sessions
<1>1. UNCHANGED <<posts, proxyVars, childVars, siteVars, faults>>
  BY DEF gatewayVars
<1>2. GInv'
  BY GatewayAlone DEF IInv
<1>3. ASSUME NEW d \in Calls PROVE Load(d)' = Load(d) /\ Load(d) \in Nat
  BY <1>1, LoadIsFinite DEF IInv, Load, UnreadOf, QueuedOf, Handlers1, childVars
<1>4. sidSeq \in Nat
  BY DEF IInv, GInv, SiteInv
<1>5. \A d \in Calls \ {c} : pc[d] = "wait" => post[d] \in DOMAIN posts
  BY DEF IInv, CallInv, AtHandler
<1> QED BY <1>1, <1>2, <1>3, <1>4, <1>5 DEF IInv, Moves, siteVars, childVars

LEMMA LeavesMoves ==
  ASSUME IInv, NEW c \in Calls, pc[c] = "wait", Leave(post[c]), faults' \in 0..MaxFaults
  PROVE  Moves(c) /\ Load(c)' <= Load(c) /\ Load(c)' \in Nat /\ ran' = ran
         /\ sidSeq' = sidSeq /\ restarts' = restarts /\ sessions' = sessions
<1> DEFINE p == post[c]
<1>1. p \in Handlers1 /\ posts[p].caller = c /\ GInv
  BY DEF IInv, CallInv, AtHandler, Handlers1
<1> HIDE DEF p
<1>2. /\ GInv' /\ Untouched(p) /\ DOMAIN posts' \subseteq DOMAIN posts
      /\ (posts[p].stage = "queued" <=> p \in DOMAIN posts' /\ posts'[p].stage = "queued")
      /\ (p \in DOMAIN posts' => posts'[p].of = posts[p].of)
      /\ UNCHANGED <<unread, ran, sessions, sidSeq, restarts>>
  BY <1>1, LeaveInv DEF p
<1>3. ASSUME NEW d \in Calls PROVE Load(d)' <= Load(d) /\ Load(d)' \in Nat
  <2>1. QueuedOf(d)' \subseteq QueuedOf(d)
    BY <1>1, <1>2 DEF QueuedOf, Untouched, Handlers1
  <2>2. UnreadOf(d)' \subseteq UnreadOf(d)
    BY <1>2 DEF UnreadOf
  <2> QED BY <1>1, <1>2, <2>1, <2>2, LoadNeverGrows
<1>4. ASSUME NEW d \in Calls \ {c}, pc[d] = "wait"
      PROVE  post[d] \in DOMAIN posts' /\ posts'[post[d]] = posts[post[d]]
  <2>1. post[d] \in DOMAIN posts /\ posts[post[d]].caller = d
    BY <1>4 DEF IInv, CallInv, AtHandler
  <2> QED BY <1>1, <1>2, <2>1 DEF Untouched
<1>5. sidSeq \in Nat
  BY DEF IInv, GInv, SiteInv
<1> QED BY <1>2, <1>3, <1>4, <1>5 DEF IInv, Moves

LEMMA ReceiveMoves ==
  ASSUME IInv, NEW c \in Calls, NEW s, Receive(c, s), faults' = faults
  PROVE  /\ Moves(c) /\ Load(c)' \in Nat
         /\ Load(c)' <= Load(c) + (IF posts'[Newest + 1].stage = "queued" THEN 1 ELSE 0)
         /\ Newest + 1 \in DOMAIN posts' /\ Newest + 1 \in Nat
         /\ posts'[Newest + 1].caller = c /\ posts'[Newest + 1].of = c
         /\ posts'[Newest + 1].stage \in Admission(s)
         /\ UNCHANGED <<ran, sessions, sidSeq, restarts>>
<1> DEFINE p == Newest + 1
<1>1. /\ GInv' /\ Newest \in Nat /\ p \notin DOMAIN posts /\ Untouched(p)
      /\ DOMAIN posts' = DOMAIN posts \cup {p}
      /\ posts'[p].caller = c /\ posts'[p].of = c /\ posts'[p].stage \in Admission(s)
      /\ UNCHANGED <<unread, ran, sessions, sidSeq, restarts>>
  BY ReceiveInv DEF IInv
<1>2. GInv /\ sidSeq \in Nat
  BY DEF IInv, GInv, SiteInv
<1>3. p \in Nat
  BY <1>1
<1> HIDE DEF p
<1>4. \A d \in Calls : UnreadOf(d)' = UnreadOf(d)
  BY <1>1 DEF UnreadOf
<1>5. ASSUME NEW d \in Calls \ {c} PROVE Load(d)' <= Load(d) /\ Load(d)' \in Nat
  <2>1. QueuedOf(d)' \subseteq QueuedOf(d)
    BY <1>1 DEF QueuedOf, Untouched, Handlers1
  <2> QED BY <1>1, <1>2, <1>4, <2>1, LoadNeverGrows
<1>6. Load(c)' \in Nat /\ Load(c)' <= Load(c) + (IF posts'[p].stage = "queued" THEN 1 ELSE 0)
  <2>1. CASE posts'[p].stage = "queued"
    <3>1. QueuedOf(c)' = QueuedOf(c) \cup {p} /\ p \notin QueuedOf(c)
      BY <1>1, <2>1 DEF QueuedOf, Untouched, Handlers1
    <3>2. Cardinality(QueuedOf(c)') = Cardinality(QueuedOf(c)) + 1
      BY <1>2, <3>1, LoadIsFinite, FS_AddElement
    <3> QED BY <1>1, <1>2, <1>4, <2>1, <3>2, LoadIsFinite DEF Load
  <2>2. CASE posts'[p].stage # "queued"
    <3>1. QueuedOf(c)' \subseteq QueuedOf(c)
      BY <1>1, <2>2 DEF QueuedOf, Untouched, Handlers1
    <3>2. Load(c)' <= Load(c) /\ Load(c)' \in Nat
      BY <1>1, <1>2, <1>4, <3>1, LoadNeverGrows
    <3> QED BY <1>2, <2>2, <3>2, LoadIsFinite
  <2> QED BY <2>1, <2>2
<1>7. ASSUME NEW d \in Calls \ {c}, pc[d] = "wait"
      PROVE  post[d] \in DOMAIN posts' /\ posts'[post[d]] = posts[post[d]]
  <2>1. post[d] \in DOMAIN posts
    BY <1>7 DEF IInv, CallInv, AtHandler
  <2> QED BY <1>1, <2>1 DEF Untouched
<1>8. Moves(c)
  BY <1>1, <1>2, <1>5, <1>7 DEF IInv, Moves
<1> QED BY <1>1, <1>3, <1>6, <1>8 DEF p
-----------------------------------------------------------------------------
(* How a call goes on. *)

LEMMA ReturnsInv ==
  ASSUME IInv, NEW c \in Calls, Moves(c), Load(c)' <= Load(c), Load(c)' \in Nat,
         NEW how \in Calls \cup {"error", "expired"}, Returns(c, how), sidSeq' = sidSeq, restarts' = restarts,
         \/ hurt' = hurt
         \/ Hurts(c),
         author' = author, how = "expired" => crossed[c] \/ restarts > 1
  PROVE  IInv'
<1>1. TInv /\ hurt[c] \in Nat /\ Load(c) \in Nat /\ CallInv(c)
  BY LoadIsFinite DEF IInv, TInv
<1>2. hurt' \in [Calls -> Nat] /\ hurt'[c] >= hurt[c] /\ \A d \in Calls \ {c} : hurt'[d] = hurt[d]
  BY <1>1 DEF TInv, Hurts
<1>3. TInv'
  <2>1. attempt' \in [Calls -> 1..MaxAttempts]
    BY <1>1, ClientAssumption DEF TInv, Returns
  <2>2. token' \in [Calls -> 0..sidSeq] /\ post' \in [Calls -> Nat] /\ again' \in [Calls -> BOOLEAN]
    <3>1. 0 \in 0..sidSeq
      BY DEF IInv, GInv, SiteInv
    <3> QED BY <1>1, <3>1 DEF TInv, Returns, Fresh, NoPost
  <2>3. pc' \in [Calls -> Places] /\ rebuilt' \in [Calls -> BOOLEAN] /\ crossed' \in [Calls -> BOOLEAN]
        /\ reply' \in [Calls -> Calls \cup {"none", "error", "expired"}]
    BY <1>1 DEF TInv, Returns, Goto, Places
  <2>4. sid' \in 0..sidSeq' /\ author' \in Calls \cup {NoOne}
    BY <1>1 DEF TInv, Returns
  <2> QED BY <1>2, <2>1, <2>2, <2>3, <2>4 DEF TInv
<1>4. \A d \in Calls \ {c} : Same(d)
  BY <1>1, <1>2 DEF TInv, Returns, Goto, Fresh, NoPost, Same
<1>5. pc'[c] = "over" /\ post'[c] = 0 /\ rebuilt'[c] = FALSE /\ reply'[c] = how
      /\ (how = "expired" => crossed'[c] = crossed[c])
  BY <1>1 DEF TInv, Returns, Goto, Fresh, NoPost
<1>6. Loaded(c)'
  BY <1>1, <1>2, <1>5 DEF CallInv, Loaded, Spent
<1>7. CallInv(c)'
  <2>1. AtHandler(c)' /\ FirstSession(c)' /\ SecondSession(c)'
    BY <1>5 DEF AtHandler, FirstSession, SecondSession
  <2>2. Lone(c)'
    BY <1>5 DEF Lone
  <2> QED BY <1>6, <2>1, <2>2 DEF CallInv
<1>8. sid' = sid
  BY DEF Returns
<1> QED BY <1>3, <1>4, <1>7, <1>8, OneMoves

LEMMA RetriesInv ==
  ASSUME IInv, NEW c \in Calls, Moves(c), Load(c)' <= Load(c), Load(c)' \in Nat,
         pc[c] = "wait", Retries(c), Hurts(c), sidSeq' = sidSeq, author' = author
  PROVE  IInv'
<1>1. TInv /\ hurt[c] \in Nat /\ Load(c) \in Nat /\ CallInv(c)
  BY LoadIsFinite DEF IInv, TInv
<1>2. hurt' \in [Calls -> Nat] /\ hurt'[c] = hurt[c] + 1 /\ \A d \in Calls \ {c} : hurt'[d] = hurt[d]
  BY <1>1 DEF TInv, Hurts
<1>3. TInv'
  <2>1. attempt' \in [Calls -> 1..MaxAttempts]
    BY <1>1, ClientAssumption DEF TInv, Retries
  <2>2. 0 \in 0..sidSeq
    BY DEF IInv, GInv, SiteInv
  <2> QED BY <1>1, <1>2, <2>1, <2>2 DEF TInv, Retries, Goto, Fresh, NoPost, Places
<1>4. \A d \in Calls \ {c} : Same(d)
  BY <1>1, <1>2 DEF TInv, Retries, Goto, Fresh, NoPost, Same
<1>5. pc'[c] = "ensure" /\ post'[c] = 0 /\ rebuilt'[c] = FALSE /\ reply'[c] = reply[c]
      /\ reply[c] = "none"
  BY <1>1 DEF TInv, Retries, Goto, Fresh, NoPost, CallInv, AtHandler
<1>6. Loaded(c)'
  BY <1>1, <1>2, <1>5 DEF CallInv, Loaded
<1>7. CallInv(c)'
  <2>1. AtHandler(c)' /\ FirstSession(c)' /\ SecondSession(c)' /\ Lone(c)'
    BY <1>5 DEF AtHandler, FirstSession, SecondSession, Lone
  <2> QED BY <1>6, <2>1 DEF CallInv
<1>8. sid' = sid
  BY DEF Retries
<1> QED BY <1>3, <1>4, <1>7, <1>8, OneMoves

LEMMA BrokenInv ==
  ASSUME IInv, NEW c \in Calls, Moves(c), Load(c)' <= Load(c), Load(c)' \in Nat,
         pc[c] = "wait", Broken(c), sidSeq' = sidSeq, restarts' = restarts, sessions' = sessions
  PROVE  IInv'
<1>1. CASE SendsAgain(c) /\ again' = [again EXCEPT ![c] = TRUE] /\ Goto(c, "resend")
           /\ NoPost(c) /\ UNCHANGED <<sid, token, rebuilt, attempt, reply, crossed>>
  <2>1. TInv /\ hurt[c] \in Nat /\ Load(c) \in Nat /\ CallInv(c)
    BY LoadIsFinite DEF IInv, TInv
  <2>2. hurt' \in [Calls -> Nat] /\ hurt'[c] = hurt[c] + 1 /\ author' = author
        /\ \A d \in Calls \ {c} : hurt'[d] = hurt[d]
    BY <2>1 DEF TInv, Hurts, Broken
  <2>3. TInv'
    BY <1>1, <2>1, <2>2 DEF TInv, Goto, NoPost, Places
  <2>4. \A d \in Calls \ {c} : Same(d)
    BY <1>1, <2>1, <2>2 DEF TInv, Goto, NoPost, Same
  <2>5. pc'[c] = "resend" /\ post'[c] = 0 /\ rebuilt' = rebuilt /\ reply' = reply
        /\ token' = token /\ crossed' = crossed /\ sid' = sid
    BY <1>1, <2>1 DEF TInv, Goto, NoPost
  <2>6. Loaded(c)'
    BY <2>1, <2>2, <2>5 DEF CallInv, Loaded
  <2>7. AtHandler(c)' /\ FirstSession(c)' /\ SecondSession(c)' /\ Lone(c)'
    BY <2>1, <2>5 DEF CallInv, AtHandler, FirstSession, SecondSession, Lone
  <2>8. CallInv(c)'
    BY <2>6, <2>7 DEF CallInv
  <2> QED BY <2>2, <2>3, <2>4, <2>5, <2>8, OneMoves
<1>2. CASE Retries(c)
  BY <1>2, RetriesInv DEF Broken
<1>3. CASE Returns(c, "error")
  BY <1>3, ReturnsInv DEF Broken
<1> QED BY <1>1, <1>2, <1>3 DEF Broken
-----------------------------------------------------------------------------
(* The callers' steps keep IInv. *)

LEMMA EnsureInv ==
  ASSUME IInv, NEW c \in Calls, Ensure(c)
  PROVE  IInv'
<1>1. TInv /\ CallInv(c) /\ pc[c] \in {"idle", "ensure"}
      /\ UNCHANGED <<gatewayVars, sid, threadVars, reply, historyVars>>
  BY DEF IInv, Ensure
<1>2. Moves(c) /\ Load(c)' = Load(c) /\ posts' = posts /\ sidSeq' = sidSeq /\ restarts' = restarts
      /\ sessions' = sessions
  BY <1>1, AloneMoves
<1>3. pc' = [pc EXCEPT ![c] = IF sid # 0 THEN "headers" ELSE "init"]
      /\ pc'[c] = IF sid # 0 THEN "headers" ELSE "init"
  BY <1>1 DEF Ensure, Goto, TInv
<1>4. TInv'
  BY <1>1, <1>2, <1>3 DEF TInv, threadVars, historyVars, Places
<1>5. \A d \in Calls \ {c} : Same(d)
  BY <1>1, <1>3 DEF TInv, threadVars, historyVars, Same
<1>6. CallInv(c)'
  BY <1>1, <1>2, <1>3 DEF CallInv, AtHandler, Loaded, Spent, FirstSession, SecondSession, Lone,
     threadVars, historyVars
<1> QED BY <1>1, <1>2, <1>4, <1>5, <1>6, OneMoves DEF historyVars

LEMMA InitializeInv ==
  ASSUME IInv, NEW c \in Calls, Initialize(c)
  PROVE  IInv' /\ ran' = ran
<1>1. TInv /\ CallInv(c) /\ pc[c] = "init" /\ token' = [token EXCEPT ![c] = sidSeq'] /\ Goto(c, "store")
      /\ UNCHANGED <<sid, again, rebuilt, attempt, post, reply, historyVars>>
  BY DEF IInv, Initialize
<1>2. /\ GInv' /\ sidSeq' = sidSeq + 1 /\ sidSeq \in Nat /\ sessions' = sessions \cup {sidSeq + 1}
      /\ UNCHANGED <<posts, unread, ran, restarts>>
  BY InitializedInv DEF IInv, Initialize
<1>3. \A d \in Calls : Load(d)' = Load(d) /\ Load(d) \in Nat
  BY <1>2, LoadIsFinite DEF IInv, Load, UnreadOf, QueuedOf, Handlers1
<1>4. restarts = 0 => sessions' = 1..sidSeq'
  BY <1>2 DEF IInv
<1>5. \A d \in Calls \ {c} : pc[d] = "wait" => post[d] \in DOMAIN posts
  BY DEF IInv, CallInv, AtHandler
<1>6. Moves(c)
  BY <1>2, <1>3, <1>4, <1>5 DEF Moves
<1>7. TInv'
  BY <1>1, <1>2 DEF TInv, historyVars, Goto, Places
<1>8. \A d \in Calls \ {c} : Same(d)
  BY <1>1 DEF TInv, historyVars, Goto, Same
<1>9. token'[c] = sidSeq + 1 /\ pc'[c] = "store"
  BY <1>1, <1>2 DEF TInv, Goto
<1>10. CallInv(c)'
  BY <1>1, <1>2, <1>3, <1>9 DEF CallInv, AtHandler, Loaded, Spent, FirstSession, SecondSession, Lone,
     historyVars
<1> QED BY <1>1, <1>2, <1>6, <1>7, <1>8, <1>10, OneMoves DEF historyVars

LEMMA StoreInv ==
  ASSUME IInv, NEW c \in Calls, Store(c)
  PROVE  IInv'
<1>1. TInv /\ CallInv(c) /\ pc[c] = "store" /\ sid' = token[c] /\ author' = c /\ Goto(c, "headers")
      /\ UNCHANGED <<gatewayVars, threadVars, reply, hurt, crossed>>
  BY DEF IInv, Store
<1>2. Moves(c) /\ Load(c)' = Load(c) /\ posts' = posts /\ sidSeq' = sidSeq /\ restarts' = restarts
      /\ sessions' = sessions
  BY <1>1, AloneMoves
<1>3. pc' = [pc EXCEPT ![c] = "headers"] /\ pc'[c] = "headers"
  BY <1>1 DEF Goto, TInv
<1>4. TInv'
  BY <1>1, <1>2, <1>3 DEF TInv, threadVars, Places
<1>5. \A d \in Calls \ {c} : Same(d)
  BY <1>1, <1>3 DEF TInv, threadVars, Same
<1>6. CallInv(c)'
  BY <1>1, <1>2, <1>3 DEF CallInv, AtHandler, Loaded, Spent, FirstSession, SecondSession, Lone,
     threadVars
<1>7. restarts = 0 => sid' # 0
  BY <1>1 DEF CallInv, FirstSession
<1> QED BY <1>1, <1>2, <1>4, <1>5, <1>6, <1>7, OneMoves

\* A request goes out with the session s in its headers.
LEMMA SendsInv ==
  ASSUME IInv, NEW c \in Calls, pc[c] \in {"headers", "resend"}, Sends(c),
         NEW s \in 0..sidSeq, Receive(c, s), token' = [token EXCEPT ![c] = s],
         crossed' \in [Calls -> BOOLEAN], \A d \in Calls \ {c} : crossed'[d] = crossed[d],
         restarts = 0 => s # 0,
         restarts < 2 /\ rebuilt[c] /\ ~crossed'[c] => s \in sessions
  PROVE  IInv' /\ ran' = ran /\ reply' = reply
<1>1. TInv /\ CallInv(c) /\ hurt[c] \in Nat /\ Load(c) \in Nat
      /\ UNCHANGED <<sid, again, rebuilt, attempt, reply, hurt, author, faults>>
  BY LoadIsFinite DEF IInv, Sends, TInv
<1>2. /\ Moves(c) /\ Load(c)' \in Nat
      /\ Load(c)' <= Load(c) + (IF posts'[Newest + 1].stage = "queued" THEN 1 ELSE 0)
      /\ Newest + 1 \in DOMAIN posts' /\ Newest + 1 \in Nat
      /\ posts'[Newest + 1].caller = c /\ posts'[Newest + 1].of = c
      /\ posts'[Newest + 1].stage \in Admission(s)
      /\ UNCHANGED <<ran, sessions, sidSeq, restarts>>
  BY <1>1, ReceiveMoves
<1>3. /\ post' = [post EXCEPT ![c] = Newest + 1] /\ post'[c] = Newest + 1
      /\ pc' = [pc EXCEPT ![c] = "wait"] /\ pc'[c] = "wait" /\ token'[c] = s
  BY <1>1 DEF Sends, Goto, TInv
<1>4. TInv'
  BY <1>1, <1>2, <1>3 DEF TInv, Places
<1>5. \A d \in Calls \ {c} : Same(d)
  BY <1>1, <1>3 DEF TInv, Same
<1>6. posts'[post'[c]].stage \in {"refused", "queued", "notReady"}
      /\ (s \in sessions => posts'[post'[c]].stage # "refused")
  BY <1>2, <1>3 DEF Admission
<1>7. AtHandler(c)' /\ Lone(c)'
  BY <1>1, <1>2, <1>3 DEF CallInv, AtHandler, Lone
<1>8. Loaded(c)'
  <2>1. ~Spent(c)
    BY DEF Spent
  <2>2. Spent(c)' <=> posts'[post'[c]].stage = "queued"
    BY <1>3, <1>6 DEF Spent, TurnedAway
  <2> QED BY <1>1, <1>2, <1>3, <2>1, <2>2 DEF CallInv, Loaded
<1>9. FirstSession(c)' /\ SecondSession(c)'
  <2>1. restarts = 0 => s \in sessions
    BY DEF IInv, GInv, SiteInv
  <2> QED BY <1>1, <1>2, <1>3, <1>6, <2>1 DEF CallInv, FirstSession, SecondSession
<1>10. CallInv(c)'
  BY <1>7, <1>8, <1>9 DEF CallInv
<1> QED BY <1>1, <1>2, <1>4, <1>5, <1>10, OneMoves

LEMMA PostInv ==
  ASSUME IInv, NEW c \in Calls, Post(c)
  PROVE  IInv' /\ ran' = ran /\ reply' = reply
<1>1. /\ pc[c] = "headers" /\ Sends(c) /\ Receive(c, sid) /\ token' = [token EXCEPT ![c] = sid]
      /\ crossed' = [crossed EXCEPT ![c] = author # c] /\ TInv /\ CallInv(c)
  BY DEF Post, IInv
<1>2. /\ crossed' \in [Calls -> BOOLEAN] /\ crossed'[c] = (author # c) /\ sid \in 0..sidSeq
      /\ \A d \in Calls \ {c} : crossed'[d] = crossed[d]
  BY <1>1 DEF TInv
<1>3. restarts = 0 => sid # 0
  BY <1>1 DEF CallInv, FirstSession
<1>4. restarts < 2 /\ rebuilt[c] /\ ~crossed'[c] => sid \in sessions
  BY <1>1, <1>2 DEF CallInv, SecondSession
<1> QED BY <1>1, <1>2, <1>3, <1>4, SendsInv

LEMMA PostAgainInv ==
  ASSUME IInv, NEW c \in Calls, PostAgain(c)
  PROVE  IInv' /\ ran' = ran /\ reply' = reply
<1>1. /\ pc[c] = "resend" /\ Sends(c) /\ Receive(c, token[c]) /\ token' = token /\ crossed' = crossed
      /\ TInv /\ CallInv(c)
  BY DEF PostAgain, IInv
<1>2. token' = [token EXCEPT ![c] = token[c]] /\ token[c] \in 0..sidSeq /\ crossed' \in [Calls -> BOOLEAN]
      /\ \A d \in Calls \ {c} : crossed'[d] = crossed[d]
  BY <1>1 DEF TInv
<1>3. restarts = 0 => token[c] # 0
  BY <1>1 DEF CallInv, FirstSession
<1>4. restarts < 2 /\ rebuilt[c] /\ ~crossed'[c] => token[c] \in sessions
  BY <1>1 DEF CallInv, SecondSession
<1> QED BY <1>1, <1>2, <1>3, <1>4, SendsInv

\* 400: with a new session once more, or the marker of an expired one.
LEMMA RefusedInv ==
  ASSUME IInv, NEW c \in Calls, Refused(c)
  PROVE  IInv'
<1>1. pc[c] = "wait" /\ posts[post[c]].stage = "refused" /\ Leave(post[c]) /\ hurt' = hurt /\ faults' = faults
      /\ faults' \in 0..MaxFaults /\ TInv /\ CallInv(c) /\ hurt[c] \in Nat /\ Load(c) \in Nat
  BY LoadIsFinite DEF Refused, Connected, IInv, GInv, SiteInv, TInv
<1>2. Moves(c) /\ Load(c)' <= Load(c) /\ Load(c)' \in Nat
      /\ sidSeq' = sidSeq /\ restarts' = restarts /\ sessions' = sessions
  BY <1>1, LeavesMoves
<1>3. CASE /\ sid' = Cleared /\ author' = c /\ rebuilt' = [rebuilt EXCEPT ![c] = TRUE] /\ Goto(c, "ensure")
           /\ Fresh(c) /\ UNCHANGED <<attempt, reply, crossed>>
  <2>1. TInv'
    <3>1. 0 \in 0..sidSeq
      BY DEF IInv, GInv, SiteInv
    <3> QED BY <1>1, <1>2, <1>3, <3>1 DEF TInv, Cleared, Goto, Fresh, NoPost, Places
  <2>2. \A d \in Calls \ {c} : Same(d)
    BY <1>1, <1>3 DEF TInv, Goto, Fresh, NoPost, Same
  <2>3. pc'[c] = "ensure" /\ post'[c] = 0 /\ sid' = 0 /\ author' = c /\ reply'[c] = reply[c] /\ reply[c] = "none"
    BY <1>1, <1>3 DEF TInv, Cleared, Goto, Fresh, NoPost, CallInv, AtHandler
  <2>4. restarts # 0
    BY <1>1 DEF CallInv, FirstSession
  <2>5. ~Spent(c)
    BY <1>1 DEF Spent, TurnedAway
  <2>6. Loaded(c)'
    BY <1>1, <1>2, <2>5 DEF CallInv, Loaded
  <2>7. AtHandler(c)' /\ FirstSession(c)' /\ SecondSession(c)' /\ Lone(c)'
    BY <1>2, <2>3, <2>4 DEF AtHandler, FirstSession, SecondSession, Lone
  <2>8. CallInv(c)'
    BY <2>6, <2>7 DEF CallInv
  <2> QED BY <1>2, <1>3, <2>1, <2>2, <2>4, <2>8, OneMoves
<1>4. CASE rebuilt[c] /\ Returns(c, "expired") /\ author' = author
  <2>1. crossed[c] \/ restarts > 1
    <3>1. restarts \in Nat
      BY DEF IInv, GInv, SiteInv
    <3> QED BY <1>1, <1>4, <3>1 DEF CallInv, SecondSession
  <2> QED BY <1>1, <1>2, <1>4, <2>1, ReturnsInv
<1> QED BY <1>3, <1>4 DEF Refused

LEMMA NotInitializedInv ==
  ASSUME IInv, NEW c \in Calls, NotInitialized(c)
  PROVE  IInv'
<1>1. Returns(c, "error") /\ UNCHANGED <<gatewayVars, hurt, author>>
  BY DEF NotInitialized
<1>2. Moves(c) /\ Load(c)' = Load(c) /\ Load(c) \in Nat /\ sidSeq' = sidSeq /\ restarts' = restarts
  BY <1>1, AloneMoves, LoadIsFinite DEF IInv
<1> QED BY <1>1, <1>2, ReturnsInv

\* The steps that let a handler go because of a fault, a reset or a time-out.
LEMMA LetsGoInv ==
  ASSUME IInv, NEW c \in Calls,
         LosesConnection(c) \/ SeesReset(c) \/ ReadTimesOut(c) \/ TimedOut(c) \/ Failed(c)
  PROVE  IInv'
<1>1. pc[c] = "wait" /\ Leave(post[c])
  BY DEF LosesConnection, SeesReset, ReadTimesOut, TimedOut, Failed, Connected
<1>2. faults' \in 0..MaxFaults
  BY GatewayAssumption DEF LosesConnection, SeesReset, ReadTimesOut, TimedOut, Failed, Fault, IInv, GInv, SiteInv
<1>3. Moves(c) /\ Load(c)' <= Load(c) /\ Load(c)' \in Nat
      /\ sidSeq' = sidSeq /\ restarts' = restarts /\ sessions' = sessions
  BY <1>1, <1>2, LeavesMoves
<1>4. CASE LosesConnection(c) \/ SeesReset(c)
  BY <1>1, <1>3, <1>4, BrokenInv DEF LosesConnection, SeesReset
<1>5. CASE ReadTimesOut(c) \/ TimedOut(c)
  <2>1. Hurts(c) /\ author' = author /\ (Retries(c) \/ Returns(c, "error"))
    BY <1>5 DEF ReadTimesOut, TimedOut
  <2> QED BY <1>1, <1>3, <2>1, RetriesInv, ReturnsInv
<1>6. CASE Failed(c)
  <2>1. author' = author /\ ((hurt' = hurt /\ Returns(c, "error")) \/ (Hurts(c) /\ Retries(c)))
    BY <1>6 DEF Failed
  <2> QED BY <1>1, <1>3, <2>1, RetriesInv, ReturnsInv
<1> QED BY <1>4, <1>5, <1>6

\* Who is answered is answered with what was computed for this call.
LEMMA AnsweredIsOwn ==
  ASSUME IInv, NEW c \in Calls, Answered(c)
  PROVE  posts[post[c]].got = c /\ ran[c] > 0
<1>1. pc[c] = "wait" /\ posts[post[c]].stage = "answered"
  BY DEF Answered, Connected
<1>2. post[c] \in Handlers1 /\ posts[post[c]].of = c
  BY <1>1 DEF IInv, CallInv, AtHandler, Handlers1
<1> QED BY <1>1, <1>2 DEF IInv, GInv, AnswersInv

LEMMA AnsweredInv ==
  ASSUME IInv, NEW c \in Calls, Answered(c)
  PROVE  IInv'
<1>1. pc[c] = "wait" /\ Leave(post[c]) /\ author' = author /\ faults' \in 0..MaxFaults
  BY DEF Answered, Connected, IInv, GInv, SiteInv
<1>2. Moves(c) /\ Load(c)' <= Load(c) /\ Load(c)' \in Nat
      /\ sidSeq' = sidSeq /\ restarts' = restarts /\ sessions' = sessions
  BY <1>1, LeavesMoves
<1>3. \/ hurt' = hurt /\ (Returns(c, c) \/ Returns(c, "error"))
      \/ Hurts(c) /\ Retries(c)
  BY AnsweredIsOwn DEF Answered
<1>4. c # "expired"
  BY ReplyAssumption
<1> QED BY <1>1, <1>2, <1>3, <1>4, RetriesInv, ReturnsInv

\* A step of the gateway by itself, for every caller.
LEMMA ServesInv ==
  ASSUME IInv, Serves, UNCHANGED clientVars
  PROVE  IInv'
<1>1. UNCHANGED <<pc, sid, token, again, rebuilt, attempt, post, reply, hurt, author, crossed>>
  BY DEF clientVars, threadVars, historyVars
<1>2. GInv /\ GInv' /\ Kept /\ sidSeq' = sidSeq /\ restarts \in Nat
  BY DEF IInv, Serves, GInv, SiteInv
<1>3. TInv'
  BY <1>1, <1>2 DEF IInv, TInv
<1>4. \/ UNCHANGED <<sessions, restarts>>
      \/ sessions' = {} /\ restarts' = restarts + 1
  BY DEF Serves
<1>5. restarts' = 0 => sessions' = 1..sidSeq'
  BY <1>2, <1>4 DEF IInv
<1>6. ASSUME NEW c \in Calls PROVE CallInv(c)'
  <2>1. CallInv(c) /\ Load(c) \in Nat /\ Load(c)' <= Load(c) /\ Load(c)' \in Nat /\ hurt[c] \in Nat /\ c # NoOne
    BY LoadIsFinite, NoOneAssumption DEF IInv, Serves, TInv
  <2>2. pc[c] = "wait" => /\ post[c] \in DOMAIN posts'
                          /\ posts'[post[c]].caller = c /\ posts'[post[c]].of = c
                          /\ posts[post[c]].stage \in TurnedAway \/ posts'[post[c]].stage \in TurnedAway
                               => posts'[post[c]].stage = posts[post[c]].stage
    BY <1>2, <2>1 DEF CallInv, AtHandler, Kept
  <2>3. AtHandler(c)'
    BY <1>1, <2>1, <2>2 DEF CallInv, AtHandler
  <2>4. Spent(c)' <=> Spent(c)
    BY <1>1, <2>2 DEF Spent
  <2>5. Loaded(c)'
    BY <1>1, <2>1, <2>4 DEF CallInv, Loaded
  <2>6. pc[c] = "wait" /\ posts'[post[c]].stage = "refused" => posts[post[c]].stage = "refused"
    BY <2>2 DEF TurnedAway
  <2>7. FirstSession(c)'
    BY <1>1, <1>2, <1>4, <2>1, <2>6 DEF CallInv, FirstSession
  <2>8. SecondSession(c)'
    <3>1. CASE UNCHANGED <<sessions, restarts>>
      BY <1>1, <2>1, <2>6, <3>1 DEF CallInv, SecondSession
    <3>2. CASE sessions' = {} /\ restarts' = restarts + 1
      <4>1. restarts' < 2 => restarts = 0
        BY <1>2, <3>2
      <4> QED BY <1>1, <2>1, <4>1 DEF CallInv, FirstSession, SecondSession
    <3> QED BY <1>4, <3>1, <3>2
  <2>9. Lone(c)'
    BY <1>1, <1>2, <1>4, <2>1 DEF CallInv, Lone
  <2> QED BY <2>3, <2>5, <2>7, <2>8, <2>9 DEF CallInv
<1> QED BY <1>2, <1>3, <1>5, <1>6 DEF IInv
-----------------------------------------------------------------------------
(* The theorems. *)

LEMMA InitIInv == Init => IInv
<1> SUFFICES ASSUME Init PROVE IInv
  OBVIOUS
<1> USE DEF Init, GatewayInit
<1>1. PostsInv /\ LockInv
  <2>1. DOMAIN posts = {} /\ posts \in [DOMAIN posts -> Post1]
    OBVIOUS
  <2>2. DOMAIN posts \subseteq 1..0
    BY <2>1
  <2> QED BY <2>1, <2>2 DEF PostsInv, LockInv, Handlers1
<1>2. PendingInv
  <2>1. DOMAIN pending = {} /\ pending \in [DOMAIN pending -> Nat]
    OBVIOUS
  <2> QED BY <2>1 DEF PendingInv
<1>3. LinesInv /\ AnswersInv
  BY FS_EmptySet DEF LinesInv, AnswersInv, Lines, Handlers1
<1>4. SiteInv
  BY GatewayAssumption DEF SiteInv
<1>5. GInv
  BY <1>1, <1>2, <1>3, <1>4 DEF GInv
<1>6. TInv
  <2>1. 1 \in 1..MaxAttempts
    BY ClientAssumption
  <2> QED BY <2>1 DEF TInv, Places
<1>7. sessions = 1..sidSeq
  OBVIOUS
<1>8. ASSUME NEW c \in Calls PROVE CallInv(c)
  <2>1. UnreadOf(c) = {} /\ QueuedOf(c) = {}
    BY DEF UnreadOf, QueuedOf, Handlers1
  <2>2. Load(c) = 0
    BY <2>1, FS_EmptySet DEF Load
  <2>3. Loaded(c)
    BY <2>2 DEF Loaded
  <2>4. AtHandler(c) /\ FirstSession(c) /\ SecondSession(c) /\ Lone(c)
    BY DEF AtHandler, FirstSession, SecondSession, Lone
  <2> QED BY <2>3, <2>4 DEF CallInv
<1> QED BY <1>5, <1>6, <1>7, <1>8 DEF IInv

LEMMA ClientKeepsIInv ==
  ASSUME IInv, NEW c \in Calls, Client(c) \/ LosesConnection(c)
  PROVE  IInv'
<1>1. CASE Ensure(c)
  BY <1>1, EnsureInv
<1>2. CASE Initialize(c)
  BY <1>2, InitializeInv
<1>3. CASE NotInitialized(c)
  BY <1>3, NotInitializedInv
<1>4. CASE Store(c)
  BY <1>4, StoreInv
<1>5. CASE Post(c)
  BY <1>5, PostInv
<1>6. CASE PostAgain(c)
  BY <1>6, PostAgainInv
<1>7. CASE SeesReset(c) \/ ReadTimesOut(c) \/ TimedOut(c) \/ Failed(c) \/ LosesConnection(c)
  BY <1>7, LetsGoInv
<1>8. CASE Refused(c)
  BY <1>8, RefusedInv
<1>9. CASE Answered(c)
  BY <1>9, AnsweredInv
<1> QED BY <1>1, <1>2, <1>3, <1>4, <1>5, <1>6, <1>7, <1>8, <1>9 DEF Client

LEMMA NextKeepsIInv == IInv /\ [Next]_vars => IInv'
<1> SUFFICES ASSUME IInv, [Next]_vars PROVE IInv'
  OBVIOUS
<1>1. ASSUME NEW c \in Calls, Client(c) \/ LosesConnection(c) PROVE IInv'
  BY <1>1, ClientKeepsIInv
<1>2. CASE (Handlers \/ Server \/ Die \/ ReaderFails \/ Restart) /\ UNCHANGED clientVars
  <2>1. Serves
    BY <1>2, GatewayServes DEF IInv
  <2> QED BY <1>2, <2>1, ServesInv
<1>3. CASE UNCHANGED vars
  <2>1. UNCHANGED gatewayVars /\ UNCHANGED clientVars
    BY <1>3 DEF vars
  <2>2. UNCHANGED <<posts, childVars, siteVars>> /\ GInv'
    BY <2>1, GatewayAlone DEF IInv, gatewayVars
  <2>3. Serves
    BY <2>2, QuietServes DEF IInv, childVars, siteVars
  <2> QED BY <2>1, <2>3, ServesInv
<1> QED BY <1>1, <1>2, <1>3 DEF Next

\* The gateway's tables and the callers' threads stay consistent, one request flies that
\* anybody waits for, and no future outlives its handler while the child lives (call and
\* _read_loop of proxy.py).
THEOREM GatewaySound == Spec => []GatewayIsSound
<1>1. IInv => TypeOK
  <2> SUFFICES ASSUME IInv PROVE TypeOK
    OBVIOUS
  <2>1. GInv /\ TInv
    BY DEF IInv
  <2>2. DOMAIN posts \subseteq Nat \ {0} /\ holder \in Live \cup {0}
        /\ \A p \in DOMAIN posts : posts[p] \in [caller : Calls \cup {NoOne}, of : Calls,
               stage : Waits \cup Finals, id : Nat, got : Calls \cup {NoOne}]
    BY <2>1 DEF GInv, PostsInv, LockInv, Live, Waits, Handlers1, Post1, Stages
  <2>3. idSeq \in Nat /\ \A id \in DOMAIN pending : id \in 2..idSeq /\ pending[id] \in Nat
    BY <2>1 DEF GInv, PendingInv
  <2>4. Lines \subseteq [id : 2..idSeq, of : Calls] /\ ran \in [Calls -> Nat]
    BY <2>1 DEF GInv, LinesInv, AnswersInv
  <2>5. /\ sidSeq \in Nat /\ restarts \in Nat /\ child \in {"up", "gone"} /\ ready \in BOOLEAN
        /\ sessions \subseteq 1..sidSeq /\ faults \in 0..MaxFaults
    BY <2>1 DEF GInv, SiteInv
  <2>6. post \in [Calls -> DOMAIN posts \cup {0}]
    BY <2>1 DEF IInv, TInv, CallInv, AtHandler
  <2> QED BY <2>1, <2>2, <2>3, <2>4, <2>5, <2>6 DEF TypeOK, TInv
<1>2. IInv => OneLiveCall
  <2> SUFFICES ASSUME IInv, NEW l \in Lines, NEW m \in Lines, l.id \in DOMAIN pending, m.id \in DOMAIN pending
               PROVE  l = m
    BY DEF OneLiveCall
  <2>1. child # "gone"
    BY DEF IInv, GInv, LinesInv
  <2>2. l.id = m.id
    BY <2>1 DEF IInv, GInv, PendingInv
  <2> QED BY <2>2 DEF IInv, GInv, LinesInv
<1>3. IInv => PendingIsAwaited
  <2> SUFFICES ASSUME IInv, NEW id \in DOMAIN pending, child # "gone"
               PROVE  pending[id] \in Live /\ posts[pending[id]].id = id
    BY DEF PendingIsAwaited
  <2>1. holder # 0 /\ pending[id] = holder /\ posts[holder].id = id
    BY DEF IInv, GInv, PendingInv
  <2>2. holder \in Live
    BY <2>1 DEF IInv, GInv, LockInv, Live, Waits, Handlers1
  <2> QED BY <2>1, <2>2
<1>4. IInv => GatewayIsSound
  BY <1>1, <1>2, <1>3 DEF GatewayIsSound
<1> QED BY <1>4, InitIInv, NextKeepsIInv, PTL DEF Spec

\* No request is executed more often than its call has seen failures, and once
\* (_post_mcp, _query_datasource_with_retry).
THEOREM RunsExplained == Spec => []RunsAreExplained
<1>1. IInv => RunsAreExplained
  <2> SUFFICES ASSUME IInv, NEW c \in Calls PROVE ran[c] <= hurt[c] + 1
    BY DEF RunsAreExplained
  <2>1. Load(c) <= hurt[c] + 1 /\ hurt[c] \in Nat
    BY DEF IInv, CallInv, Loaded, TInv
  <2>2. ran[c] <= Load(c) /\ ran[c] \in Nat /\ Load(c) \in Nat
    BY LoadIsFinite DEF IInv, Load
  <2> QED BY <2>1, <2>2
<1> QED BY <1>1, InitIInv, NextKeepsIInv, PTL DEF Spec

\* A session that expires once is rebuilt without the caller's noticing, unless another
\* call interferes (_send_jsonrpc).
THEOREM LoneCallsRecover == Spec => []LoneCallRecovers
<1>1. IInv => LoneCallRecovers
  BY DEF IInv, CallInv, Lone, LoneCallRecovers
<1> QED BY <1>1, InitIInv, NextKeepsIInv, PTL DEF Spec

\* How a call may end, as the promise sees it.
LEMMA ReturnsReply ==
  ASSUME IInv, NEW c \in Calls, pc[c] # "over", NEW how, Returns(c, how), ran' = ran,
         how \in {"error", "expired"} \/ (how = c /\ ran[c] > 0)
  PROVE  Promise!Reply(c)
<1>1. reply[c] = "none" /\ reply' = [reply EXCEPT ![c] = how]
  BY DEF IInv, CallInv, AtHandler, Returns
<1> QED BY <1>1 DEF Promise!Reply, Promise!Errors

LEMMA StepPromise == IInv /\ [Next]_vars => [Promise!Next]_(Promise!promiseVars)
<1> SUFFICES ASSUME IInv, [Next]_vars PROVE Promise!Next \/ UNCHANGED <<ran, reply>>
  BY DEF Promise!promiseVars
<1>1. ASSUME NEW c \in Calls, Ensure(c) \/ Store(c)
      PROVE  UNCHANGED <<ran, reply>>
  BY <1>1 DEF Ensure, Store, gatewayVars, childVars
<1>2. ASSUME NEW c \in Calls, Initialize(c)
      PROVE  UNCHANGED <<ran, reply>>
  BY <1>2, InitializeInv DEF Initialize
<1>3. ASSUME NEW c \in Calls, Post(c) \/ PostAgain(c)
      PROVE  UNCHANGED <<ran, reply>>
  BY <1>3, PostInv, PostAgainInv
<1>4. ASSUME NEW c \in Calls, NotInitialized(c)
      PROVE  Promise!Reply(c)
  BY <1>4, ReturnsReply DEF NotInitialized, gatewayVars, childVars
<1>5. ASSUME NEW c \in Calls, SeesReset(c) \/ ReadTimesOut(c) \/ Refused(c) \/ Answered(c) \/ TimedOut(c)
                              \/ Failed(c) \/ LosesConnection(c)
      PROVE  Promise!Reply(c) \/ UNCHANGED <<ran, reply>>
  <2>1. pc[c] # "over" /\ Leave(post[c])
    BY <1>5 DEF SeesReset, ReadTimesOut, Refused, Answered, TimedOut, Failed, LosesConnection, Connected
  <2>2. ran' = ran
    BY <2>1 DEF Leave, childVars
  <2>3. CASE Answered(c)
    <3>1. (Returns(c, c) /\ ran[c] > 0) \/ Returns(c, "error") \/ reply' = reply
      BY <2>3, AnsweredIsOwn DEF Answered, Retries
    <3> QED BY <2>1, <2>2, <3>1, ReturnsReply
  <2>4. CASE ~Answered(c)
    <3>1. Returns(c, "error") \/ Returns(c, "expired") \/ reply' = reply
      BY <1>5, <2>4 DEF SeesReset, ReadTimesOut, Refused, TimedOut, Failed, LosesConnection, Broken,
                            Retries
    <3> QED BY <2>1, <2>2, <3>1, ReturnsReply
  <2> QED BY <2>3, <2>4
<1>6. CASE (Handlers \/ Server \/ Die \/ ReaderFails \/ Restart) /\ UNCHANGED clientVars
  <2>1. Serves
    BY <1>6, GatewayServes DEF IInv
  <2>2. reply' = reply
    BY <1>6 DEF clientVars
  <2> QED BY <2>1, <2>2 DEF Serves, Promise!Next, Promise!Execute
<1>7. CASE UNCHANGED vars
  BY <1>7 DEF vars, gatewayVars, childVars, clientVars
<1> QED BY <1>1, <1>2, <1>3, <1>4, <1>5, <1>6, <1>7 DEF Next, Client, Promise!Next

\* Whoever is answered gets what was computed for its own request, once: the routing by id
\* implements McpPromise (_read_loop of proxy.py).
THEOREM PromiseIsKept == Spec => KeepsPromise
<1>1. Init => Promise!Init
  BY DEF Init, GatewayInit, Promise!Init
<1> QED BY <1>1, InitIInv, NextKeepsIInv, StepPromise, PTL DEF Spec, KeepsPromise, Promise!Spec
=============================================================================

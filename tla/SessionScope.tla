---------------------------- MODULE SessionScope ----------------------------
(***************************************************************************)
(* The database session of a request (app/core/database.py).               *)
(*                                                                         *)
(* SessionLocal is a scoped_session: a registry with one Session for each  *)
(* THREAD.  get_db is a synchronous generator, which FastAPI enters in one *)
(* thread of a pool and leaves in any other; the handler, if it is a       *)
(* coroutine, runs in neither, and its awaits let other requests be        *)
(* entered on the same idle pool thread.  Services in between take         *)
(* SessionLocal() for themselves, commit and close it.                     *)
(*                                                                         *)
(* A handler adds its objects, commits, and returns, or raises before the  *)
(* commit.  Only the requests whose objects a Session holds matter, so a   *)
(* Session is an identity and its uncommitted work a set of requests.      *)
(***************************************************************************)
EXTENDS Naturals, FiniteSets

CONSTANTS Requests, Threads, Sessions, NoSession

ASSUME NoSessionAssumption == NoSession \notin Sessions

VARIABLES registry,   \* registry[t]: SessionLocal.registry() of thread t, or NoSession
          pc,         \* pc[r]: where request r is
          session,    \* session[r]: the Session get_db gave to r
          pending,    \* pending[s]: whose objects Session s holds uncommitted
          committed,  \* whose objects are in the database
          mixed       \* history: requests that met another one, or a nested session

vars == <<registry, pc, session, pending, committed, mixed>>

Live == {r \in Requests : pc[r] \in {"open", "written", "saved", "raised"}}
Ended == {r \in Requests : pc[r] \in {"ok", "error"}}

Init == /\ registry = [t \in Threads |-> NoSession]
        /\ pc = [r \in Requests |-> "new"]
        /\ session = [r \in Requests |-> NoSession]
        /\ pending = [s \in Sessions |-> {}]
        /\ committed = {}
        /\ mixed = {}

-----------------------------------------------------------------------------
InUse == {registry[t] : t \in Threads} \cup {session[r] : r \in Live}

\* SessionLocal() on thread t: the thread's Session, or a new one.
Given(t) == IF registry[t] # NoSession THEN {registry[t]} ELSE Sessions \ InUse

\* get_db up to its yield; the rollback clears what the Session held.
Enter(r, t) ==
    /\ pc[r] = "new"
    /\ \E s \in Given(t) :
          /\ registry' = [registry EXCEPT ![t] = s]
          /\ session' = [session EXCEPT ![r] = s]
          /\ pending' = [pending EXCEPT ![s] = {}]
    /\ pc' = [pc EXCEPT ![r] = "open"]
    /\ mixed' = mixed \cup (IF Live = {} THEN {} ELSE Live \cup {r})
    /\ UNCHANGED committed

Write(r) ==
    /\ pc[r] = "open"
    /\ pending' = [pending EXCEPT ![session[r]] = @ \cup {r}]
    /\ pc' = [pc EXCEPT ![r] = "written"]
    /\ UNCHANGED <<registry, session, committed, mixed>>

\* Mutant: the flush of one request is taken for its commit.
FlushedOnly(s) == committed

\* A commit takes everything the Session holds.
Flushed(s) == committed \cup pending[s]

Commit(r) ==
    /\ pc[r] = "written"
    /\ committed' = Flushed(session[r])
    /\ pending' = [pending EXCEPT ![session[r]] = {}]
    /\ pc' = [pc EXCEPT ![r] = "saved"]
    /\ UNCHANGED <<registry, session, mixed>>

Raise(r) ==
    /\ pc[r] \in {"open", "written"}
    /\ pc' = [pc EXCEPT ![r] = "raised"]
    /\ UNCHANGED <<registry, session, pending, committed, mixed>>

\* Mutant: only remove, on the thread of the exit.
RemoveOnly(r, t) ==
    [s \in Sessions |-> IF s = registry[t] THEN {} ELSE pending[s]]

\* session.close() and SessionLocal.remove(): both roll back.
Discarded(r, t) ==
    [s \in Sessions |-> IF s \in {session[r], registry[t]} THEN {} ELSE pending[s]]

\* get_db's finally, on whatever thread the pool gives it.
Exit(r, t) ==
    /\ pc[r] \in {"saved", "raised"}
    /\ pending' = Discarded(r, t)
    /\ registry' = [registry EXCEPT ![t] = NoSession]
    /\ pc' = [pc EXCEPT ![r] = IF @ = "saved" THEN "ok" ELSE "error"]
    /\ session' = [session EXCEPT ![r] = NoSession]
    /\ UNCHANGED <<committed, mixed>>

\* A service called by r on thread t uses SessionLocal() for itself: it commits
\* or only reads, then closes the Session, and perhaps removes it.
Nested(r, t) ==
    /\ r \in Live
    /\ \E s \in Given(t), commits \in BOOLEAN, removes \in BOOLEAN :
          /\ committed' = IF commits THEN Flushed(s) ELSE committed
          /\ pending' = [pending EXCEPT ![s] = {}]
          /\ registry' = [registry EXCEPT ![t] = IF removes THEN NoSession ELSE s]
    /\ mixed' = mixed \cup {r}
    /\ UNCHANGED <<pc, session>>

Next == \E r \in Requests :
            \/ Write(r) \/ Commit(r) \/ Raise(r)
            \/ \E t \in Threads : Enter(r, t) \/ Exit(r, t) \/ Nested(r, t)

Spec == Init /\ [][Next]_vars

-----------------------------------------------------------------------------
TypeOK == /\ registry \in [Threads -> Sessions \cup {NoSession}]
          /\ pc \in [Requests -> {"new", "open", "written", "saved", "raised", "ok", "error"}]
          /\ session \in [Requests -> Sessions \cup {NoSession}]
          /\ \A r \in Live : session[r] # NoSession
          /\ pending \in [Sessions -> SUBSET Requests]
          /\ committed \in SUBSET Requests
          /\ mixed \in SUBSET Requests

\* Uncommitted work belongs to requests that still run on that Session: what a
\* failed request left behind is never there for a later one to commit
\* (get_db's finally, database.py:176-178).
NothingLeftBehind ==
    \A s \in Sessions : pending[s] \subseteq {r \in Live : session[r] = s}

\* A request that met no other and used no nested session is atomic: its
\* objects are in the database exactly if it was answered with success,
\* whatever threads entered and left it and whoever came before on them.
AloneIsAtomic ==
    \A r \in Ended \ mixed : r \in committed <=> pc[r] = "ok"

\* "a database session for each request" (get_db's docstring, database.py:167;
\* the comment at 34): two running requests have two Sessions.
OwnSession ==
    \A q, r \in Live : q # r => session[q] # session[r]

\* "Clear any inherited state before handing the session to request handlers"
\* (database.py:170-172): entering a request discards nothing of a request
\* that is still running.
ClearsOnlyInherited ==
    [][\A r \in Requests : pc[r] = "new" /\ pc'[r] = "open" =>
          \A s \in Sessions : pending[s] \cap Live \subseteq pending'[s]]_vars
=============================================================================

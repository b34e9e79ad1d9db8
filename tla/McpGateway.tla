---------------------------- MODULE McpGateway ----------------------------
(***************************************************************************)
(* The Tableau MCP gateway (tableau-mcp-gateway): an HTTP server whose     *)
(* handlers share one child process, the MCP server.  proxy.py writes one  *)
(* JSON line per request to the child under a lock and waits for the       *)
(* future that the reader task resolves by the line's id.                  *)
(*                                                                         *)
(* A handler that times out forgets its id and frees the lock, while the   *)
(* child goes on; a handler's client may have left long before.  The child *)
(* works on several lines at once, answers in any order or never, stops    *)
(* reading its pipe, or dies, and nobody starts it again but a restart of  *)
(* the whole gateway, which forgets the sessions too.                      *)
(***************************************************************************)
EXTENDS Naturals, Sequences, FiniteSets

CONSTANTS Calls,       \* the backend's calls, each a request of its own
          PipeSize,    \* lines that fit between the gateway and a child that does not read
          MaxFaults    \* bound: restarts, deaths, read errors, broken connections

ASSUME GatewayAssumption == PipeSize \in Nat /\ MaxFaults \in Nat

VARIABLES posts,     \* handlers of tools requests, by their order of arrival
          holder,    \* the handler that holds _lock, 0 for none
          idSeq,     \* _id_seq
          pending,   \* _pending: from ids to the handlers whose future they resolve
          unread,    \* lines in the child's stdin
          working,   \* lines the child works on
          child,     \* "up" or "gone"
          ready,     \* _ready: the reader runs; false for ever once it has ended
          sessions,  \* _sessions of main.py: the valid ones
          sidSeq,    \* session ids given out
          faults,    \* faults so far
          restarts,  \* history: restarts of the gateway
          ran        \* history: executions of each call's request

proxyVars == <<holder, idSeq, pending>>
childVars == <<unread, working, child, ran>>
siteVars == <<ready, sessions, sidSeq, restarts>>
gatewayVars == <<posts, proxyVars, childVars, siteVars, faults>>
----------------------------------------------------------------------------
NoOne == "nobody"

ASSUME NoOneAssumption == NoOne \notin Calls

Waits == {"queued", "writing", "waiting"}
Finals == {"answered", "timedOut", "broken", "refused", "notReady", "reset"}

\* A line carries an id, and the request of a call.
Line(id, c) == [id |-> id, of |-> c]
Lines == unread \cup working

Live == {p \in DOMAIN posts : posts[p].stage \in Waits}

Without(p) == [q \in DOMAIN posts \ {p} |-> posts[q]]

\* A handler is over; if its client has left it leaves no trace.
Finish(p, stage) == posts' = IF posts[p].caller = NoOne THEN Without(p)
                             ELSE [posts EXCEPT ![p].stage = stage]

\* All the handlers of a set are over.
FinishAll(P, stage) ==
    posts' = [p \in DOMAIN posts \ {q \in P : posts[q].caller = NoOne} |->
                 IF p \in P THEN [posts[p] EXCEPT !.stage = stage] ELSE posts[p]]

Forget(id) == pending' = [i \in DOMAIN pending \ {id} |-> pending[i]]
Register(id, p) == pending' = [i \in DOMAIN pending \cup {id} |-> IF i = id THEN p ELSE pending[i]]

GatewayInit ==
    /\ posts = <<>> /\ holder = 0 /\ idSeq = 1 /\ pending = <<>>
    /\ unread = {} /\ working = {} /\ child = "up"
    /\ ready = TRUE /\ sessions = {} /\ sidSeq = 0 /\ restarts = 0 /\ faults = 0
    /\ ran = [c \in Calls |-> 0]
----------------------------------------------------------------------------
(* mcp_post *)
\* initialize: a new session, unless the proxy is not ready.
Initialized == /\ ready
               /\ sidSeq' = sidSeq + 1 /\ sessions' = sessions \cup {sidSeq + 1}
               /\ UNCHANGED <<posts, proxyVars, childVars, ready, restarts, faults>>

\* A tools request: the session first, then the proxy, whose child's death is noticed
\* by its exit code or by the end of its stdout.
Admission(sid) ==
    IF sid \notin sessions THEN {"refused"}
    ELSE (IF ready THEN {"queued"} ELSE {}) \cup (IF ~ready \/ child = "gone" THEN {"notReady"} ELSE {})

Newest == IF DOMAIN posts = {} THEN 0 ELSE CHOOSE p \in DOMAIN posts : \A q \in DOMAIN posts : q <= p

Receive(c, sid) ==
    LET p == Newest + 1 IN
    /\ \E stage \in Admission(sid) :
          posts' = [q \in DOMAIN posts \cup {p} |->
                       IF q = p THEN [caller |-> c, of |-> c, stage |-> stage, id |-> 0, got |-> NoOne]
                       ELSE posts[q]]
    /\ UNCHANGED <<proxyVars, childVars, siteVars>>

\* The client does not wait any longer; the handler does not know.
Leave(p) ==
    /\ posts' = IF p \in Live THEN [posts EXCEPT ![p].caller = NoOne] ELSE Without(p)
    /\ UNCHANGED <<proxyVars, childVars, siteVars>>
----------------------------------------------------------------------------
(* TableauMCPProxy.call *)
Oldest(p) == posts[p].stage = "queued" /\ \A q \in Live : posts[q].stage = "queued" => p <= q

\* Mutant: the id counts the calls that are pending.
IdOfPending == Cardinality(DOMAIN pending) + 2

NewId == idSeq + 1

\* Mutant: nobody waits for the lock.
Unlocked == TRUE

LockIsFree == holder = 0

\* drain waits while the pipe is full.
Fits(lines) == child = "gone" \/ Cardinality(lines) <= PipeSize

Write(p) ==
    /\ LockIsFree /\ Oldest(p)
    /\ holder' = p /\ idSeq' = NewId /\ Register(NewId, p)
    /\ unread' = IF child = "gone" THEN unread ELSE unread \cup {Line(NewId, posts[p].of)}
    /\ posts' = [posts EXCEPT ![p].stage = IF Fits(unread') THEN "waiting" ELSE "writing",
                              ![p].id = NewId]
    /\ UNCHANGED <<working, child, ran, siteVars, faults>>

\* For this wait there is no limit of time.  A future that the reader has failed in the
\* meantime is seen only now.
Drained(p) ==
    /\ posts[p].stage = "writing" /\ Fits(unread)
    /\ \/ /\ posts[p].id \in DOMAIN pending
          /\ posts' = [posts EXCEPT ![p].stage = "waiting"] /\ UNCHANGED <<holder, pending>>
       \/ /\ posts[p].id \notin DOMAIN pending
          /\ Finish(p, "broken") /\ holder' = 0 /\ UNCHANGED pending
    /\ UNCHANGED <<idSeq, childVars, siteVars, faults>>

\* A pipe whose end is closed raises, unless nobody has noticed yet.  The id stays in
\* _pending.
WriteFails(p) ==
    /\ p = holder /\ posts[p].stage \in {"writing", "waiting"} /\ child = "gone"
    /\ Finish(p, "broken") /\ holder' = 0
    /\ UNCHANGED <<idSeq, pending, childVars, siteVars, faults>>

\* Mutant: the id stays in _pending.
TimesOutOnly(p) ==
    /\ posts[p].stage = "waiting"
    /\ Finish(p, "timedOut") /\ holder' = 0
    /\ UNCHANGED <<idSeq, pending, childVars, siteVars, faults>>

\* Mutant: the lock is never freed.
TimesOutLocked(p) ==
    /\ posts[p].stage = "waiting"
    /\ Finish(p, "timedOut") /\ Forget(posts[p].id)
    /\ UNCHANGED <<holder, idSeq, childVars, siteVars, faults>>

\* Mutant: the request is written once more.
AsksAgain(p) ==
    /\ posts[p].stage = "waiting"
    /\ posts' = [posts EXCEPT ![p].stage = "queued"] /\ holder' = 0 /\ Forget(posts[p].id)
    /\ UNCHANGED <<idSeq, childVars, siteVars, faults>>

TimeOut(p) ==
    /\ posts[p].stage = "waiting"
    /\ Finish(p, "timedOut") /\ holder' = 0 /\ Forget(posts[p].id)
    /\ UNCHANGED <<idSeq, childVars, siteVars, faults>>
----------------------------------------------------------------------------
(* The MCP server, and the reader of what it answers. *)
Read(line) ==
    /\ line \in unread /\ \A l \in unread : line.id <= l.id
    /\ unread' = unread \ {line} /\ working' = working \cup {line}
    /\ ran' = [ran EXCEPT ![line.of] = @ + 1]
    /\ UNCHANGED <<posts, proxyVars, child, siteVars, faults>>

\* An answer goes to the handler that waits under its id.
Route(line) ==
    /\ ready /\ line \in working /\ line.id \in DOMAIN pending
    /\ working' = working \ {line} /\ Forget(line.id)
    /\ LET p == pending[line.id] IN
       posts' = IF posts[p].caller = NoOne THEN Without(p)
                ELSE [posts EXCEPT ![p].stage = "answered", ![p].got = line.of]
    /\ holder' = 0
    /\ UNCHANGED <<idSeq, unread, child, ran, siteVars, faults>>

\* Nobody waits for it any more.
Drop(line) ==
    /\ ready /\ line \in working /\ line.id \notin DOMAIN pending
    /\ working' = working \ {line}
    /\ UNCHANGED <<posts, proxyVars, unread, child, ran, siteVars, faults>>

\* The reader ends: every future is failed, and the handler that awaits its own is over.
ReaderEnds ==
    /\ ready /\ ready' = FALSE /\ pending' = <<>>
    /\ FinishAll({p \in Live : posts[p].stage = "waiting"}, "broken")
    /\ holder' = IF \E p \in Live : p = holder /\ posts[p].stage = "writing" THEN holder ELSE 0
    /\ UNCHANGED <<idSeq, childVars, sessions, sidSeq, restarts>>

\* The end of the dead child's stdout.
Eof == child = "gone" /\ ReaderEnds /\ UNCHANGED faults

Fault == faults < MaxFaults /\ faults' = faults + 1

Die == /\ Fault /\ child # "gone" /\ child' = "gone" /\ unread' = {} /\ working' = {}
       /\ UNCHANGED <<posts, proxyVars, ran, siteVars>>

\* A read error, or a line above the stream's limit, while the child lives on.
ReaderFails == Fault /\ child # "gone" /\ ReaderEnds

(* The gateway's container starts again: a new proxy with a new child, which may fail *)
(* to start; every connection is lost.                                              *)
Restart ==
    /\ Fault /\ restarts' = restarts + 1
    /\ FinishAll(Live, "reset")
    /\ holder' = 0 /\ idSeq' = 1 /\ pending' = <<>>
    /\ unread' = {} /\ working' = {}
    /\ \/ child' = "up" /\ ready' = TRUE
       \/ child' = "gone" /\ ready' = FALSE
    /\ sessions' = {}
    /\ UNCHANGED <<sidSeq, ran>>

Handlers == (\E p \in DOMAIN posts : Write(p) \/ Drained(p) \/ WriteFails(p) \/ TimeOut(p)) \/ Eof
Server == \E line \in Lines : Read(line) \/ Route(line) \/ Drop(line)
----------------------------------------------------------------------------
\* `Only one request flies on stdin and stdout at a time' (proxy.py:27) holds of the
\* requests somebody waits for: of all the lines the child has, read or not, at most one
\* can still be delivered.
OneLiveCall == \A l, m \in Lines : l.id \in DOMAIN pending /\ m.id \in DOMAIN pending => l = m

\* _pending holds nothing but futures of handlers that are at work under that very id:
\* time-outs, failures and the reader's end leave none behind, only a write to a dead
\* child does.
PendingIsAwaited ==
    \A id \in DOMAIN pending :
        child = "gone" \/ (pending[id] \in Live /\ posts[pending[id]].id = id)
============================================================================
